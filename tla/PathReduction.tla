---------------------------- MODULE PathReduction ----------------------------
(***************************************************************************)
(* The reduction of recorded trajectories to minimal sequences             *)
(* (crates/raichu-analysis/src/sequence.rs).  Trajectories are pushed one  *)
(* at a time, in any order; their cycles are cancelled, equal paths merge, *)
(* and the minimal level absorbs a path into a shorter one it includes.    *)
(* Dates, averaged by weight, and the list of contradicted indices are     *)
(* left out; a name of an event stands for (obj, attr, automaton).         *)
(***************************************************************************)
EXTENDS Integers, Sequences, FiniteSets, FiniteSetsExt, SequencesExt

CONSTANTS
  Alphabet,  \* names of events and of end causes, in the order of names
  NoLabel        \* the absent value of an option

VARIABLES
  corpus,  \* trajectories: events [name, obj, group, kind], cause, weight
  left,    \* trajectories of the corpus not pushed yet
  paths,   \* `Grouping::merged`, in first-seen order
  report   \* `contradicted` and its weight

reductionVars == <<corpus, left, paths, report>>

Rank(n)      == CHOOSE k \in DOMAIN Alphabet : Alphabet[k] = n
NameBefore(m, n) == m # n /\ (m = NoLabel \/ (n # NoLabel /\ Rank(m) < Rank(n)))

Signature(s) == [k \in DOMAIN s.events |-> s.events[k].name]

(* Lexicographic order of signatures.                                       *)
SignatureBefore(p, q) ==
  \/ p # q /\ IsPrefix(p, q)
  \/ \E k \in DOMAIN p \cap DOMAIN q :
       SubSeq(p, 1, k - 1) = SubSeq(q, 1, k - 1) /\ NameBefore(p[k], q[k])

(* `Grouping::merge`: equal paths add up; a kind survives where all agree.  *)
SamePath(s, p) == s.cause = p.cause /\ Signature(s) = Signature(p)

Merged(ps, s) ==
  IF \A k \in DOMAIN ps : ~SamePath(s, ps[k]) THEN Append(ps, s)
  ELSE LET k == CHOOSE i \in DOMAIN ps : SamePath(s, ps[i])
       IN  [ps EXCEPT ![k].weight = @ + s.weight,
                      ![k].events = [j \in DOMAIN @ |->
                        IF @[j].kind = s.events[j].kind THEN @[j] ELSE [@[j] EXCEPT !.kind = NoLabel]]]

-----------------------------------------------------------------------------
(* `cancel_cycles`: of each group that may be cancelled, the last event of  *)
(* an odd number survives.                                                  *)
GroupedWith(s, k) ==
  {i \in DOMAIN s.events : /\ s.events[i].obj = s.events[k].obj
                           /\ s.events[i].group = s.events[k].group}

Survives(s, k, kept) ==
  \/ s.events[k].group = NoLabel
  \/ <<s.events[k].obj, s.events[k].group>> \in kept
  \/ Cardinality(GroupedWith(s, k)) % 2 = 1 /\ k = Max(GroupedWith(s, k))

MayCause(e) == e.kind \notin {"repair", "observation"}

Survivors(s, kept) == {k \in DOMAIN s.events : Survives(s, k, kept)}

(* What is left has no cause: the trajectory is kept whole.                 *)
Contradicts(s, remain) ==
  /\ s.cause # NoLabel /\ remain # DOMAIN s.events
  /\ \/ remain = {}
     \/ /\ \E k \in DOMAIN s.events \ remain : s.events[k].kind = "failure"
        /\ \A k \in remain : ~MayCause(s.events[k])

Kept(s, remain) ==
  LET order == SetToSortSeq(remain, LAMBDA i, j : i < j)
  IN  [s EXCEPT !.events = [k \in DOMAIN order |-> s.events[order[k]]]]

(* `push_indexed`; `keptFor` gives the groups kept for each end cause.      *)
Push(i, keptFor) ==
  LET s      == corpus[i]
      remain == Survivors(s, keptFor[s.cause])
  IN  /\ i \in left /\ left' = left \ {i} /\ UNCHANGED corpus
      /\ IF Contradicts(s, remain)
         THEN /\ paths' = Merged(paths, s)
              /\ report' = [count |-> report.count + 1, weight |-> report.weight + s.weight]
         ELSE paths' = Merged(paths, Kept(s, remain)) /\ UNCHANGED report

-----------------------------------------------------------------------------
(* `minimal_sequences`.                                                     *)
Included(short, long) ==
  \E f \in [DOMAIN short -> DOMAIN long] :
    /\ \A i, j \in DOMAIN short : i < j => f[i] < f[j]
    /\ \A i \in DOMAIN short : short[i] = long[f[i]]

ShorterByWeight(p, q) ==
  \/ Len(p.events) < Len(q.events)
  \/ Len(p.events) = Len(q.events) /\ p.weight > q.weight

Shorter(p, q) ==
  LET m == Len(p.events)  n == Len(q.events)
  IN  \/ m < n
      \/ m = n /\ p.weight > q.weight
      \/ m = n /\ p.weight = q.weight /\ SignatureBefore(Signature(p), Signature(q))

Heavier(p, q) ==
  \/ p.weight > q.weight
  \/ /\ p.weight = q.weight
     /\ \/ NameBefore(p.cause, q.cause)
        \/ p.cause = q.cause /\ SignatureBefore(Signature(p), Signature(q))

(* A stable sort: what neither order separates stays as it came.            *)
Sorted(ps, Before(_, _)) ==
  LET order == SetToSortSeq(DOMAIN ps, LAMBDA i, j :
                 Before(ps[i], ps[j]) \/ (~Before(ps[j], ps[i]) /\ i < j))
  IN  [k \in DOMAIN order |-> ps[order[k]]]

Absorbed(minimal, s) ==
  LET hosts == {k \in DOMAIN minimal : Included(Signature(minimal[k]), Signature(s))}
  IN  IF hosts = {} THEN Append(minimal, s)
      ELSE [minimal EXCEPT ![Min(hosts)].weight = @ + s.weight]

Minimal(ps) ==
  LET bucket(c) == Sorted(SelectSeq(ps, LAMBDA p : p.cause = c), Shorter)
      causes    == SetToSeq({ps[k].cause : k \in DOMAIN ps})
      ofCause(c) == FoldLeft(Absorbed, << >>, bucket(c))
  IN  Sorted(FlattenSeq([k \in DOMAIN causes |-> ofCause(causes[k])]), Heavier)

(* Whatever order trajectories come in, the minimal level holds the paths   *)
(* that include no other of their cause, each with the weight of what goes  *)
(* to it, the first host in the order of length, weight and names; nothing  *)
(* of the corpus's weight is lost (sequence.rs:458-464).                    *)
MinimalIsOrderFree ==
  left = {} =>
    LET result == Minimal(paths)
        all    == Range(paths)
        roots  == {p \in all : \A q \in all \ {p} :
                     q.cause = p.cause => ~Included(Signature(q), Signature(p))}
        hosts(p) == {r \in roots : r.cause = p.cause /\ Included(Signature(r), Signature(p))}
        goesTo(p, r) == r \in hosts(p) /\ \A h \in hosts(p) \ {r} : Shorter(r, h)
        share(r) == MapThenSumSet(LAMBDA p : p.weight, {q \in all : goesTo(q, r)})
    IN  /\ Len(result) = Cardinality(roots)
        /\ Range(result) = {[r EXCEPT !.weight = share(r)] : r \in roots}
        /\ \A k \in 1..Len(result) - 1 : Heavier(result[k], result[k + 1])
        /\ MapThenSumSet(LAMBDA k : result[k].weight, DOMAIN result)
             = MapThenSumSet(LAMBDA i : corpus[i].weight, DOMAIN corpus)
=============================================================================
