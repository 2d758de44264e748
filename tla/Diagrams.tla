------------------------------ MODULE Diagrams ------------------------------
(***************************************************************************)
(* The decision diagrams of the quantifier (crates/raichu-fta/src/dd.rs):  *)
(* the reduced ordered diagram of a Boolean function, and the              *)
(* zero-suppressed one of a family of sets.                                *)
(*                                                                         *)
(* A node <<level, low, high>> is a value, so that two nodes are shared    *)
(* when they are equal; the tables that make sharing fast, and the node    *)
(* budget they are checked against, are left out.                          *)
(***************************************************************************)
EXTENDS Integers, Sequences, FiniteSets, FiniteSetsExt, SequencesExt
LOCAL INSTANCE Fractions

ZERO == <<0>>
ONE  == <<1>>

Terminal(d) == Len(d) = 1
Deepest     == 1000
Level(d)    == IF Terminal(d) THEN Deepest ELSE d[1]
Low(d)      == d[2]
High(d)     == d[3]

Bdd(level, low, high) == IF low = high THEN low ELSE <<level, low, high>>

Literal(level, positive) == IF positive THEN Bdd(level, ZERO, ONE) ELSE Bdd(level, ONE, ZERO)

CoLow(d, level)  == IF Level(d) = level THEN Low(d) ELSE d
CoHigh(d, level) == IF Level(d) = level THEN High(d) ELSE d

RECURSIVE Apply(_, _, _)
Apply(op, a, b) ==
  LET absorbing == IF op = "and" THEN ZERO ELSE ONE
      neutral   == IF op = "and" THEN ONE ELSE ZERO
      level     == Min({Level(a), Level(b)})
  IN  IF absorbing \in {a, b} THEN absorbing
      ELSE IF a = neutral THEN b
      ELSE IF b = neutral \/ a = b THEN a
      ELSE Bdd(level, Apply(op, CoLow(a, level), CoLow(b, level)),
               Apply(op, CoHigh(a, level), CoHigh(b, level)))

(* `fold_balanced`: two by two, as a tree.                                  *)
RECURSIVE Balanced(_, _)
Balanced(op, ds) ==
  IF ds = << >> THEN (IF op = "and" THEN ONE ELSE ZERO)
  ELSE IF Len(ds) = 1 THEN ds[1]
  ELSE Balanced(op, [i \in 1..((Len(ds) + 1) \div 2) |->
                       IF 2 * i > Len(ds) THEN ds[2 * i - 1]
                       ELSE Apply(op, ds[2 * i - 1], ds[2 * i])])

(* `at_least`: with the first and one fewer of the others, or without it.   *)
RECURSIVE AtLeastOf(_, _)
AtLeastOf(k, ds) ==
  IF k = 0 THEN ONE
  ELSE IF Len(ds) < k THEN ZERO
  ELSE Apply("or", Apply("and", ds[1], AtLeastOf(k - 1, Tail(ds))), AtLeastOf(k, Tail(ds)))

RECURSIVE Levels(_)
Levels(d) == IF Terminal(d) THEN {} ELSE {Level(d)} \cup Levels(Low(d)) \cup Levels(High(d))

(* Shannon's decomposition; p gives the probability of each level.          *)
RECURSIVE Probability(_, _)
Probability(d, p) ==
  IF Terminal(d) THEN <<d[1], 1>>
  ELSE Plus(Times(p[Level(d)], Probability(High(d), p)),
            Times(Complement(p[Level(d)]), Probability(Low(d), p)))

(* `birnbaum`: what a level's being certain rather than impossible changes, *)
(* as <<gained, lost>> since a negation may make it negative.               *)
RECURSIVE Derivative(_, _, _)
Derivative(d, level, p) ==
  LET q    == p[Level(d)]
      low  == Derivative(Low(d), level, p)
      high == Derivative(High(d), level, p)
      mixed(i) == Plus(Times(q, high[i]), Times(Complement(q), low[i]))
  IN  IF Level(d) > level THEN << <<0, 1>>, <<0, 1>> >>
      ELSE IF Level(d) = level THEN <<Probability(High(d), p), Probability(Low(d), p)>>
      ELSE <<mixed(1), mixed(2)>>

RECURSIVE Implies(_, _)
Implies(a, b) ==
  LET level == Min({Level(a), Level(b)})
  IN  IF a = ZERO \/ b = ONE \/ a = b THEN TRUE
      ELSE IF a = ONE \/ b = ZERO THEN FALSE
      ELSE /\ Implies(CoLow(a, level), CoLow(b, level))
           /\ Implies(CoHigh(a, level), CoHigh(b, level))

RECURSIVE IsMonotone(_)
IsMonotone(d) ==
  Terminal(d) \/ (Implies(Low(d), High(d)) /\ IsMonotone(Low(d)) /\ IsMonotone(High(d)))

-----------------------------------------------------------------------------
(* Families of sets: ZERO holds none, ONE the empty one.                    *)
Zbdd(level, low, high) == IF high = ZERO THEN low ELSE <<level, low, high>>

RECURSIVE HoldsEmptySet(_)
HoldsEmptySet(z) == IF Terminal(z) THEN z = ONE ELSE HoldsEmptySet(Low(z))

(* The sets of p that contain no set of q.                                  *)
RECURSIVE Without(_, _)
Without(p, q) ==
  IF ZERO \in {p, q} THEN p
  ELSE IF p = q \/ HoldsEmptySet(q) THEN ZERO
  ELSE IF p = ONE THEN ONE
  ELSE IF q = ONE \/ Level(p) < Level(q)
  THEN Zbdd(Level(p), Without(Low(p), q), Without(High(p), q))
  ELSE IF Level(p) > Level(q) THEN Without(p, Low(q))
  ELSE Zbdd(Level(p), Without(Low(p), Low(q)), Without(Without(High(p), High(q)), Low(q)))

(* `minsol`: the minimal solutions of a monotone function.                  *)
RECURSIVE MinimalSolutions(_)
MinimalSolutions(d) ==
  IF Terminal(d) THEN d
  ELSE LET low == MinimalSolutions(Low(d))
       IN  Zbdd(Level(d), low, Without(MinimalSolutions(High(d)), low))

(* `family_of`: the sets with the smallest level go high.                   *)
RECURSIVE FamilyOf(_)
FamilyOf(sets) ==
  IF sets = {} THEN ZERO
  ELSE IF sets = {{}} THEN ONE
  ELSE LET first == Min(UNION sets)
           with  == {s \in sets : first \in s}
       IN  Zbdd(first, FamilyOf(sets \ with), FamilyOf({s \ {first} : s \in with}))

(* `minimal`.                                                               *)
RECURSIVE MinimalFamily(_)
MinimalFamily(z) ==
  IF Terminal(z) THEN z
  ELSE LET low == MinimalFamily(Low(z))
       IN  Zbdd(Level(z), low, Without(MinimalFamily(High(z)), low))

(* `pivotal`: an upper bound of the union.                                  *)
RECURSIVE Pivotal(_, _)
Pivotal(z, p) ==
  IF Terminal(z) THEN <<z[1], 1>>
  ELSE LET with == Times(p[Level(z)], Pivotal(High(z), p))
       IN  Plus(with, Times(Pivotal(Low(z), p), Complement(with)))

(* `sets` and `weighted_count`.                                             *)
RECURSIVE SetsOf(_)
SetsOf(z) ==
  IF z = ZERO THEN {} ELSE IF z = ONE THEN {{}}
  ELSE SetsOf(Low(z)) \cup {s \cup {Level(z)} : s \in SetsOf(High(z))}

RECURSIVE WeightedCount(_, _)
WeightedCount(z, weight) ==
  IF Terminal(z) THEN z[1]
  ELSE WeightedCount(Low(z), weight) + weight[Level(z)] * WeightedCount(High(z), weight)
=============================================================================
