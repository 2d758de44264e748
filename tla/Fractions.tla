----------------------------- MODULE Fractions -----------------------------
(* Exact probabilities, where the code computes in floating point: a pair   *)
(* of a numerator and a denominator without a common divisor; and           *)
(* distributions, sequences of outcomes [p, is] each of which may be carried *)
(* on by a distribution of its own.                                         *)
EXTENDS Naturals, Sequences

Divisor[a, b \in Nat] == IF b = 0 THEN a ELSE Divisor[b, a % b]

Frac(n, d) == LET g == Divisor[n, d] IN <<n \div g, d \div g>>

Nil   == <<0, 1>>
Whole == <<1, 1>>

Plus(p, q)  == LET g == Divisor[p[2], q[2]]
               IN  Frac(p[1] * (q[2] \div g) + q[1] * (p[2] \div g), p[2] * (q[2] \div g))
Times(p, q) == LET a == Frac(p[1], q[2])
                   b == Frac(q[1], p[2])
               IN  <<a[1] * b[1], a[2] * b[2]>>

AtMost(p, q) == LET g == Divisor[p[2], q[2]]
                IN  p[1] * (q[2] \div g) <= q[1] * (p[2] \div g)
Less(p, q)   == ~AtMost(q, p)
Lesser(p, q) == IF AtMost(p, q) THEN p ELSE q
Greater(p, q) == IF AtMost(p, q) THEN q ELSE p
Complement(p) == <<p[2] - p[1], p[2]>>

Surely(x) == <<[p |-> Whole, is |-> x]>>

Weighed(p, dist) ==
  SubSeq([j \in DOMAIN dist |-> [p |-> Times(p, dist[j].p), is |-> dist[j].is]], 1, Len(dist))

Onward(dist, F(_)) ==
  LET upTo[k \in 0..Len(dist)] ==
        IF k = 0 THEN <<>> ELSE upTo[k - 1] \o Weighed(dist[k].p, F(dist[k].is))
  IN  upTo[Len(dist)]

(* Carried on by the members of a sequence, one after the other.            *)
Through(dist, steps, F(_, _)) ==
  LET upTo[k \in 0..Len(steps)] ==
        IF k = 0 THEN dist ELSE Onward(upTo[k - 1], LAMBDA x : F(x, steps[k]))
  IN  upTo[Len(steps)]

Expected(dist, Value(_)) ==
  LET upTo[k \in 0..Len(dist)] ==
        IF k = 0 THEN Nil ELSE Plus(upTo[k - 1], Times(dist[k].p, Value(dist[k].is)))
  IN  upTo[Len(dist)]
=============================================================================
