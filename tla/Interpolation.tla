--------------------------- MODULE Interpolation ---------------------------
(***************************************************************************)
(* autoware_interpolation: the validation of keys, linear interpolation    *)
(* and the cubic splines, over exact fractions <<numerator, denominator>>. *)
(* A key is a whole number of half millimetres, so that the tolerance of   *)
(* validateKeys is two units.  An invalid argument ends the program        *)
(* (std::exit); an index past the end throws from vector::at.              *)
(***************************************************************************)
EXTENDS Integers, Sequences, FiniteSets

Abs(x) == IF x < 0 THEN -x ELSE x

\* Euclid's algorithm: Gcd[b][a] divides a and b.
Gcd[b \in Nat] == [a \in Nat |-> IF b = 0 THEN a ELSE Gcd[a % b][b]]

\* The fraction p / q in lowest terms, with a positive denominator.
Frac(p, q) ==
  LET g == Gcd[Abs(q)][Abs(p)]
      s == IF q < 0 THEN -1 ELSE 1
  IN  <<s * (p \div g), s * (q \div g)>>

Int2Frac(n) == <<n, 1>>

Plus(p, q) == Frac(p[1] * q[2] + q[1] * p[2], p[2] * q[2])

Less(p, q) == Frac(p[1] * q[2] - q[1] * p[2], p[2] * q[2])

Times(p, q) == Frac(p[1] * q[1], p[2] * q[2])

Over(p, q) == Frac(p[1] * q[2], p[2] * q[1])

Scale(n, p) == Frac(n * p[1], p[2])

AbsF(p) == <<Abs(p[1]), p[2]>>

-----------------------------------------------------------------------------

kKeyTolerance == 2

IsIncreasing(x) == \A i \in 1 .. Len(x) - 1 : x[i] < x[i + 1]

IsNotDecreasing(x) == \A i \in 1 .. Len(x) - 1 : x[i] <= x[i + 1]

\* validateKeys: whether the arguments are accepted ...
KeysAccepted(base, query) ==
  /\ Len(base) >= 2 /\ Len(query) >= 1
  /\ IsIncreasing(base) /\ IsNotDecreasing(query)
  /\ query[1] >= base[1] - kKeyTolerance
  /\ query[Len(query)] <= base[Len(base)] + kKeyTolerance

\* ... and the query keys it returns: the first and the last one are cropped,
\* in this order, which matters when they are one key.
Cropped(base, query) ==
  LET n == Len(query)
      front == [query EXCEPT ![1] = IF @ < base[1] THEN base[1] ELSE @]
  IN  [front EXCEPT ![n] = IF @ > base[Len(base)] THEN base[Len(base)] ELSE @]

\* validateKeysAndValues.
ValuesAccepted(base, values) ==
  /\ Len(base) >= 2 /\ Len(values) >= 2
  /\ Len(base) = Len(values)

\* Mutant: the walk also leaves a segment that ends at the key.
LerpIndexPast(base, key) == Cardinality({i \in 2 .. Len(base) : base[i] <= key}) + 1

\* The segment the walk of lerp stops at: the first whose end is not below the
\* key.  Len(base) stands for a walk past the last segment.
LerpIndex(base, key) == Cardinality({i \in 2 .. Len(base) : base[i] < key}) + 1

\* lerp over vectors: "exit", "throw" or the values.
Lerp(base, values, query) ==
  LET keys == Cropped(base, query)
  IN  IF ~KeysAccepted(base, query) \/ ~ValuesAccepted(base, values)
      THEN [end |-> "exit", values |-> <<>>]
      ELSE IF \E i \in DOMAIN keys : LerpIndex(base, keys[i]) >= Len(base)
      THEN [end |-> "throw", values |-> <<>>]
      ELSE [end |-> "return",
            values |-> [i \in DOMAIN keys |->
              LET j == LerpIndex(base, keys[i])
              IN  Plus(Int2Frac(values[j]),
                       Frac((values[j + 1] - values[j]) * (keys[i] - base[j]),
                            base[j + 1] - base[j]))]]

\* solve_tridiagonal_matrix_algorithm: forward sweep, then back substitution.
SolveTridiagonal(a, b, c, d) ==
  LET n == Len(d)
      sweep[i \in 1 .. n] ==
        IF i = 1
        THEN [c |-> IF n = 1 THEN Int2Frac(0) ELSE Over(c[1], b[1]), d |-> Over(d[1], b[1])]
        ELSE LET m == Less(b[i], Times(a[i - 1], sweep[i - 1].c))
             IN  [c |-> IF i < n THEN Over(c[i], m) ELSE Int2Frac(0),
                  d |-> Over(Less(d[i], Times(a[i - 1], sweep[i - 1].d)), m)]
      x[i \in 1 .. n] ==
        IF i = n THEN sweep[n].d ELSE Less(sweep[i].d, Times(sweep[i].c, x[i + 1]))
  IN  x

\* Mutant: the two curvatures of the slope term are exchanged.
SplineCoefficientsSwapped(x, y) ==
  LET n == Len(x)
      h == [i \in 1 .. n - 1 |-> x[i + 1] - x[i]]
      slope == [i \in 1 .. n - 1 |-> Frac(y[i + 1] - y[i], h[i])]
      inner == SolveTridiagonal(
                 [i \in 1 .. n - 3 |-> Int2Frac(h[i + 1])],
                 [i \in 1 .. n - 2 |-> Int2Frac(2 * (h[i] + h[i + 1]))],
                 [i \in 1 .. n - 3 |-> Int2Frac(h[i + 1])],
                 [i \in 1 .. n - 2 |-> Scale(6, Less(slope[i + 1], slope[i]))])
      v == [i \in 1 .. n |-> IF i \in {1, n} THEN Int2Frac(0) ELSE inner[i - 1]]
  IN  [i \in 1 .. n - 1 |->
         [a |-> Over(Less(v[i + 1], v[i]), Int2Frac(6 * h[i])),
          b |-> Over(v[i], Int2Frac(2)),
          c |-> Less(slope[i], Over(Scale(h[i], Plus(v[i], Scale(2, v[i + 1]))), Int2Frac(6))),
          d |-> Int2Frac(y[i])]]

\* calcSplineCoefficients: the cubic of every segment.
SplineCoefficients(x, y) ==
  LET n == Len(x)
      h == [i \in 1 .. n - 1 |-> x[i + 1] - x[i]]
      slope == [i \in 1 .. n - 1 |-> Frac(y[i + 1] - y[i], h[i])]
      inner == SolveTridiagonal(
                 [i \in 1 .. n - 3 |-> Int2Frac(h[i + 1])],
                 [i \in 1 .. n - 2 |-> Int2Frac(2 * (h[i] + h[i + 1]))],
                 [i \in 1 .. n - 3 |-> Int2Frac(h[i + 1])],
                 [i \in 1 .. n - 2 |-> Scale(6, Less(slope[i + 1], slope[i]))])
      v == [i \in 1 .. n |-> IF i \in {1, n} THEN Int2Frac(0) ELSE inner[i - 1]]
  IN  IF n = 2
      THEN <<[a |-> Int2Frac(0), b |-> Int2Frac(0), c |-> slope[1], d |-> Int2Frac(y[1])]>>
      ELSE [i \in 1 .. n - 1 |->
              [a |-> Over(Less(v[i + 1], v[i]), Int2Frac(6 * h[i])),
               b |-> Over(v[i], Int2Frac(2)),
               c |-> Less(slope[i],
                          Over(Scale(h[i], Plus(Scale(2, v[i]), v[i + 1])), Int2Frac(6))),
               d |-> Int2Frac(y[i])]]

\* splineByAkima: the slopes at the knots, and the cubic of every segment.
AkimaCoefficients(x, y) ==
  LET n == Len(x)
      h == [i \in 1 .. n - 1 |-> x[i + 1] - x[i]]
      m == [i \in 1 .. n - 1 |-> Frac(y[i + 1] - y[i], h[i])]
      s == [i \in 1 .. n |->
              IF i = 1 THEN m[1]
              ELSE IF i = n THEN m[n - 1]
              ELSE LET mean == Over(Plus(m[i - 1], m[i]), Int2Frac(2))
                   IN  IF i \in {2, n - 1} THEN mean
                       ELSE LET after  == AbsF(Less(m[i + 1], m[i]))
                                before == AbsF(Less(m[i - 1], m[i - 2]))
                            IN  IF Plus(after, before)[1] = 0 THEN mean
                                ELSE Over(Plus(Times(after, m[i - 1]), Times(before, m[i])),
                                          Plus(after, before))]
  IN  [i \in 1 .. n - 1 |->
         [a |-> Over(Less(Plus(s[i], s[i + 1]), Scale(2, m[i])), Int2Frac(h[i] * h[i])),
          b |-> Over(Less(Scale(3, m[i]), Plus(Scale(2, s[i]), s[i + 1])), Int2Frac(h[i])),
          c |-> s[i],
          d |-> Int2Frac(y[i])]]

\* get_index: lower_bound, one before it, clamped to the segments.
SplineIndex(x, key) ==
  LET below == Cardinality({i \in DOMAIN x : x[i] < key})
  IN  IF below < 1 THEN 1 ELSE IF below > Len(x) - 1 THEN Len(x) - 1 ELSE below

\* The value of a cubic and its first two derivatives, dx past its knot.
CubicAt(k, dx) ==
  Plus(k.d, Scale(dx, Plus(k.c, Scale(dx, Plus(k.b, Scale(dx, k.a))))))

CubicDiff(k, dx) == Plus(k.c, Scale(dx, Plus(Scale(2, k.b), Scale(3 * dx, k.a))))

CubicQuadDiff(k, dx) == Plus(Scale(2, k.b), Scale(6 * dx, k.a))

\* getSplineInterpolatedValues: the keys are validated but not cropped.
SplineValues(x, y, query) ==
  LET k == SplineCoefficients(x, y)
  IN  IF ~ValuesAccepted(x, y) \/ ~KeysAccepted(x, query)
      THEN [end |-> "exit", values |-> <<>>]
      ELSE [end |-> "return",
            values |-> [i \in DOMAIN query |->
              LET j == SplineIndex(x, query[i]) IN CubicAt(k[j], query[i] - x[j])]]

-----------------------------------------------------------------------------

\* lerp: every query that is inside the range once cropped is answered between
\* the values of its segment, a knot with its own value.  Only two queries past
\* the end make it throw: the second last one is inside the tolerance too, but
\* validateKeys crops the last one alone.
LerpInside(base, values, query, out) ==
  LET n    == Len(query)
      last == base[Len(base)]
      key  == IF n = 0 THEN <<>> ELSE Cropped(base, query)
  IN  /\ out.end = "throw" <=>
           /\ KeysAccepted(base, query) /\ ValuesAccepted(base, values)
           /\ n > 1 /\ query[n - 1] > last
      /\ out.end = "return" =>
           \A i \in DOMAIN query :
             key[i] \in base[1] .. last =>
               /\ \A j \in DOMAIN base :
                    key[i] = base[j] => out.values[i] = Int2Frac(values[j])
               /\ \E j \in 1 .. Len(base) - 1 : \E lo, hi \in {values[j], values[j + 1]} :
                    /\ key[i] \in base[j] .. base[j + 1]
                    /\ lo * out.values[i][2] <= out.values[i][1]
                    /\ out.values[i][1] <= hi * out.values[i][2]

\* The cubics of both interpolators pass through the knots and meet with one
\* slope; the spline's also meet with one curvature and end without any, so
\* that it is the natural spline of the knots.  Asked at the knots, the spline
\* answers with the values it was given.
SplineIsSmooth(x, spline, akima, y) ==
  LET n == Len(x)
      h == [i \in 1 .. n - 1 |-> x[i + 1] - x[i]]
  IN  /\ SplineValues(x, y, x) = [end |-> "return", values |-> [i \in 1 .. n |-> Int2Frac(y[i])]]
      /\ \A k \in {spline, akima} :
           /\ \A i \in 1 .. n - 1 : k[i].d = Int2Frac(y[i]) /\ CubicAt(k[i], h[i]) = Int2Frac(y[i + 1])
           /\ \A i \in 1 .. n - 2 : CubicDiff(k[i], h[i]) = CubicDiff(k[i + 1], 0)
      /\ \A i \in 1 .. n - 2 : CubicQuadDiff(spline[i], h[i]) = CubicQuadDiff(spline[i + 1], 0)
      /\ CubicQuadDiff(spline[1], 0) = Int2Frac(0)
      /\ CubicQuadDiff(spline[n - 1], h[n - 1]) = Int2Frac(0)
=============================================================================
