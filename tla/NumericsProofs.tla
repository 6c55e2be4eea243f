--------------------------- MODULE NumericsProofs ---------------------------
(***************************************************************************)
(* What the numerical routines of Numerics promise of every argument the   *)
(* assumptions admit: sequences of any length, any integers.               *)
(*                                                                         *)
(* The routines recur over their data.  An induction theorem whose         *)
(* parameter is an operator cannot be instantiated by the provers, so      *)
(* induction and recursion are stated here over sets (Induction,           *)
(* InductionTo, Recursion): a proof about a recursive function first       *)
(* exhibits a function that satisfies its equation, which makes the        *)
(* defined one satisfy it, and then goes by InductionTo over the set of    *)
(* the indices at which the claim holds.                                   *)
(***************************************************************************)
EXTENDS Numerics, FiniteSetTheorems, WellFoundedInduction, TLAPS

-----------------------------------------------------------------------------
(* Induction and recursion, stated over sets: the provers cannot           *)
(* instantiate a theorem whose parameter is an operator, a set they can.   *)

\* A set of natural numbers has a least one.
LEMMA LeastNat ==
  ASSUME NEW T, T \subseteq Nat, T # {}
  PROVE  \E x \in T : \A y \in T : x <= y
<1>1. \E x \in T : \A y \in T : ~(<<y, x>> \in OpToRel(<, Nat))
  BY NatLessThanWellFounded, WFMin
<1>2. PICK x \in T : \A y \in T : ~(<<y, x>> \in OpToRel(<, Nat))
  BY <1>1
<1>3. \A y \in T : ~(y < x)
  BY <1>2 DEF OpToRel
<1> QED BY <1>3

\* Induction over the natural numbers.
LEMMA Induction ==
  ASSUME NEW S, 0 \in S, \A k \in Nat : k \in S => k + 1 \in S
  PROVE  \A k \in Nat : k \in S
<1> DEFINE T == {k \in Nat : k \notin S}
<1>1. SUFFICES ASSUME T # {} PROVE FALSE
  OBVIOUS
<1>2. PICK x \in T : \A y \in T : x <= y
  BY <1>1, LeastNat
<1>3. x # 0 /\ x - 1 \in Nat
  BY <1>2
<1>4. x - 1 \in S
  BY <1>2, <1>3
<1>5. (x - 1) + 1 \in S
  BY <1>3, <1>4
<1> QED BY <1>2, <1>5

\* Induction up to a bound.
LEMMA InductionTo ==
  ASSUME NEW n \in Nat, NEW S, 0 \in S, \A k \in 0 .. n - 1 : k \in S => k + 1 \in S
  PROVE  \A k \in 0 .. n : k \in S
<1> DEFINE T == {k \in Nat : k > n \/ k \in S}
<1>1. 0 \in T /\ \A k \in Nat : k \in T => k + 1 \in T
  OBVIOUS
<1> HIDE DEF T
<1>2. \A k \in Nat : k \in T
  BY <1>1, Induction
<1> QED BY <1>2 DEF T

\* Strong induction.
LEMMA FullInduction ==
  ASSUME NEW S, \A k \in Nat : (\A j \in 0 .. k - 1 : j \in S) => k \in S
  PROVE  \A k \in Nat : k \in S
<1> DEFINE T == {k \in Nat : k \notin S}
<1>1. SUFFICES ASSUME T # {} PROVE FALSE
  OBVIOUS
<1>2. PICK x \in T : \A y \in T : x <= y
  BY <1>1, LeastNat
<1>3. \A j \in 0 .. x - 1 : j \in S
  BY <1>2
<1> QED BY <1>2, <1>3

\* f goes from b on by the steps.
Iterates(f, n, b, step) == f = [k \in 0 .. n |-> IF k = 0 THEN b ELSE step[k][f[k - 1]]]

\* A recursion over 0 .. n has a solution.
LEMMA Recursion ==
  ASSUME NEW n \in Nat, NEW A, NEW b \in A, NEW step \in [1 .. n -> [A -> A]]
  PROVE  \E f \in [0 .. n -> A] : Iterates(f, n, b, step)
<1> DEFINE Sol(m, f) == /\ f \in [0 .. m -> A] /\ f[0] = b
                        /\ \A k \in 1 .. m : f[k] = step[k][f[k - 1]]
           S == {m \in Nat : m <= n => \E f : Sol(m, f)}
<1>1. 0 \in S
  <2>1. Sol(0, [k \in 0 .. 0 |-> b])
    OBVIOUS
  <2> QED BY <2>1
<1>2. ASSUME NEW m \in Nat, m \in S PROVE m + 1 \in S
  <2>1. SUFFICES ASSUME m + 1 <= n PROVE \E f : Sol(m + 1, f)
    OBVIOUS
  <2>2. PICK f : Sol(m, f)
    BY <1>2, <2>1
  <2> DEFINE g == [k \in 0 .. m + 1 |-> IF k = m + 1 THEN step[m + 1][f[m]] ELSE f[k]]
  <2>3. step[m + 1] \in [A -> A] /\ f[m] \in A
    BY <2>1, <2>2
  <2>4. g \in [0 .. m + 1 -> A]
    BY <2>2, <2>3
  <2>5. g[0] = b /\ g[m + 1] = step[m + 1][g[m]]
    BY <2>2
  <2>6. ASSUME NEW k \in 1 .. m PROVE g[k] = step[k][g[k - 1]]
    BY <2>2
  <2>7. ASSUME NEW k \in 1 .. m + 1 PROVE g[k] = step[k][g[k - 1]]
    <3>1. CASE k \in 1 .. m
      BY <2>6, <3>1
    <3>2. CASE k = m + 1
      <4>1. k - 1 = m
        BY <3>2
      <4> QED BY <2>5, <3>2, <4>1
    <3> QED BY <3>1, <3>2
  <2>8. Sol(m + 1, g)
    BY <2>4, <2>5, <2>7
  <2> QED BY <2>8
<1>3. \A m \in Nat : m \in S
  <2> HIDE DEF S
  <2> QED BY <1>1, <1>2, Induction
<1>4. PICK f : Sol(n, f)
  BY <1>3
<1>5. f = [k \in 0 .. n |-> IF k = 0 THEN b ELSE step[k][f[k - 1]]]
  BY <1>4
<1> QED BY <1>4, <1>5, Zenon DEF Iterates

-----------------------------------------------------------------------------
(* Fractions.                                                              *)

\* Euclid's recursion up to m.
Euclid(m, g) ==
  /\ g \in [0 .. m -> [Nat -> Nat]]
  /\ \A b \in 0 .. m : g[b] = [a \in Nat |-> IF b = 0 THEN a ELSE g[a % b][b]]

\* What % leaves lies below the divisor.
LEMMA ModRange ==
  ASSUME NEW a \in Nat, NEW b \in Nat, b # 0
  PROVE  a % b \in 0 .. b - 1 /\ a % b \in Nat
OBVIOUS

\* Division with remainder exists ...
LEMMA EuclidExists ==
  ASSUME NEW m \in Nat
  PROVE  \E g : Euclid(m, g)
<1> DEFINE S == {k \in Nat : \E g : Euclid(k, g)}
<1>1. 0 \in S
  <2> DEFINE g == [b \in 0 .. 0 |-> [a \in Nat |-> a]]
  <2>1. g \in [0 .. 0 -> [Nat -> Nat]]
    OBVIOUS
  <2>2. g[0] = [a \in Nat |-> a]
    OBVIOUS
  <2>3. \A b \in 0 .. 0 : b = 0
    OBVIOUS
  <2> HIDE DEF g
  <2>4. \A b \in 0 .. 0 : g[b] = [a \in Nat |-> IF b = 0 THEN a ELSE g[a % b][b]]
    BY <2>2, <2>3
  <2> QED BY <2>1, <2>4 DEF Euclid
<1>2. ASSUME NEW k \in Nat, k \in S PROVE k + 1 \in S
  <2>1. PICK g : Euclid(k, g)
    BY <1>2
  <2> DEFINE top == [a \in Nat |-> g[a % (k + 1)][k + 1]]
             h == [b \in 0 .. k + 1 |-> IF b = k + 1 THEN top ELSE g[b]]
  <2>2. \A a \in Nat : a % (k + 1) \in 0 .. k
    BY ModRange
  <2>3. top \in [Nat -> Nat]
    BY <2>1, <2>2 DEF Euclid
  <2>4. h \in [0 .. k + 1 -> [Nat -> Nat]]
    <3>1. PICK F : F = [Nat -> Nat]
      OBVIOUS
    <3>2. g \in [0 .. k -> F] /\ top \in F
      BY <2>1, <2>3, <3>1 DEF Euclid
    <3> HIDE DEF top
    <3>3. h \in [0 .. k + 1 -> F]
      BY <3>2
    <3> QED BY <3>1, <3>3
  <2>5. h[k + 1] = top /\ \A b \in 0 .. k : h[b] = g[b]
    OBVIOUS
  <2>6. top = [a \in Nat |-> IF k + 1 = 0 THEN a ELSE h[a % (k + 1)][k + 1]]
    <3>1. ASSUME NEW a \in Nat PROVE top[a] = h[a % (k + 1)][k + 1]
      BY <2>2, <2>5
    <3> HIDE DEF h
    <3> QED BY <3>1
  <2> HIDE DEF h, top
  <2>7. ASSUME NEW b \in 0 .. k + 1
        PROVE  h[b] = [a \in Nat |-> IF b = 0 THEN a ELSE h[a % b][b]]
    <3>1. CASE b = k + 1
      BY <2>5, <2>6, <3>1
    <3>2. CASE b \in 0 .. k
      <4>1. h[b] = [a \in Nat |-> IF b = 0 THEN a ELSE g[a % b][b]]
        BY <2>1, <2>5, <3>2 DEF Euclid
      <4>2. ASSUME NEW a \in Nat, b # 0 PROVE g[a % b] = h[a % b]
        <5>1. a % b \in 0 .. b - 1
          BY <3>2, <4>2, ModRange
        <5>2. a % b \in 0 .. k
          BY <3>2, <5>1
        <5> QED BY <2>5, <5>2
      <4> QED BY <4>1, <4>2
    <3> QED BY <3>1, <3>2
  <2>8. Euclid(k + 1, h)
    BY <2>4, <2>7 DEF Euclid
  <2> QED BY <2>8
<1> HIDE DEF S
<1>3. m \in S
  BY <1>1, <1>2, Induction
<1> QED BY <1>3 DEF S

\* ... and in one way only.
LEMMA EuclidUnique ==
  ASSUME NEW m \in Nat, NEW n \in Nat, NEW g, NEW h, Euclid(m, g), Euclid(n, h)
  PROVE  \A b \in 0 .. m : b \in 0 .. n => g[b] = h[b]
<1> DEFINE S == {b \in Nat : b \in 0 .. m /\ b \in 0 .. n => g[b] = h[b]}
<1>1. ASSUME NEW b \in Nat, \A j \in 0 .. b - 1 : j \in S PROVE b \in S
  <2>1. SUFFICES ASSUME b \in 0 .. m, b \in 0 .. n PROVE g[b] = h[b]
    OBVIOUS
  <2>2. ASSUME NEW a \in Nat, b # 0 PROVE g[a % b] = h[a % b]
    <3>1. a % b \in 0 .. b - 1
      BY <2>2, ModRange
    <3>2. a % b \in 0 .. m /\ a % b \in 0 .. n
      BY <2>1, <3>1
    <3> QED BY <1>1, <3>1, <3>2
  <2>3. /\ g[b] = [a \in Nat |-> IF b = 0 THEN a ELSE g[a % b][b]]
        /\ h[b] = [a \in Nat |-> IF b = 0 THEN a ELSE h[a % b][b]]
    BY <2>1 DEF Euclid
  <2> QED BY <2>2, <2>3
<1> HIDE DEF S
<1>2. \A b \in Nat : b \in S
  BY <1>1, FullInduction
<1> QED BY <1>2 DEF S

\* The step of Euclid's algorithm keeps the common divisors.
LEMMA GcdStep ==
  ASSUME NEW a \in Nat, NEW b \in Nat
  PROVE  Gcd[b][a] = (IF b = 0 THEN a ELSE Gcd[a % b][b])
<1> DEFINE sol == [m \in Nat |-> CHOOSE g : Euclid(m, g)]
           G == [m \in Nat |-> sol[m][m]]
<1>1. \A m \in Nat : Euclid(m, sol[m])
  BY EuclidExists
<1> HIDE DEF sol
<1>2. ASSUME NEW m \in Nat PROVE G[m] = [x \in Nat |-> IF m = 0 THEN x ELSE G[x % m][m]]
  <2>1. G[m] = [x \in Nat |-> IF m = 0 THEN x ELSE sol[m][x % m][m]]
    <3>1. Euclid(m, sol[m]) /\ m \in 0 .. m /\ G[m] = sol[m][m]
      BY <1>1
    <3> QED BY <3>1, Zenon DEF Euclid
  <2>2. ASSUME NEW x \in Nat, m # 0 PROVE sol[m][x % m] = G[x % m]
    <3>1. PICK r \in Nat : r = x % m /\ r \in 0 .. m - 1
      BY <2>2, ModRange
    <3>2. sol[m][r] = sol[r][r]
      BY <1>1, <3>1, EuclidUnique
    <3> QED BY <3>1, <3>2
  <2> QED BY <2>1, <2>2
<1>3. G = [m \in Nat |-> [x \in Nat |-> IF m = 0 THEN x ELSE G[x % m][m]]]
  <2>1. G = [m \in Nat |-> G[m]]
    OBVIOUS
  <2> HIDE DEF G
  <2> QED BY <1>2, <2>1
<1> HIDE DEF G
<1>4. Gcd = [m \in Nat |-> [x \in Nat |-> IF m = 0 THEN x ELSE Gcd[x % m][m]]]
  BY <1>3, Zenon DEF Gcd
<1> QED BY <1>4

\* g divides a and b.
DividesBoth(g, a, b) ==
  g \in Nat \ {0} /\ (\E x \in Nat : a = g * x) /\ (\E y \in Nat : b = g * y)

\* What divides two numbers divides their sum.
LEMMA DividesSum ==
  ASSUME NEW n \in Nat, NEW m \in Nat, NEW r \in Nat, NEW q \in Nat, n = q * m + r,
         NEW g, DividesBoth(g, m, r)
  PROVE  DividesBoth(g, n, m)
<1>1. g \in Nat \ {0}
  BY DEF DividesBoth
<1>2. PICK x \in Nat : m = g * x
  BY DEF DividesBoth
<1>3. PICK y \in Nat : r = g * y
  BY DEF DividesBoth
<1>4. PICK u \in Nat : u = q * x
  OBVIOUS
<1>5. q * m = g * u
  BY <1>1, <1>2, <1>4
<1>6. n = g * u + g * y
  BY <1>3, <1>5
<1>7. g * (u + y) = g * u + g * y
  BY <1>1
<1>8. n = g * (u + y) /\ u + y \in Nat
  <2>1. u + y \in Nat
    OBVIOUS
  <2> QED BY <1>6, <1>7, <2>1, Zenon
<1> QED BY <1>1, <1>2, <1>8 DEF DividesBoth

\* Euclid's algorithm returns a common divisor.
LEMMA GcdDivides ==
  ASSUME NEW a \in Nat, NEW b \in Nat, a + b > 0
  PROVE  DividesBoth(Gcd[b][a], a, b)
<1> DEFINE S == {m \in Nat : \A n \in Nat : n + m > 0 => DividesBoth(Gcd[m][n], n, m)}
<1>1. ASSUME NEW m \in Nat, \A j \in 0 .. m - 1 : j \in S PROVE m \in S
  <2>1. SUFFICES ASSUME NEW n \in Nat, n + m > 0 PROVE DividesBoth(Gcd[m][n], n, m)
    OBVIOUS
  <2>2. CASE m = 0
    <3>1. Gcd[m][n] = n
      BY <2>2, GcdStep
    <3>2. n \in Nat \ {0} /\ n = n * 1 /\ m = n * 0
      BY <2>1, <2>2
    <3>3. DividesBoth(n, n, m)
      BY <3>2 DEF DividesBoth
    <3> QED BY <3>1, <3>3
  <2>3. CASE m # 0
    <3>1. n % m \in 0 .. m - 1 /\ n \div m \in Nat /\ n = ((n \div m) * m) + (n % m)
      BY <2>3
    <3>2. PICK r \in 0 .. m - 1, q \in Nat : r = n % m /\ n = q * m + r
      BY <3>1
    <3>3. Gcd[m][n] = Gcd[r][m]
      BY <2>3, <3>2, GcdStep
    <3>4. DividesBoth(Gcd[r][m], m, r)
      BY <1>1, <2>3, <3>2
    <3>5. DividesBoth(Gcd[r][m], n, m)
      BY <3>2, <3>4, DividesSum
    <3> QED BY <3>3, <3>5
  <2> QED BY <2>2, <2>3
<1> HIDE DEF S
<1>2. b \in S
  BY <1>1, FullInduction
<1> QED BY <1>2 DEF S

\* Division by a divisor gives the quotient back.
LEMMA ExactDiv ==
  ASSUME NEW g \in Nat \ {0}, NEW x \in Int
  PROVE  (g * x) \div g = x
OBVIOUS

\* What a fraction in lowest terms is.
LEMMA FracIs ==
  ASSUME NEW p \in Int, NEW q \in Int, q # 0
  PROVE  \E n \in Int, d \in Nat \ {0}, k \in Int :
           Frac(p, q) = <<n, d>> /\ p = k * n /\ q = k * d /\ k # 0 /\ (k > 0 <=> q > 0)
<1>1. PICK a \in Nat, b \in Nat : a = Abs(p) /\ b = Abs(q) /\ b > 0
  BY DEF Abs
<1>2. PICK x \in Nat, y \in Nat, g \in Nat \ {0} : g = Gcd[b][a] /\ a = g * x /\ b = g * y
  <2>1. DividesBoth(Gcd[b][a], a, b)
    BY <1>1, GcdDivides
  <2> QED BY <2>1 DEF DividesBoth
<1>3. PICK u \in Int : p = g * u
  <2>1. g * (-x) = -(g * x)
    OBVIOUS
  <2>2. p = a \/ p = -a
    BY <1>1 DEF Abs
  <2>3. p = g * x \/ p = g * (-x)
    BY <1>2, <2>1, <2>2, Zenon
  <2>4. x \in Int /\ -x \in Int
    OBVIOUS
  <2> QED BY <2>3, <2>4, Zenon
<1>4. PICK v \in Int : q = g * v /\ (v = y \/ v = -y) /\ (v > 0 <=> q > 0)
  <2>1. g * (-y) = -(g * y)
    OBVIOUS
  <2>2. (q > 0 /\ q = b) \/ (q < 0 /\ q = -b)
    BY <1>1 DEF Abs
  <2>3. y > 0
    <3>1. y # 0
      BY <1>1, <1>2
    <3> QED BY <3>1
  <2>4. y \in Int /\ -y \in Int /\ ~(-y > 0)
    BY <2>3
  <2>5. q < 0 => ~(q > 0)
    OBVIOUS
  <2>6. CASE q > 0 /\ q = b
    BY <1>2, <2>3, <2>4, <2>6, Zenon
  <2>7. CASE q < 0 /\ q = -b
    BY <1>2, <2>1, <2>4, <2>5, <2>7, Zenon
  <2> QED BY <2>2, <2>6, <2>7, Zenon
<1>5. y > 0
  <2>1. y # 0
    BY <1>1, <1>2
  <2> QED BY <2>1
<1>6. p \div g = u /\ q \div g = v
  BY <1>3, <1>4, ExactDiv
<1>7. Frac(p, q) = <<(IF q < 0 THEN -1 ELSE 1) * u, (IF q < 0 THEN -1 ELSE 1) * v>>
  BY <1>1, <1>2, <1>6 DEF Frac
<1>8. CASE q > 0
  <2>1. Frac(p, q) = <<u, y>>
    BY <1>4, <1>5, <1>7, <1>8
  <2>2. q = g * y
    BY <1>4, <1>5, <1>8
  <2> QED BY <1>3, <1>5, <1>8, <2>1, <2>2
<1>9. CASE q < 0
  <2>1. Frac(p, q) = <<-u, y>>
    BY <1>4, <1>5, <1>7, <1>9
  <2>2. PICK k \in Int : k = -g
    OBVIOUS
  <2>3. k * (-u) = g * u /\ k * y = g * (-y) /\ v = -y
    BY <1>4, <1>5, <1>9, <2>2
  <2>4. p = k * (-u) /\ q = k * y
    BY <1>3, <1>4, <2>3
  <2> QED BY <1>5, <1>9, <2>1, <2>2, <2>4
<1> QED BY <1>8, <1>9

\* A positive factor cancels in a comparison.
LEMMA Cancel ==
  ASSUME NEW k \in Nat \ {0}, NEW a \in Int, NEW b \in Int, k * a <= k * b
  PROVE  a <= b
<1>1. SUFFICES ASSUME b < a PROVE FALSE
  OBVIOUS
<1>2. PICK c \in Nat \ {0} : a = b + c
  BY <1>1
<1>3. k * a = k * b + k * c
  BY <1>2
<1>4. k * c > 0
  OBVIOUS
<1>5. k * a \in Int /\ k * b \in Int /\ k * c \in Int
  OBVIOUS
<1> QED BY <1>3, <1>4, <1>5

\* A factor that is not negative keeps an order.
LEMMA TimesMonotone ==
  ASSUME NEW k \in Nat, NEW a \in Int, NEW b \in Int, a <= b
  PROVE  k * a <= k * b
<1>1. PICK c \in Nat : b = a + c
  OBVIOUS
<1>2. k * b = k * a + k * c
  BY <1>1
<1>3. k * c \in Nat /\ k * a \in Int
  OBVIOUS
<1> QED BY <1>2, <1>3

\* A whole number stays one.
LEMMA FracWhole ==
  ASSUME NEW c \in Int, NEW q \in Nat \ {0}
  PROVE  Frac(c * q, q) = <<c, 1>>
<1>1. PICK a \in Nat : a = Abs(c) /\ a * q = Abs(c * q) /\ a * q \in Nat
  <2>1. CASE c >= 0
    <3>1. c * q >= 0
      BY <2>1
    <3> QED BY <2>1, <3>1 DEF Abs
  <2>2. CASE c < 0
    <3>1. c * q < 0 /\ (-c) * q = -(c * q)
      BY <2>2
    <3> QED BY <2>2, <3>1 DEF Abs
  <2> QED BY <2>1, <2>2
<1>2. PICK p \in Nat : p = a * q
  BY <1>1
<1>3. p % q = 0
  BY <1>2
<1>4. Gcd[q][p] = q
  <2>1. Gcd[q][p] = Gcd[0][q]
    BY <1>3, GcdStep
  <2>2. Gcd[0][q] = q
    BY GcdStep
  <2> QED BY <2>1, <2>2
<1>5. Abs(q) = q
  BY DEF Abs
<1>6. (c * q) \div q = c /\ q \div q = 1
  <2>1. q * c = c * q /\ q * 1 = q
    OBVIOUS
  <2> QED BY <2>1, ExactDiv
<1>7. Gcd[Abs(q)][Abs(c * q)] = q
  BY <1>1, <1>2, <1>4, <1>5
<1> QED BY <1>6, <1>7 DEF Frac

-----------------------------------------------------------------------------
(* Sequences of keys.                                                      *)

\* Increasing from one to the next is increasing from any to any later.
LEMMA IncreasesLater ==
  ASSUME NEW s \in Seq(Int), IsIncreasing(s)
  PROVE  \A i, j \in 1 .. Len(s) : i < j => s[i] < s[j]
<1> DEFINE S == {j \in Nat : \A i \in 1 .. Len(s) : i < j /\ j <= Len(s) => s[i] < s[j]}
<1>1. 0 \in S
  OBVIOUS
<1>2. ASSUME NEW k \in Nat, k \in S PROVE k + 1 \in S
  <2>1. SUFFICES ASSUME NEW i \in 1 .. Len(s), i < k + 1, k + 1 <= Len(s) PROVE s[i] < s[k + 1]
    OBVIOUS
  <2>2. k \in 1 .. Len(s) - 1 /\ k \in 1 .. Len(s) /\ k + 1 \in 1 .. Len(s)
    BY <2>1
  <2>3. s[k] < s[k + 1] /\ s[k] \in Int /\ s[k + 1] \in Int /\ s[i] \in Int
    BY <2>2 DEF IsIncreasing
  <2>4. i = k \/ s[i] < s[k]
    BY <1>2, <2>1, <2>2
  <2> QED BY <2>3, <2>4
<1> HIDE DEF S
<1>3. \A k \in Nat : k \in S
  BY <1>1, <1>2, Induction
<1> QED BY <1>3 DEF S

\* ... and so is not decreasing.
LEMMA DecreasesNever ==
  ASSUME NEW s \in Seq(Int), IsNotDecreasing(s)
  PROVE  \A i, j \in 1 .. Len(s) : i <= j => s[i] <= s[j]
<1> DEFINE S == {j \in Nat : \A i \in 1 .. Len(s) : i <= j /\ j <= Len(s) => s[i] <= s[j]}
<1>1. 0 \in S
  OBVIOUS
<1>2. ASSUME NEW k \in Nat, k \in S PROVE k + 1 \in S
  <2>1. SUFFICES ASSUME NEW i \in 1 .. Len(s), i <= k + 1, k + 1 <= Len(s) PROVE s[i] <= s[k + 1]
    OBVIOUS
  <2>2. CASE i = k + 1
    BY <2>2
  <2>3. CASE i <= k
    <3>1. k \in 1 .. Len(s) - 1 /\ k \in 1 .. Len(s) /\ k + 1 \in 1 .. Len(s)
      BY <2>1, <2>3
    <3>2. s[k] <= s[k + 1] /\ s[k] \in Int /\ s[k + 1] \in Int /\ s[i] \in Int
      BY <3>1 DEF IsNotDecreasing
    <3>3. s[i] <= s[k]
      BY <1>2, <2>3, <3>1
    <3> QED BY <3>2, <3>3
  <2> QED BY <2>1, <2>2, <2>3
<1> HIDE DEF S
<1>3. \A k \in Nat : k \in S
  BY <1>1, <1>2, Induction
<1> QED BY <1>3 DEF S

\* Of increasing numbers, those below a bound are the first ones.
LEMMA BelowIsPrefix ==
  ASSUME NEW s \in Seq(Int), IsIncreasing(s), NEW lo \in 1 .. Len(s) + 1, NEW key \in Int
  PROVE  \E m \in lo - 1 .. Len(s) :
           /\ {i \in lo .. Len(s) : s[i] < key} = lo .. m
           /\ \A i \in lo .. m : s[i] < key
           /\ \A i \in m + 1 .. Len(s) : s[i] >= key
<1> DEFINE T == {i \in lo .. Len(s) + 1 : i = Len(s) + 1 \/ s[i] >= key}
<1>1. T \subseteq Nat /\ T # {}
  OBVIOUS
<1>2. PICK x \in T : \A y \in T : x <= y
  BY <1>1, LeastNat
<1>3. \A i \in lo .. x - 1 : s[i] < key
  BY <1>2
<1>4. \A i \in x .. Len(s) : s[i] >= key
  <2>1. SUFFICES ASSUME NEW i \in x .. Len(s) PROVE s[i] >= key
    OBVIOUS
  <2>2. x <= Len(s) /\ s[x] >= key /\ x \in 1 .. Len(s) /\ i \in 1 .. Len(s)
    BY <1>2, <2>1
  <2>3. i = x \/ s[x] < s[i]
    BY <2>1, <2>2, IncreasesLater
  <2>4. s[x] \in Int /\ s[i] \in Int
    BY <2>2
  <2> QED BY <2>2, <2>3, <2>4
<1>5. x - 1 \in lo - 1 .. Len(s) /\ (x - 1) + 1 = x
  BY <1>2
<1>6. {i \in lo .. Len(s) : s[i] < key} = lo .. x - 1
  <2>1. ASSUME NEW i \in lo .. Len(s), s[i] < key PROVE i \in lo .. x - 1
    <3>1. s[i] \in Int
      BY <2>1
    <3> QED BY <1>2, <1>4, <2>1, <3>1
  <2>2. \A i \in lo .. x - 1 : i \in lo .. Len(s)
    BY <1>2
  <2> QED BY <1>3, <2>1, <2>2
<1> QED BY <1>3, <1>4, <1>5, <1>6

\* The segment of lerp is the one the key is in.
LEMMA LerpIndexIs ==
  ASSUME NEW base \in Seq(Int), IsIncreasing(base), Len(base) >= 2, NEW key \in Int
  PROVE  /\ LerpIndex(base, key) \in 1 .. Len(base)
         /\ LerpIndex(base, key) < Len(base) => key <= base[LerpIndex(base, key) + 1]
         /\ LerpIndex(base, key) > 1 => base[LerpIndex(base, key)] < key
<1>1. PICK m \in 2 - 1 .. Len(base) :
        /\ {i \in 2 .. Len(base) : base[i] < key} = 2 .. m
        /\ \A i \in 2 .. m : base[i] < key
        /\ \A i \in m + 1 .. Len(base) : base[i] >= key
  <2>1. 2 \in 1 .. Len(base) + 1
    OBVIOUS
  <2> QED BY <2>1, BelowIsPrefix
<1>2. m \in 1 .. Len(base)
  BY <1>1
<1>3. Cardinality(2 .. m) = m - 1
  <2>1. Cardinality(2 .. m) = IF 2 > m THEN 0 ELSE m - 2 + 1
    BY <1>2, FS_Interval
  <2> QED BY <1>2, <2>1
<1>4. LerpIndex(base, key) = m
  <2>1. LerpIndex(base, key) = Cardinality(2 .. m) + 1
    BY <1>1, Zenon DEF LerpIndex
  <2> QED BY <1>2, <1>3, <2>1
<1>5. m < Len(base) => base[m + 1] >= key /\ base[m + 1] \in Int
  BY <1>1, <1>2
<1>6. m > 1 => base[m] < key
  BY <1>1, <1>2
<1> QED BY <1>2, <1>4, <1>5, <1>6

-----------------------------------------------------------------------------
(* Linear interpolation.                                                   *)

\* A fraction between two whole numbers.
Inside(p, lo, hi) ==
  /\ p[1] \in Int /\ p[2] \in Nat \ {0}
  /\ lo * p[2] <= p[1] /\ p[1] <= hi * p[2]

\* A fraction whose terms are between the bounds, in lowest terms.
LEMMA FracInside ==
  ASSUME NEW p \in Int, NEW q \in Nat \ {0}, NEW lo \in Int, NEW hi \in Int,
         lo * q <= p, p <= hi * q
  PROVE  Inside(Frac(p, q), lo, hi)
<1>1. PICK n \in Int, d \in Nat \ {0}, k \in Int :
        Frac(p, q) = <<n, d>> /\ p = k * n /\ q = k * d /\ k # 0 /\ (k > 0 <=> q > 0)
  <2>1. q \in Int /\ q # 0
    OBVIOUS
  <2> QED BY <2>1, FracIs, Zenon
<1>2. k \in Nat \ {0}
  BY <1>1
<1>3. lo * q = k * (lo * d) /\ hi * q = k * (hi * d)
  BY <1>1, <1>2
<1>4. lo * d \in Int /\ hi * d \in Int
  OBVIOUS
<1>5. k * (lo * d) <= k * n /\ k * n <= k * (hi * d)
  BY <1>1, <1>3
<1>6. lo * d <= n /\ n <= hi * d
  BY <1>2, <1>4, <1>5, Cancel
<1> QED BY <1>1, <1>6 DEF Inside

\* Adding a whole number to a fraction.
LEMMA PlusWhole ==
  ASSUME NEW v \in Int, NEW c \in Int
  PROVE  Plus(Int2Frac(v), Int2Frac(c)) = Int2Frac(v + c)
<1>1. Plus(Int2Frac(v), Int2Frac(c)) = Frac(v * 1 + c * 1, 1 * 1)
  BY DEF Plus, Int2Frac
<1>2. v * 1 + c * 1 = (v + c) * 1 /\ 1 * 1 = 1
  OBVIOUS
<1>3. Frac((v + c) * 1, 1) = <<v + c, 1>>
  BY FracWhole
<1> QED BY <1>1, <1>2, <1>3 DEF Int2Frac

\* A whole number plus a fraction.
LEMMA PlusInside ==
  ASSUME NEW v \in Int, NEW p, NEW lo \in Int, NEW hi \in Int, Inside(p, lo, hi)
  PROVE  Inside(Plus(Int2Frac(v), p), v + lo, v + hi)
<1>1. PICK n \in Int, d \in Nat \ {0} : n = p[1] /\ d = p[2] /\ lo * d <= n /\ n <= hi * d
  BY DEF Inside
<1>2. Plus(Int2Frac(v), p) = Frac(v * d + n * 1, 1 * d)
  BY <1>1 DEF Plus, Int2Frac
<1>3. v * d + n * 1 = v * d + n /\ 1 * d = d /\ v * d + n \in Int
  OBVIOUS
<1>4. (v + lo) * d <= v * d + n /\ v * d + n <= (v + hi) * d
  <2>1. (v + lo) * d = v * d + lo * d /\ (v + hi) * d = v * d + hi * d
    OBVIOUS
  <2>2. v * d \in Int /\ lo * d \in Int /\ hi * d \in Int
    OBVIOUS
  <2> QED BY <1>1, <2>1, <2>2
<1>5. v + lo \in Int /\ v + hi \in Int
  OBVIOUS
<1>6. Inside(Frac(v * d + n, d), v + lo, v + hi)
  BY <1>3, <1>4, <1>5, FracInside
<1> QED BY <1>2, <1>3, <1>6

\* The value lerp gives at x of q between v and w.
LEMMA LerpValue ==
  ASSUME NEW v \in Int, NEW w \in Int, NEW q \in Nat \ {0}, NEW x \in 0 .. q,
         NEW out, out = Plus(Int2Frac(v), Frac((w - v) * x, q))
  PROVE  /\ x = 0 => out = Int2Frac(v)
         /\ x = q => out = Int2Frac(w)
         /\ v <= w => Inside(out, v, w)
         /\ w <= v => Inside(out, w, v)
<1>1. PICK c \in Int : c = w - v /\ w = v + c
  OBVIOUS
<1>2. CASE x = 0
  <2>1. (w - v) * x = 0 * q
    BY <1>2
  <2>2. Frac((w - v) * x, q) = Int2Frac(0)
    <3>1. 0 \in Int
      OBVIOUS
    <3>2. Frac(0 * q, q) = <<0, 1>>
      BY <3>1, FracWhole, Zenon
    <3> QED BY <2>1, <3>2, Zenon DEF Int2Frac
  <2>3. out = Int2Frac(v)
    <3>1. Plus(Int2Frac(v), Int2Frac(0)) = Int2Frac(v + 0) /\ v + 0 = v
      BY PlusWhole
    <3> QED BY <2>2, <3>1, Zenon
  <2> QED BY <1>2, <2>3 DEF Int2Frac, Inside
<1>3. CASE x = q
  <2>1. Frac((w - v) * x, q) = Int2Frac(c)
    BY <1>1, <1>3, FracWhole DEF Int2Frac
  <2>2. out = Int2Frac(w)
    BY <1>1, <2>1, PlusWhole
  <2> QED BY <1>3, <2>2 DEF Int2Frac, Inside
<1>4. c * x \in Int
  BY <1>1
<1>5. CASE v <= w
  <2>1. 0 * q <= c * x /\ c * x <= c * q
    <3>1. c \in Nat
      BY <1>1, <1>5
    <3>2. c * 0 <= c * x /\ c * x <= c * q
      BY <3>1, TimesMonotone
    <3> QED BY <3>2
  <2>2. Inside(Frac(c * x, q), 0, c)
    <3>1. 0 \in Int
      OBVIOUS
    <3> QED BY <1>1, <1>4, <2>1, <3>1, FracInside, Zenon
  <2>3. Inside(out, v + 0, v + c)
    BY <1>1, <2>2, PlusInside
  <2>4. v + 0 = v
    OBVIOUS
  <2>5. Inside(out, v, w)
    BY <1>1, <2>3, <2>4
  <2>6. w <= v => Inside(out, w, v)
    <3>1. SUFFICES ASSUME w <= v PROVE Inside(out, w, v)
      OBVIOUS
    <3>2. v = w
      BY <1>5, <3>1
    <3> QED BY <2>5, <3>2
  <2> QED BY <1>2, <1>3, <2>5, <2>6
<1>6. CASE w < v
  <2>1. c * q <= c * x /\ c * x <= 0 * q
    <3>1. PICK b \in Nat : b = -c
      BY <1>1, <1>6
    <3>2. b * 0 <= b * x /\ b * x <= b * q
      BY TimesMonotone
    <3>3. c * x = -(b * x) /\ c * q = -(b * q)
      BY <3>1
    <3>4. b * x \in Int /\ b * q \in Int
      OBVIOUS
    <3> QED BY <3>2, <3>3, <3>4
  <2>2. Inside(Frac(c * x, q), c, 0)
    <3>1. 0 \in Int
      OBVIOUS
    <3> QED BY <1>1, <1>4, <2>1, <3>1, FracInside, Zenon
  <2>3. Inside(out, v + c, v + 0)
    BY <1>1, <2>2, PlusInside
  <2>4. v + 0 = v /\ ~(v <= w)
    BY <1>6
  <2>5. Inside(out, w, v)
    BY <1>1, <2>3, <2>4
  <2> QED BY <1>2, <1>3, <2>4, <2>5
<1> QED BY <1>5, <1>6

\* What validateKeys makes of accepted keys.
LEMMA CroppedKeys ==
  ASSUME NEW base \in Seq(Int), NEW query \in Seq(Int), KeysAccepted(base, query)
  PROVE  /\ Cropped(base, query) \in Seq(Int)
         /\ Len(Cropped(base, query)) = Len(query)
         /\ \A i \in 1 .. Len(query) - 1 :
              Cropped(base, query)[i] =
                (IF i = 1 /\ query[1] < base[1] THEN base[1] ELSE query[i])
         /\ Cropped(base, query)[Len(query)] <= base[Len(base)]
<1> DEFINE n == Len(query)
           low == IF query[1] < base[1] THEN base[1] ELSE query[1]
           front == [query EXCEPT ![1] = low]
           top == IF front[n] > base[Len(base)] THEN base[Len(base)] ELSE front[n]
<1>1. n \in Nat \ {0} /\ Len(base) \in Nat /\ Len(base) >= 2
  BY DEF KeysAccepted
<1>2. query[1] \in Int /\ base[1] \in Int /\ base[Len(base)] \in Int
  BY <1>1
<1>3. front \in Seq(Int) /\ Len(front) = n
      /\ \A i \in 1 .. n : front[i] = IF i = 1 THEN low ELSE query[i]
  BY <1>1, <1>2
<1>4. front[n] \in Int
  BY <1>1, <1>3
<1>5. Cropped(base, query) = [front EXCEPT ![n] = top]
  BY Zenon DEF Cropped
<1> HIDE DEF front
<1>6. top \in Int /\ top <= base[Len(base)]
  BY <1>2, <1>4
<1> HIDE DEF top
<1>7. /\ [front EXCEPT ![n] = top] \in Seq(Int) /\ Len([front EXCEPT ![n] = top]) = n
      /\ \A i \in 1 .. n : [front EXCEPT ![n] = top][i] = IF i = n THEN top ELSE front[i]
  BY <1>1, <1>3, <1>6
<1>8. \A i \in 1 .. n - 1 : [front EXCEPT ![n] = top][i] = IF i = 1 THEN low ELSE query[i]
  <2>1. SUFFICES ASSUME NEW i \in 1 .. n - 1
                 PROVE  [front EXCEPT ![n] = top][i] = IF i = 1 THEN low ELSE query[i]
    OBVIOUS
  <2>2. i \in 1 .. n /\ i # n
    BY <1>1
  <2> QED BY <1>3, <1>7, <2>2
<1>9. n \in 1 .. n
  BY <1>1
<1> QED BY <1>5, <1>6, <1>7, <1>8, <1>9

\* The walk of lerp passes the last segment for the keys behind the end.
LEMMA LerpIndexEnd ==
  ASSUME NEW base \in Seq(Int), IsIncreasing(base), Len(base) >= 2, NEW key \in Int
  PROVE  LerpIndex(base, key) >= Len(base) <=> key > base[Len(base)]
<1>1. PICK m \in 1 .. Len(base) :
        /\ m = LerpIndex(base, key)
        /\ m < Len(base) => key <= base[m + 1]
        /\ m > 1 => base[m] < key
  BY LerpIndexIs
<1>2. CASE m = Len(base)
  BY <1>1, <1>2
<1>3. CASE m < Len(base)
  <2>1. m + 1 \in 1 .. Len(base) /\ Len(base) \in 1 .. Len(base)
    BY <1>3
  <2>2. m + 1 = Len(base) \/ base[m + 1] < base[Len(base)]
    BY <2>1, IncreasesLater
  <2>3. base[m + 1] \in Int /\ base[Len(base)] \in Int
    BY <2>1
  <2> QED BY <1>1, <1>3, <2>2, <2>3
<1> QED BY <1>2, <1>3

\* One value of lerp.
LerpAt(base, values, key) ==
  LET j == LerpIndex(base, key)
  IN  Plus(Int2Frac(values[j]),
           Frac((values[j + 1] - values[j]) * (key - base[j]), base[j + 1] - base[j]))

\* A knot is answered with its value, a key between two with one in between.
Answers(base, values, key, out) ==
  /\ \A j \in DOMAIN base : key = base[j] => out = Int2Frac(values[j])
  /\ \E j \in 1 .. Len(base) - 1 : \E lo, hi \in {values[j], values[j + 1]} :
       /\ key \in base[j] .. base[j + 1]
       /\ lo * out[2] <= out[1]
       /\ out[1] <= hi * out[2]

\* linear_interpolation.cpp: a query between two keys is answered between
\* their values.
LEMMA LerpAtInside ==
  ASSUME NEW base \in Seq(Int), NEW values \in Seq(Int), NEW key \in Int,
         IsIncreasing(base), ValuesAccepted(base, values), key \in base[1] .. base[Len(base)],
         NEW out, out = LerpAt(base, values, key)
  PROVE  Answers(base, values, key, out)
<1>1. Len(base) \in Nat /\ Len(base) >= 2 /\ Len(values) = Len(base)
      /\ base[1] \in Int /\ base[Len(base)] \in Int
  BY DEF ValuesAccepted
<1>2. PICK j \in 1 .. Len(base) :
        /\ j = LerpIndex(base, key)
        /\ j < Len(base) => key <= base[j + 1]
        /\ j > 1 => base[j] < key
  BY <1>1, LerpIndexIs
<1>3. j < Len(base)
  <2>1. LerpIndex(base, key) >= Len(base) <=> key > base[Len(base)]
    BY <1>1, LerpIndexEnd, Zenon
  <2> QED BY <1>1, <1>2, <2>1
<1>4. /\ j \in 1 .. Len(base) - 1 /\ j + 1 \in 1 .. Len(base)
      /\ base[j] \in Int /\ base[j + 1] \in Int /\ values[j] \in Int /\ values[j + 1] \in Int
  BY <1>1, <1>2, <1>3, SMTT(60)
<1>5. base[j] <= key /\ key <= base[j + 1] /\ base[j] < base[j + 1]
  <2>1. base[j] < base[j + 1]
    BY <1>4 DEF IsIncreasing
  <2>2. ASSUME j = 1 PROVE base[j] <= key /\ key <= base[j + 1]
    BY <1>2, <1>3, <2>2
  <2>3. ASSUME j > 1 PROVE base[j] <= key /\ key <= base[j + 1]
    BY <1>2, <1>3, <1>4, <2>3, SMTT(60)
  <2>4. j = 1 \/ j > 1
    OBVIOUS
  <2> QED BY <2>1, <2>2, <2>3, <2>4, Zenon
<1>6. PICK v \in Int, w \in Int, q \in Nat \ {0}, x \in Nat :
        /\ x \in 0 .. q /\ v = values[j] /\ w = values[j + 1]
        /\ q = base[j + 1] - base[j] /\ x = key - base[j]
  <2>1. base[j + 1] - base[j] \in Nat \ {0} /\ key - base[j] \in Nat
        /\ key - base[j] \in 0 .. base[j + 1] - base[j]
    <3>1. PICK b \in Int, c \in Int : b = base[j] /\ c = base[j + 1]
      BY <1>4, Zenon
    <3>2. b <= key /\ key <= c /\ b < c
      BY <1>5, <3>1, Zenon
    <3>3. c - b \in Nat \ {0} /\ key - b \in Nat /\ key - b \in 0 .. c - b
      BY <3>2
    <3> QED BY <3>1, <3>3, Zenon
  <2> QED BY <1>4, <2>1, Zenon
<1>7. out = Plus(Int2Frac(v), Frac((w - v) * x, q))
  BY <1>2, <1>6, Zenon DEF LerpAt
<1>8. /\ x = 0 => out = Int2Frac(v)
      /\ x = q => out = Int2Frac(w)
      /\ v <= w => Inside(out, v, w)
      /\ w <= v => Inside(out, w, v)
  <2>1. x \in 0 .. q
    BY <1>6
  <2> HIDE <1>6
  <2> QED BY <1>7, <2>1, LerpValue, Zenon
<1>9. ASSUME NEW m \in DOMAIN base, key = base[m] PROVE out = Int2Frac(values[m])
  <2>1. m \in 1 .. Len(base) /\ base[m] \in Int
    BY <1>9
  <2>2. m < j => base[m] < base[j]
    BY <1>4, <2>1, IncreasesLater
  <2>3. m > j + 1 => base[j + 1] < base[m]
    BY <1>4, <2>1, IncreasesLater
  <2>4. m = j \/ m = j + 1
    BY <1>4, <1>5, <1>9, <2>1, <2>2, <2>3, SMTT(60)
  <2>5. CASE m = j
    BY <1>4, <1>6, <1>8, <1>9, <2>5
  <2>6. CASE m = j + 1
    BY <1>4, <1>6, <1>8, <1>9, <2>6
  <2> QED BY <2>4, <2>5, <2>6
<1>10. \E lo, hi \in {values[j], values[j + 1]} :
         /\ key \in base[j] .. base[j + 1]
         /\ lo * out[2] <= out[1]
         /\ out[1] <= hi * out[2]
  <2>1. key \in base[j] .. base[j + 1]
    BY <1>4, <1>5
  <2>2. CASE v <= w
    <3>1. v * out[2] <= out[1] /\ out[1] <= w * out[2]
      BY <1>8, <2>2 DEF Inside
    <3> QED BY <1>6, <2>1, <3>1
  <2>3. CASE w <= v
    <3>1. w * out[2] <= out[1] /\ out[1] <= v * out[2]
      BY <1>8, <2>3 DEF Inside
    <3> QED BY <1>6, <2>1, <3>1
  <2> QED BY <2>2, <2>3
<1> QED BY <1>4, <1>9, <1>10, Zenon DEF Answers

\* lerp over any keys, values and queries.
LEMMA LerpAlwaysInside ==
  ASSUME NEW base \in Seq(Int), NEW values \in Seq(Int), NEW query \in Seq(Int)
  PROVE  LerpInside(base, values, query, Lerp(base, values, query))
<1> DEFINE n == Len(query)
           last == base[Len(base)]
           keys == Cropped(base, query)
           Accepted == KeysAccepted(base, query) /\ ValuesAccepted(base, values)
           Past == \E i \in DOMAIN keys : LerpIndex(base, keys[i]) >= Len(base)
           vals == [i \in DOMAIN keys |-> LerpAt(base, values, keys[i])]
           out == Lerp(base, values, query)
<1>1. out = IF ~Accepted THEN [end |-> "exit", values |-> <<>>]
            ELSE IF Past THEN [end |-> "throw", values |-> <<>>]
            ELSE [end |-> "return", values |-> vals]
  BY Zenon DEF Lerp, LerpAt
<1> HIDE DEF out
<1>2. CASE ~Accepted
  <2>1. out.end = "exit"
    BY <1>1, <1>2
  <2> QED BY <1>2, <2>1 DEF LerpInside, out
<1>3. CASE Accepted
  <2>1. /\ n \in Nat \ {0} /\ Len(base) \in Nat /\ Len(base) >= 2
        /\ IsIncreasing(base) /\ IsNotDecreasing(query)
    BY <1>3 DEF KeysAccepted
  <2>2. /\ keys \in Seq(Int) /\ Len(keys) = n
        /\ \A i \in 1 .. n - 1 :
             keys[i] = (IF i = 1 /\ query[1] < base[1] THEN base[1] ELSE query[i])
        /\ keys[n] <= last
    BY <1>3, CroppedKeys
  <2>3. DOMAIN keys = 1 .. n /\ \A i \in 1 .. n : keys[i] \in Int
    BY <2>2
  <2>4. last \in Int /\ base[1] \in Int /\ base[1] < last
    <3>1. 1 \in 1 .. Len(base) /\ Len(base) \in 1 .. Len(base) /\ 1 < Len(base)
      BY <2>1
    <3> QED BY <2>1, <3>1, IncreasesLater
  <2> HIDE DEF keys
  <2>5. Past <=> \E i \in 1 .. n : keys[i] > last
    <3>1. \A i \in 1 .. n : LerpIndex(base, keys[i]) >= Len(base) <=> keys[i] > last
      BY <2>1, <2>3, LerpIndexEnd
    <3> QED BY <2>3, <3>1, Zenon
  <2>6. (\E i \in 1 .. n : keys[i] > last) <=> (n > 1 /\ query[n - 1] > last)
    <3>1. ASSUME NEW i \in 1 .. n, keys[i] > last PROVE n > 1 /\ query[n - 1] > last
      <4>1. i \in 1 .. n - 1 /\ n > 1
        <5>1. keys[n] \in Int /\ keys[i] \in Int
          <6>1. n \in 1 .. n
            BY <2>1
          <6> QED BY <2>3, <6>1, Zenon
        <5>2. i # n
          <6>1. SUFFICES ASSUME i = n PROVE FALSE
            OBVIOUS
          <6>2. keys[n] <= last /\ keys[n] > last
            BY <2>2, <3>1, <6>1, Zenon
          <6> QED BY <2>4, <5>1, <6>2
        <5> QED BY <2>1, <5>2
      <4>2. keys[i] = query[i]
        BY <2>2, <2>4, <3>1, <4>1
      <4>3. i \in 1 .. n /\ n - 1 \in 1 .. n /\ i <= n - 1
        BY <2>1, <4>1
      <4>4. query[i] <= query[n - 1] /\ query[i] \in Int /\ query[n - 1] \in Int
        BY <2>1, <4>3, DecreasesNever, SMTT(60)
      <4> QED BY <2>4, <3>1, <4>1, <4>2, <4>4
    <3>2. ASSUME n > 1, query[n - 1] > last PROVE \E i \in 1 .. n : keys[i] > last
      <4>1. n - 1 \in 1 .. n - 1 /\ n - 1 \in 1 .. n /\ query[n - 1] \in Int
        BY <2>1, <3>2
      <4>2. keys[n - 1] = query[n - 1]
        <5>1. keys[n - 1] = (IF n - 1 = 1 /\ query[1] < base[1] THEN base[1] ELSE query[n - 1])
          BY <2>2, <4>1, Zenon
        <5>2. n - 1 = 1 => ~(query[1] < base[1])
          <6>1. SUFFICES ASSUME n - 1 = 1 PROVE ~(query[1] < base[1])
            OBVIOUS
          <6>2. query[1] > last /\ query[1] \in Int
            BY <3>2, <4>1, <6>1, Zenon
          <6> QED BY <2>4, <6>2
        <5> QED BY <5>1, <5>2, Zenon
      <4> QED BY <3>2, <4>1, <4>2
    <3> QED BY <3>1, <3>2
  <2>7. CASE Past
    <3>1. out.end = "throw"
      BY <1>1, <1>3, <2>7
    <3>2. n > 1 /\ query[n - 1] > last
      BY <2>5, <2>6, <2>7
    <3> QED BY <1>3, <3>1, <3>2 DEF LerpInside, out
  <2>8. CASE ~Past
    <3>1. out.end = "return" /\ out.values = vals
      BY <1>1, <1>3, <2>8
    <3>2. ~(n > 1 /\ query[n - 1] > last)
      BY <2>5, <2>6, <2>8
    <3>3. ASSUME NEW i \in DOMAIN query, keys[i] \in base[1] .. last
          PROVE  Answers(base, values, keys[i], out.values[i])
      <4>1. i \in 1 .. n /\ keys[i] \in Int /\ i \in DOMAIN keys
        BY <2>3, <3>3
      <4>2. out.values[i] = LerpAt(base, values, keys[i])
        BY <3>1, <4>1, Zenon
      <4>3. PICK key \in Int : key = keys[i] /\ key \in base[1] .. base[Len(base)]
        BY <3>3, <4>1
      <4>4. ValuesAccepted(base, values) /\ IsIncreasing(base)
        BY <1>3, <2>1
      <4>5. out.values[i] = LerpAt(base, values, key)
        BY <4>2, <4>3, Zenon
      <4>6. Answers(base, values, key, out.values[i])
        BY <4>3, <4>4, <4>5, LerpAtInside, Zenon
      <4> QED BY <4>3, <4>6, Zenon
    <3>4. (IF n = 0 THEN <<>> ELSE keys) = keys
      BY <2>1
    <3>5. "return" # "throw"
      OBVIOUS
    <3>6. \A i \in DOMAIN query :
            keys[i] \in base[1] .. base[Len(base)] => Answers(base, values, keys[i], out.values[i])
      BY <3>3, Zenon
    <3>7. out.end = "return" /\ out.end # "throw" /\ out.end # "exit"
      BY <3>1
    <3> HIDE DEF Accepted, Past
    <3> QED BY <1>3, <3>2, <3>4, <3>6, <3>7, Zenon DEF LerpInside, Answers, out, keys
  <2> QED BY <2>7, <2>8
<1> QED BY <1>2, <1>3

-----------------------------------------------------------------------------
(* Resampling by distance.                                                 *)

\* Quotient and remainder.
LEMMA Quotient ==
  ASSUME NEW a \in Nat, NEW b \in Nat \ {0}
  PROVE  \E q \in Nat, r \in 0 .. b - 1 : q = a \div b /\ a = q * b + r
<1>1. a \div b \in Nat /\ a % b \in 0 .. b - 1 /\ a = ((a \div b) * b) + (a % b)
  OBVIOUS
<1> QED BY <1>1

\* m keys that run forwards, no farther apart than a step ...
Forwards(s, m, step) == \A i \in 1 .. m - 1 : s[i + 1] - s[i] \in 0 .. step

\* ... from lo to hi.
Dense(s, m, lo, hi, step) ==
  s \in Seq(Int) /\ Len(s) = m /\ s[1] = lo /\ s[m] = hi /\ Forwards(s, m, step)

\* Keys one interval apart: forwards from `first', and backwards from `start'.
Ahead(first, interval, m) == [i \in 1 .. m |-> first + (i - 1) * interval]

Back(start, interval, q) == [i \in 1 .. q + 1 |-> start - (q + 1 - i) * interval]

\* The keys ahead of the ego are spaced by the interval.
LEMMA AheadDense ==
  ASSUME NEW first \in Int, NEW interval \in Nat, NEW m \in Nat \ {0}
  PROVE  Dense(Ahead(first, interval, m), m, first, first + (m - 1) * interval, interval)
<1>1. \A i \in 1 .. m : first + (i - 1) * interval \in Int
  OBVIOUS
<1>2. /\ Ahead(first, interval, m) \in Seq(Int) /\ Len(Ahead(first, interval, m)) = m
      /\ \A i \in 1 .. m : Ahead(first, interval, m)[i] = first + (i - 1) * interval
  BY <1>1 DEF Ahead
<1>3. ASSUME NEW i \in 1 .. m - 1
      PROVE  Ahead(first, interval, m)[i + 1] - Ahead(first, interval, m)[i] \in 0 .. interval
  <2>1. i \in 1 .. m /\ i + 1 \in 1 .. m /\ (i + 1) - 1 = i
    OBVIOUS
  <2>2. i * interval = (i - 1) * interval + interval /\ (i - 1) * interval \in Int
    OBVIOUS
  <2> QED BY <1>2, <2>1, <2>2
<1>4. 1 \in 1 .. m /\ m \in 1 .. m /\ (1 - 1) * interval = 0
  OBVIOUS
<1>5. Ahead(first, interval, m)[1] = first
      /\ Ahead(first, interval, m)[m] = first + (m - 1) * interval
  BY <1>2, <1>4
<1> QED BY <1>2, <1>3, <1>5, Zenon DEF Dense, Forwards

\* ... and so are those behind it.
LEMMA BackDense ==
  ASSUME NEW start \in Int, NEW interval \in Nat, NEW q \in Nat
  PROVE  Dense(Back(start, interval, q), q + 1, start - q * interval, start, interval)
<1>1. \A i \in 1 .. q + 1 : start - (q + 1 - i) * interval \in Int
  OBVIOUS
<1>2. /\ Back(start, interval, q) \in Seq(Int) /\ Len(Back(start, interval, q)) = q + 1
      /\ \A i \in 1 .. q + 1 : Back(start, interval, q)[i] = start - (q + 1 - i) * interval
  BY <1>1 DEF Back
<1>3. ASSUME NEW i \in 1 .. (q + 1) - 1
      PROVE  Back(start, interval, q)[i + 1] - Back(start, interval, q)[i] \in 0 .. interval
  <2>1. i \in 1 .. q + 1 /\ i + 1 \in 1 .. q + 1
    OBVIOUS
  <2>2. (q + 1 - i) * interval = (q + 1 - (i + 1)) * interval + interval
        /\ (q + 1 - (i + 1)) * interval \in Int
    OBVIOUS
  <2>3. PICK x \in Int : x = (q + 1 - (i + 1)) * interval
    BY <2>2, Zenon
  <2>4. Back(start, interval, q)[i + 1] = start - x
        /\ Back(start, interval, q)[i] = start - (x + interval)
    BY <1>2, <2>1, <2>2, <2>3, Zenon
  <2>5. (start - x) - (start - (x + interval)) \in 0 .. interval
    OBVIOUS
  <2> QED BY <2>4, <2>5, Zenon
<1>4. 1 \in 1 .. q + 1 /\ q + 1 \in 1 .. q + 1
      /\ (q + 1 - 1) * interval = q * interval /\ (q + 1 - (q + 1)) * interval = 0
  OBVIOUS
<1>5. Back(start, interval, q)[1] = start - q * interval
      /\ Back(start, interval, q)[q + 1] = start
  BY <1>2, <1>4
<1> QED BY <1>2, <1>3, <1>5, Zenon DEF Dense, Forwards

\* u is s and then t.
Joins(u, s, t, m, n) ==
  /\ u \in Seq(Int) /\ Len(u) = m + n
  /\ \A i \in 1 .. m : u[i] = s[i]
  /\ \A i \in 1 .. n : u[m + i] = t[i]

\* The two halves joined at the ego.
LEMMA Joined ==
  ASSUME NEW s \in Seq(Int), NEW t \in Seq(Int), NEW m \in Nat, NEW n \in Nat,
         m = Len(s), n = Len(t)
  PROVE  Joins(s \o t, s, t, m, n)
<1>1. \A i \in 1 .. m + n : (s \o t)[i] = IF i <= m THEN s[i] ELSE t[i - m]
  OBVIOUS
<1>2. ASSUME NEW i \in 1 .. m PROVE (s \o t)[i] = s[i]
  <2>1. i \in 1 .. m + n /\ i <= m
    OBVIOUS
  <2> QED BY <1>1, <2>1, Zenon
<1>3. ASSUME NEW i \in 1 .. n PROVE (s \o t)[m + i] = t[i]
  <2>1. m + i \in 1 .. m + n /\ ~(m + i <= m) /\ (m + i) - m = i
    OBVIOUS
  <2>2. (s \o t)[m + i] = t[(m + i) - m]
    BY <1>1, <2>1, Zenon
  <2> QED BY <2>1, <2>2, Zenon
<1>4. s \o t \in Seq(Int) /\ Len(s \o t) = m + n
  OBVIOUS
<1> QED BY <1>2, <1>3, <1>4, Zenon DEF Joins

DenseThrough(s, m, lo, hi, step, i, mid) == Dense(s, m, lo, hi, step) /\ s[i] = mid

\* ... are spaced no wider than the interval.
LEMMA DenseJoined ==
  ASSUME NEW m \in Nat \ {0}, NEW n \in Nat \ {0}, NEW step \in Nat,
         NEW s, NEW t, NEW lo \in Int, NEW mid \in Int, NEW next \in Int, NEW hi \in Int,
         Dense(s, m, lo, mid, step), Dense(t, n, next, hi, step), next - mid \in 0 .. step
  PROVE  DenseThrough(s \o t, m + n, lo, hi, step, m, mid)
<1>1. /\ s \in Seq(Int) /\ Len(s) = m /\ s[1] = lo /\ s[m] = mid
      /\ t \in Seq(Int) /\ Len(t) = n /\ t[1] = next /\ t[n] = hi
  BY DEF Dense
<1>2. m \in Nat /\ n \in Nat
  OBVIOUS
<1>7. PICK u : u = s \o t
  OBVIOUS
<1>3. /\ u \in Seq(Int) /\ u = s \o t /\ Len(u) = m + n
      /\ \A i \in 1 .. m : u[i] = s[i]
      /\ \A i \in 1 .. n : u[m + i] = t[i]
  <2>1. m = Len(s) /\ n = Len(t)
    BY <1>1, Zenon
  <2>2. Joins(s \o t, s, t, m, n)
    BY <1>1, <1>2, <2>1, Joined, Zenon
  <2>3. Joins(u, s, t, m, n)
    BY <1>7, <2>2, Zenon
  <2> QED BY <1>7, <2>3, Zenon DEF Joins
<1>4. ASSUME NEW i \in 1 .. (m + n) - 1 PROVE u[i + 1] - u[i] \in 0 .. step
  <2>1. CASE i < m
    <3>1. i \in 1 .. m /\ i + 1 \in 1 .. m /\ i \in 1 .. m - 1
      BY <2>1
    <3>2. u[i] = s[i] /\ u[i + 1] = s[i + 1]
      BY <1>3, <3>1, Zenon
    <3> QED BY <3>1, <3>2, Zenon DEF Dense, Forwards
  <2>2. CASE i = m
    <3>1. m \in 1 .. m /\ 1 \in 1 .. n
      OBVIOUS
    <3>2. u[i] = mid /\ u[i + 1] = next
      BY <1>1, <1>3, <2>2, <3>1, Zenon
    <3> QED BY <3>2, Zenon
  <2>3. CASE i > m
    <3>1. PICK j \in 1 .. n - 1 : i = m + j
      <4>1. i - m \in 1 .. n - 1 /\ i = m + (i - m)
        BY <2>3
      <4> QED BY <4>1
    <3>2. j \in 1 .. n /\ j + 1 \in 1 .. n /\ i + 1 = m + (j + 1)
      BY <3>1
    <3>3. u[i] = t[j] /\ u[i + 1] = t[j + 1]
      BY <1>3, <3>1, <3>2, Zenon
    <3> QED BY <3>3, Zenon DEF Dense, Forwards
  <2> QED BY <2>1, <2>2, <2>3
<1>5. u[1] = lo /\ u[m] = mid /\ u[m + n] = hi
  <2>1. 1 \in 1 .. m /\ m \in 1 .. m /\ n \in 1 .. n
    OBVIOUS
  <2> QED BY <1>1, <1>3, <2>1, Zenon
<1>6. Dense(u, m + n, lo, hi, step)
  <2>1. Forwards(u, m + n, step)
    BY <1>4, Zenon DEF Forwards
  <2> QED BY <1>3, <1>5, <2>1, Zenon DEF Dense
<1> QED BY <1>3, <1>5, <1>6, Zenon DEF DenseThrough

\* mpc_utils.cpp: the keys ahead of the ego stay on the path.
LEMMA DenseForwards ==
  ASSUME NEW m \in Nat \ {0}, NEW step \in Nat, NEW s, NEW lo \in Int, NEW hi \in Int,
         Dense(s, m, lo, hi, step)
  PROVE  /\ IsNotDecreasing(s)
         /\ \A i \in 1 .. m : s[i] \in Int /\ s[i] <= hi
         /\ \A i \in 1 .. m - 1 : s[i + 1] - s[i] <= step
<1>1. s \in Seq(Int) /\ Len(s) = m /\ s[m] = hi
  BY DEF Dense
<1>2. \A i \in 1 .. m : s[i] \in Int
  BY <1>1
<1>3. ASSUME NEW i \in 1 .. m - 1 PROVE s[i + 1] - s[i] <= step /\ s[i] <= s[i + 1]
  <2>1. i \in 1 .. m /\ i + 1 \in 1 .. m
    OBVIOUS
  <2>2. s[i + 1] - s[i] \in 0 .. step
    BY Zenon DEF Dense, Forwards
  <2>3. s[i] \in Int /\ s[i + 1] \in Int
    BY <1>2, <2>1, Zenon
  <2> QED BY <2>2, <2>3
<1>4. IsNotDecreasing(s)
  BY <1>1, <1>3, Zenon DEF IsNotDecreasing
<1>5. ASSUME NEW i \in 1 .. m PROVE s[i] <= hi
  <2>1. m \in 1 .. m /\ i <= m
    OBVIOUS
  <2> QED BY <1>1, <1>4, <2>1, DecreasesNever, Zenon
<1> QED BY <1>2, <1>3, <1>4, <1>5

\* How far the keys ahead run.
LEMMA AheadEnds ==
  ASSUME NEW first \in Nat, NEW end \in Nat, NEW interval \in Nat \ {0}, first < end
  PROVE  \E k \in Nat : /\ k = (end - 1 - first) \div interval
                        /\ end - (first + k * interval) \in 1 .. interval
<1>1. end - 1 - first \in Nat
  OBVIOUS
<1>2. PICK k \in Nat, d \in 0 .. interval - 1 :
        k = (end - 1 - first) \div interval /\ end - 1 - first = k * interval + d
  BY <1>1, Quotient
<1>3. PICK z \in Int : z = k * interval
  OBVIOUS
<1>4. end - (first + z) = d + 1
  BY <1>2, <1>3
<1>5. d + 1 \in 1 .. interval
  OBVIOUS
<1> QED BY <1>2, <1>3, <1>4, <1>5, Zenon

\* mpc_utils.cpp: the keys behind it start within an interval of the path's start.
LEMMA BackEnds ==
  ASSUME NEW start \in Nat, NEW interval \in Nat \ {0}
  PROVE  \E k \in Nat, r \in 0 .. interval - 1 :
           k = start \div interval /\ start - k * interval = r
<1>1. PICK k \in Nat, r \in 0 .. interval - 1 :
        k = start \div interval /\ start = k * interval + r
  BY Quotient
<1>2. PICK z \in Int : z = k * interval
  OBVIOUS
<1>3. start - z = r
  BY <1>1, <1>2
<1> QED BY <1>1, <1>2, <1>3, Zenon

\* The keys fill the reference up to its end, the place of the ego among them.
Fills(keys, end, interval, place) ==
  \E m \in Nat \ {0}, lo \in 0 .. interval - 1, hi \in Int :
    /\ Dense(keys, m, lo, hi, interval)
    /\ end - hi \in 1 .. interval
    /\ \E i \in 1 .. m : keys[i] = place

\* mpc_utils.cpp: the keys leave no gap longer than an interval.
LEMMA ResampledFills ==
  ASSUME NEW arcs \in Seq(Int), NEW end \in Nat \ {0}, Last(arcs) = end,
         NEW ego \in Int, NEW interval \in Nat \ {0}
  PROVE  Fills(ResampleKeys(arcs, ego, interval, 1), end, interval,
               Smaller(Larger(ego, 0), end - 1))
<1>1. PICK e \in Nat : e = Larger(ego, 0)
  BY DEF Larger
<1>2. PICK start \in Nat : start = Smaller(e, end - 1) /\ start <= e /\ start <= end - 1
                           /\ (start = e \/ start = end - 1)
  <2>1. end - 1 \in Nat
    OBVIOUS
  <2> QED BY <2>1 DEF Smaller
<1>3. PICK q \in Nat, lo \in 0 .. interval - 1 :
        q = start \div interval /\ start - q * interval = lo
  BY BackEnds, Zenon
<1>4. PICK first \in Nat : first = e + interval
  OBVIOUS
<1>5. q + 1 \in Nat \ {0} /\ (q + 1) - 1 = q /\ interval \in Nat /\ start \in Int /\ lo \in Int
  OBVIOUS
<1>6. Dense(Back(start, interval, q), q + 1, lo, start, interval)
  <2>1. Dense(Back(start, interval, q), q + 1, start - q * interval, start, interval)
    BY <1>5, BackDense, Zenon
  <2> QED BY <1>3, <1>5, <2>1, Zenon
<1>7. ResampleKeys(arcs, ego, interval, 1) =
        Back(start, interval, q)
          \o (IF first >= end THEN <<>>
              ELSE Ahead(first, interval, (end - 1 - first) \div interval + 1))
  <2>1. ResampleKeys(arcs, ego, interval, 1) =
          Back(Smaller(Larger(ego, 0), Last(arcs) - 1), interval,
               Smaller(Larger(ego, 0), Last(arcs) - 1) \div interval)
            \o (IF Larger(ego, 0) + interval >= Last(arcs) THEN <<>>
                ELSE Ahead(Larger(ego, 0) + interval, interval,
                           (Last(arcs) - 1 - (Larger(ego, 0) + interval)) \div interval + 1))
    BY Zenon DEF ResampleKeys, Back, Ahead
  <2> QED BY <1>1, <1>2, <1>3, <1>4, <2>1, Zenon
<1>8. CASE first >= end
  <2>1. Back(start, interval, q) \in Seq(Int) /\ Len(Back(start, interval, q)) = q + 1
        /\ Back(start, interval, q)[q + 1] = start
    BY <1>6, Zenon DEF Dense
  <2>2. PICK s \in Seq(Int) : s = Back(start, interval, q)
    BY <2>1, Zenon
  <2>3. ResampleKeys(arcs, ego, interval, 1) = s \o <<>>
    BY <1>7, <1>8, <2>2, Zenon
  <2>4. s \o <<>> = s
    OBVIOUS
  <2>5. end - start \in 1 .. interval
    BY <1>2, <1>4, <1>8
  <2>6. q + 1 \in 1 .. q + 1
    BY <1>5
  <2>7. ResampleKeys(arcs, ego, interval, 1) = Back(start, interval, q)
    BY <2>2, <2>3, <2>4, Zenon
  <2>8. Fills(Back(start, interval, q), end, interval, start)
    BY <1>5, <1>6, <2>1, <2>5, <2>6, Zenon DEF Fills
  <2> QED BY <1>1, <1>2, <2>7, <2>8, Zenon
<1>9. CASE ~(first >= end)
  <2>1. PICK k \in Nat : /\ k = (end - 1 - first) \div interval
                         /\ end - (first + k * interval) \in 1 .. interval
    <3>1. end \in Nat /\ first < end
      BY <1>9
    <3> QED BY <3>1, AheadEnds, Zenon
  <2>2. k + 1 \in Nat \ {0} /\ (k + 1) - 1 = k /\ first \in Int
    OBVIOUS
  <2>3. PICK hi \in Int : hi = first + k * interval
    OBVIOUS
  <2>4. Dense(Ahead(first, interval, k + 1), k + 1, first, hi, interval)
    <3>1. Dense(Ahead(first, interval, k + 1), k + 1, first, first + ((k + 1) - 1) * interval, interval)
      BY <1>5, <2>2, AheadDense, Zenon
    <3> QED BY <2>2, <2>3, <3>1, Zenon
  <2>5. first - start \in 0 .. interval
    BY <1>2, <1>4, <1>9
  <2>6. ResampleKeys(arcs, ego, interval, 1) =
          Back(start, interval, q) \o Ahead(first, interval, k + 1)
    BY <1>7, <1>9, <2>1, Zenon
  <2>7. /\ Dense(ResampleKeys(arcs, ego, interval, 1), (q + 1) + (k + 1), lo, hi, interval)
        /\ ResampleKeys(arcs, ego, interval, 1)[q + 1] = start
    <3>1. DenseThrough(Back(start, interval, q) \o Ahead(first, interval, k + 1),
                       (q + 1) + (k + 1), lo, hi, interval, q + 1, start)
      BY <1>5, <1>6, <2>2, <2>4, <2>5, DenseJoined, Zenon
    <3> QED BY <2>6, <3>1, Zenon DEF DenseThrough
  <2>8. (q + 1) + (k + 1) \in Nat \ {0} /\ q + 1 \in 1 .. (q + 1) + (k + 1)
    OBVIOUS
  <2>9. end - hi \in 1 .. interval
    BY <2>1, <2>3, Zenon
  <2>10. Fills(ResampleKeys(arcs, ego, interval, 1), end, interval, start)
    BY <2>7, <2>8, <2>9, Zenon DEF Fills
  <2> QED BY <1>1, <1>2, <2>10, Zenon
<1> QED BY <1>8, <1>9

\* The keys of the resampling on any reference, wherever the ego is.
LEMMA ResampleAlwaysValid ==
  ASSUME NEW a, a.arcs \in Seq(Int), Len(a.arcs) >= 2, a.arcs[1] = 0, a.ego \in Int,
         a.interval \in Nat \ {0}, a.eps = 1
  PROVE  ResampleKeysValid(a, ResampleKeys(a.arcs, a.ego, a.interval, a.eps))
<1>1. SUFFICES ASSUME IsIncreasing(a.arcs)
               PROVE  ResampleKeysValid(a, ResampleKeys(a.arcs, a.ego, a.interval, a.eps))
  BY Zenon DEF ResampleKeysValid
<1>2. PICK arcs \in Seq(Int), interval \in Nat \ {0}, end \in Nat \ {0}, n \in Nat :
        /\ arcs = a.arcs /\ interval = a.interval /\ n = Len(arcs) /\ n >= 2
        /\ arcs[1] = 0 /\ arcs[n] = end /\ Last(arcs) = end /\ IsIncreasing(arcs)
  <2>1. 1 \in 1 .. Len(a.arcs) /\ Len(a.arcs) \in 1 .. Len(a.arcs) /\ 1 < Len(a.arcs)
    OBVIOUS
  <2>2. a.arcs[1] < a.arcs[Len(a.arcs)] /\ a.arcs[Len(a.arcs)] \in Int
    BY <1>1, <2>1, IncreasesLater
  <2>3. a.arcs[Len(a.arcs)] \in Nat \ {0} /\ Len(a.arcs) \in Nat
    BY <2>1, <2>2
  <2> QED BY <1>1, <2>3, Zenon DEF Last
<1>3. PICK keys : keys = ResampleKeys(a.arcs, a.ego, a.interval, a.eps)
  OBVIOUS
<1>4. PICK K \in Nat \ {0}, lo \in 0 .. interval - 1, hi \in Int :
        /\ Dense(keys, K, lo, hi, interval)
        /\ end - hi \in 1 .. interval
        /\ \E i \in 1 .. K : keys[i] = Smaller(Larger(a.ego, 0), end - a.eps)
  <2>1. keys = ResampleKeys(arcs, a.ego, interval, 1) /\ a.eps = 1
    BY <1>2, <1>3, Zenon
  <2>2. Fills(ResampleKeys(arcs, a.ego, interval, 1), end, interval,
              Smaller(Larger(a.ego, 0), end - 1))
    BY <1>2, ResampledFills, Zenon
  <2> QED BY <2>1, <2>2, Zenon DEF Fills
<1>5. keys \in Seq(Int) /\ Len(keys) = K /\ keys[1] = lo /\ keys[K] = hi
  BY <1>4, Zenon DEF Dense
<1>6. /\ IsNotDecreasing(keys)
      /\ \A i \in 1 .. K : keys[i] \in Int /\ keys[i] <= hi
      /\ \A i \in 1 .. K - 1 : keys[i + 1] - keys[i] <= interval
  <2>1. interval \in Nat /\ lo \in Int
    OBVIOUS
  <2> QED BY <1>4, <2>1, DenseForwards, Zenon
<1>7. KeysAccepted(arcs, keys)
  <2>1. lo >= 0 - kKeyTolerance /\ hi <= end + kKeyTolerance /\ K >= 1
    <3>1. end - hi \in 1 .. interval
      BY <1>4, Zenon
    <3>2. lo >= 0 /\ hi <= end /\ K >= 1
      BY <3>1
    <3> QED BY <3>2 DEF kKeyTolerance
  <2> QED BY <1>2, <1>5, <1>6, <2>1, Zenon DEF KeysAccepted
<1>8. Lerp(arcs, arcs, keys).end = "return"
  <2>1. ValuesAccepted(arcs, arcs)
    BY <1>2, Zenon DEF ValuesAccepted
  <2>2. LerpInside(arcs, arcs, keys, Lerp(arcs, arcs, keys))
    BY <1>5, LerpAlwaysInside, Zenon
  <2>3. ~(K > 1 /\ keys[K - 1] > end)
    <3>1. SUFFICES ASSUME K > 1 PROVE ~(keys[K - 1] > end)
      OBVIOUS
    <3>2. K - 1 \in 1 .. K
      BY <3>1
    <3>3. keys[K - 1] \in Int /\ keys[K - 1] <= hi
      BY <1>6, <3>2, Zenon
    <3> QED BY <1>4, <3>3
  <2>4. Lerp(arcs, arcs, keys).end # "throw"
    BY <1>2, <1>5, <2>2, <2>3, Zenon DEF LerpInside
  <2> QED BY <1>7, <2>1, <2>4, Zenon DEF Lerp
<1>9. Smaller(Larger(a.ego, 0), end - a.eps) \in Range(keys)
  <2>1. DOMAIN keys = 1 .. K
    BY <1>5
  <2> QED BY <1>4, <2>1, Zenon DEF Range
<1>10. keys[1] < interval /\ end - Last(keys) <= interval
  <2>1. Last(keys) = hi
    BY <1>5, Zenon DEF Last
  <2> QED BY <1>4, <1>5, <2>1
<1> QED BY <1>2, <1>3, <1>5, <1>6, <1>7, <1>8, <1>9, <1>10, Zenon DEF ResampleKeysValid

-----------------------------------------------------------------------------
(* The time base of a cycle.                                               *)

\* f is the running sum of g, as the recursion writes it.
RunningSum(f, m, g) == f = [i \in 1 .. m + 1 |-> IF i = 1 THEN 0 ELSE f[i - 1] + g[i - 1]]

\* A running sum over a sequence exists and is what its recursion says.
LEMMA SumsExist ==
  ASSUME NEW m \in Nat, NEW g \in [1 .. m -> Int]
  PROVE  \E f : RunningSum(f, m, g)
<1> DEFINE step == [k \in 1 .. m |-> [x \in Int |-> x + g[k]]]
<1>1. step \in [1 .. m -> [Int -> Int]]
  OBVIOUS
<1>2. \A k \in 1 .. m : \A x \in Int : step[k][x] = x + g[k]
  OBVIOUS
<1> HIDE DEF step
<1>3. PICK h \in [0 .. m -> Int] : Iterates(h, m, 0, step)
  <2>1. 0 \in Int
    OBVIOUS
  <2> QED BY <1>1, <2>1, Recursion, Zenon
<1>4. h[0] = 0 /\ \A k \in 1 .. m : h[k] = h[k - 1] + g[k]
  <2>1. h[0] = 0
    BY <1>3 DEF Iterates
  <2>2. ASSUME NEW k \in 1 .. m PROVE h[k] = h[k - 1] + g[k]
    <3>1. k \in 0 .. m /\ k # 0 /\ k - 1 \in 0 .. m
      OBVIOUS
    <3>2. h[k] = step[k][h[k - 1]]
      BY <1>3, <3>1 DEF Iterates
    <3> QED BY <1>2, <3>1, <3>2
  <2> QED BY <2>1, <2>2
<1> DEFINE f == [i \in 1 .. m + 1 |-> h[i - 1]]
<1>5. f \in [1 .. m + 1 -> Int]
  OBVIOUS
<1>6. ASSUME NEW i \in 1 .. m + 1
      PROVE  f[i] = IF i = 1 THEN 0 ELSE f[i - 1] + g[i - 1]
  <2>1. CASE i = 1
    BY <1>4, <2>1
  <2>2. CASE i # 1
    <3>1. PICK k \in 1 .. m : k = i - 1 /\ k \in 1 .. m + 1
      BY <2>2
    <3>2. f[i] = h[k] /\ f[k] = h[k - 1]
      BY <3>1
    <3> QED BY <1>4, <2>2, <3>1, <3>2
  <2> QED BY <2>1, <2>2
<1>7. f = [i \in 1 .. m + 1 |-> IF i = 1 THEN 0 ELSE f[i - 1] + g[i - 1]]
  BY <1>5, <1>6
<1> QED BY <1>7, Zenon DEF RunningSum

\* What it says of every solution.
Sums(f, m, g) ==
  f \in [1 .. m + 1 -> Int] /\ f[1] = 0 /\ \A i \in 1 .. m : f[i + 1] = f[i] + g[i]

\* The defined sum is that one.
LEMMA SumsAre ==
  ASSUME NEW m \in Nat, NEW g \in [1 .. m -> Int],
         NEW f, RunningSum(f, m, g)
  PROVE  Sums(f, m, g)
<1>1. DOMAIN f = 1 .. m + 1 /\ f[1] = 0
  BY DEF RunningSum
<1>2. ASSUME NEW i \in 1 .. m PROVE f[i + 1] = f[i] + g[i]
  <2>1. i + 1 \in 1 .. m + 1 /\ i + 1 # 1 /\ (i + 1) - 1 = i
    OBVIOUS
  <2> QED BY <2>1 DEF RunningSum
<1> DEFINE S == {k \in 0 .. m : f[k + 1] \in Int}
<1>3. 0 \in S
  BY <1>1
<1>4. ASSUME NEW k \in 0 .. m - 1, k \in S PROVE k + 1 \in S
  <2>1. k + 1 \in 1 .. m /\ k + 1 \in 0 .. m
    OBVIOUS
  <2>2. f[(k + 1) + 1] = f[k + 1] + g[k + 1] /\ f[k + 1] \in Int
    BY <1>2, <1>4, <2>1, Zenon
  <2>3. g[k + 1] \in Int
    BY <2>1
  <2>4. f[(k + 1) + 1] \in Int
    BY <2>2, <2>3
  <2> QED BY <2>1, <2>4
<1> HIDE DEF S
<1>5. \A k \in 0 .. m : k \in S
  BY <1>3, <1>4, InductionTo
<1>6. ASSUME NEW i \in 1 .. m + 1 PROVE f[i] \in Int
  <2>1. i - 1 \in 0 .. m /\ (i - 1) + 1 = i
    OBVIOUS
  <2>2. i - 1 \in S
    BY <1>5, <2>1
  <2>3. f[(i - 1) + 1] \in Int
    BY <2>2 DEF S
  <2> QED BY <2>1, <2>3
<1>7. f = [i \in 1 .. m + 1 |-> f[i]]
  BY DEF RunningSum
<1>8. f \in [1 .. m + 1 -> Int]
  BY <1>6, <1>7
<1> QED BY <1>1, <1>2, <1>8, Zenon DEF Sums

\* mpc_utils.cpp: the arc lengths of a path are running sums.
LEMMA PathArcsSums ==
  ASSUME NEW steps \in Seq(Int), NEW m \in Nat, m = Len(steps)
  PROVE  Sums(PathArcs(steps), m, steps)
<1>1. steps \in [1 .. m -> Int]
  OBVIOUS
<1>2. \E f : RunningSum(f, m, steps)
  BY <1>1, SumsExist, Zenon
<1>3. PICK f : f = PathArcs(steps) /\ RunningSum(f, m, steps)
  BY <1>2, Zenon DEF PathArcs, RunningSum
<1> QED BY <1>1, <1>3, SumsAre, Zenon

\* mpc_utils.cpp: and so are the times of a trajectory.
LEMMA TrajectoryTimeSums ==
  ASSUME NEW steps \in Seq(Nat), NEW m \in Nat, m = Len(steps),
         NEW vx \in Seq(Int), Len(vx) >= m
  PROVE  \E g \in [1 .. m -> Nat \ {0}] : Sums(TrajectoryTime(steps, vx), m, g)
<1> DEFINE g == [i \in 1 .. m |-> StepTime(steps, vx, i)]
<1>1. ASSUME NEW i \in 1 .. m PROVE StepTime(steps, vx, i) \in Nat \ {0}
  <2>1. steps[i] \in Nat /\ vx[i] \in Int
    OBVIOUS
  <2>2. PICK b \in Nat \ {0} : b = Larger(Abs(vx[i]), 1)
    BY <2>1 DEF Larger, Abs
  <2>3. PICK q \in Nat : q = (100 * steps[i]) \div b
    <3>1. PICK a \in Nat : a = 100 * steps[i]
      BY <2>1
    <3>2. a \div b \in Nat
      BY Quotient
    <3> QED BY <3>1, <3>2
  <2>4. StepTime(steps, vx, i) = Larger(q, 1)
    BY <2>2, <2>3, Zenon DEF StepTime, kMinDt
  <2> QED BY <2>4 DEF Larger
<1>2. g \in [1 .. m -> Nat \ {0}]
  BY <1>1
<1>3. \A i \in 1 .. m : g[i] = StepTime(steps, vx, i)
  OBVIOUS
<1> HIDE DEF g
<1>4. g \in [1 .. m -> Int]
  BY <1>2
<1> DEFINE By(f) == f = [i \in 1 .. m + 1 |-> IF i = 1 THEN 0 ELSE f[i - 1] + StepTime(steps, vx, i - 1)]
<1>5. ASSUME NEW f PROVE RunningSum(f, m, g) <=> By(f)
  <2>1. ASSUME NEW i \in 1 .. m + 1, i # 1 PROVE g[i - 1] = StepTime(steps, vx, i - 1)
    <3>1. i - 1 \in 1 .. m
      BY <2>1
    <3> QED BY <1>3, <3>1, Zenon
  <2>2. [i \in 1 .. m + 1 |-> IF i = 1 THEN 0 ELSE f[i - 1] + g[i - 1]]
          = [i \in 1 .. m + 1 |-> IF i = 1 THEN 0 ELSE f[i - 1] + StepTime(steps, vx, i - 1)]
    BY <2>1, Zenon
  <2> QED BY <2>2, Zenon DEF RunningSum
<1>6. \E f : RunningSum(f, m, g)
  BY <1>4, SumsExist, Zenon
<1>7. PICK f : f = TrajectoryTime(steps, vx) /\ RunningSum(f, m, g)
  <2>1. By(TrajectoryTime(steps, vx))
    <3>1. \E f : By(f)
      <4> HIDE DEF By
      <4> QED BY <1>5, <1>6, Zenon
    <3> QED BY <3>1, Zenon DEF TrajectoryTime
  <2> HIDE DEF By
  <2> QED BY <1>5, <2>1, Zenon
<1> QED BY <1>2, <1>4, <1>7, SumsAre, Zenon

\* The times of a reference of n points: they start at zero, increase, and the
\* last point comes the extra time after the one before it.
TimeBase(times, n) ==
  /\ times \in Seq(Int) /\ Len(times) = n /\ IsIncreasing(times)
  /\ times[1] = 0 /\ times[n] = times[n - 1] + kExtraTime

\* mpc.cpp: the times of a reference increase, its extra point included.
LEMMA ReferenceTimesRun ==
  ASSUME NEW steps \in Seq(Nat), NEW m \in Nat, m = Len(steps),
         NEW vx \in Seq(Int), Len(vx) > m
  PROVE  TimeBase(ReferenceTimes(steps, vx), m + 3)
<1>1. PICK s \in Seq(Nat) : s = steps \o <<0>> /\ Len(s) = m + 1
  <2>1. steps \o <<0>> \in Seq(Nat) /\ Len(steps \o <<0>>) = m + 1
    OBVIOUS
  <2> QED BY <2>1, Zenon
<1>2. PICK p \in Nat : p = m + 1
  OBVIOUS
<1>3. PICK g \in [1 .. p -> Nat \ {0}] : Sums(TrajectoryTime(s, vx), p, g)
  <2>1. Len(vx) >= p
    BY <1>2
  <2> QED BY <1>1, <1>2, <2>1, TrajectoryTimeSums, Zenon
<1>4. PICK t : t = TrajectoryTime(s, vx)
  OBVIOUS
<1>5. t \in [1 .. p + 1 -> Int] /\ t[1] = 0 /\ \A i \in 1 .. p : t[i + 1] = t[i] + g[i]
  BY <1>3, <1>4, Zenon DEF Sums
<1>6. t \in Seq(Int) /\ Len(t) = p + 1
  BY <1>5
<1>7. PICK u \in Seq(Int) : /\ u = Append(t, t[p + 1] + kExtraTime) /\ Len(u) = p + 2
                            /\ \A i \in 1 .. p + 1 : u[i] = t[i]
                            /\ u[p + 2] = t[p + 1] + kExtraTime
  <2>1. t[p + 1] \in Int
    BY <1>5
  <2>2. PICK e \in Int : e = t[p + 1] + kExtraTime
    BY <2>1 DEF kExtraTime
  <2>3. Append(t, e) \in Seq(Int) /\ Len(Append(t, e)) = (p + 1) + 1
    BY <1>6
  <2>4. \A i \in 1 .. p + 1 : Append(t, e)[i] = t[i]
    BY <1>6
  <2>5. Append(t, e)[(p + 1) + 1] = e
    BY <1>6
  <2>6. (p + 1) + 1 = p + 2
    OBVIOUS
  <2> QED BY <2>2, <2>3, <2>4, <2>5, <2>6, Zenon
<1>8. ReferenceTimes(steps, vx) = u
  <2>1. Last(t) = t[p + 1]
    BY <1>6, Zenon DEF Last
  <2> QED BY <1>1, <1>4, <1>7, <2>1, Zenon DEF ReferenceTimes
<1>9. ASSUME NEW i \in 1 .. p + 1 PROVE u[i] < u[i + 1]
  <2>1. CASE i = p + 1
    <3>1. t[p + 1] \in Int
      BY <1>5
    <3>2. i + 1 = p + 2 /\ i \in 1 .. p + 1
      BY <2>1
    <3>3. u[i + 1] = t[p + 1] + kExtraTime /\ u[i] = t[p + 1]
      BY <1>7, <2>1, <3>2, Zenon
    <3> QED BY <3>1, <3>3 DEF kExtraTime
  <2>2. CASE i # p + 1
    <3>1. i \in 1 .. p /\ i \in 1 .. p + 1 /\ i + 1 \in 1 .. p + 1
      BY <2>2
    <3>2. t[i + 1] = t[i] + g[i] /\ u[i] = t[i] /\ u[i + 1] = t[i + 1]
      BY <1>5, <1>7, <3>1, Zenon
    <3>3. t[i] \in Int /\ g[i] \in Nat \ {0}
      BY <1>5, <3>1
    <3> QED BY <3>2, <3>3
  <2> QED BY <2>1, <2>2
<1>10. IsIncreasing(u)
  <2>1. Len(u) - 1 = p + 1
    BY <1>7
  <2> QED BY <1>9, <2>1, Zenon DEF IsIncreasing
<1>11. u[1] = 0 /\ u[p + 2] = u[p + 1] + kExtraTime
  <2>1. 1 \in 1 .. p + 1 /\ p + 1 \in 1 .. p + 1
    OBVIOUS
  <2> QED BY <1>5, <1>7, <2>1, Zenon
<1>12. m + 3 = p + 2 /\ (p + 2) - 1 = p + 1
  BY <1>2
<1> QED BY <1>7, <1>8, <1>10, <1>11, <1>12, Zenon DEF TimeBase

\* The arc lengths of a reference: its last point is there three times.
ArcBase(arcs, n) ==
  /\ arcs \in [1 .. n -> Int]
  /\ \A i \in 1 .. n - 1 : arcs[i] <= arcs[i + 1]
  /\ arcs[n] = arcs[n - 1] /\ arcs[n - 1] = arcs[n - 2]

\* mpc.cpp: and its arc lengths do not decrease.
LEMMA ReferenceArcsRun ==
  ASSUME NEW steps \in Seq(Nat), NEW m \in Nat, m = Len(steps)
  PROVE  ArcBase(PathArcs(ReferenceSteps(steps)), m + 3)
<1>1. PICK s \in Seq(Nat) : /\ s = steps \o <<0, 0>> /\ Len(s) = m + 2
                            /\ s[m + 1] = 0 /\ s[m + 2] = 0
  <2>1. /\ steps \o <<0, 0>> \in Seq(Nat) /\ Len(steps \o <<0, 0>>) = m + 2
        /\ (steps \o <<0, 0>>)[m + 1] = 0 /\ (steps \o <<0, 0>>)[m + 2] = 0
    OBVIOUS
  <2> QED BY <2>1, Zenon
<1>2. PICK p \in Nat : p = m + 2
  OBVIOUS
<1>3. PICK t : t = PathArcs(s)
  OBVIOUS
<1>4. Sums(t, p, s)
  <2>1. s \in Seq(Int)
    BY <1>1
  <2> QED BY <1>1, <1>2, <1>3, <2>1, PathArcsSums, Zenon
<1>5. t \in [1 .. p + 1 -> Int] /\ \A i \in 1 .. p : t[i + 1] = t[i] + s[i]
  BY <1>4, Zenon DEF Sums
<1>6. ASSUME NEW i \in 1 .. p PROVE t[i] <= t[i + 1]
  <2>1. i \in 1 .. Len(s) /\ i \in 1 .. p + 1
    BY <1>1, <1>2
  <2>2. t[i] \in Int /\ s[i] \in Nat
    BY <1>5, <2>1
  <2> QED BY <1>5, <2>2
<1>7. t[p + 1] = t[p] /\ t[p] = t[p - 1]
  <2>1. p \in 1 .. p /\ p - 1 \in 1 .. p /\ (p - 1) + 1 = p /\ p = m + 2 /\ p - 1 = m + 1
    BY <1>2
  <2>2. s[p] = 0 /\ s[p - 1] = 0
    BY <1>1, <2>1, Zenon
  <2>3. t[p + 1] = t[p] + 0 /\ t[p] = t[p - 1] + 0
    BY <1>5, <2>1, <2>2, Zenon
  <2>4. p \in 1 .. p + 1 /\ p - 1 \in 1 .. p + 1
    BY <1>2
  <2>5. t[p] \in Int /\ t[p - 1] \in Int
    BY <1>5, <2>4
  <2> QED BY <2>3, <2>5
<1>8. PathArcs(ReferenceSteps(steps)) = t
  BY <1>1, <1>3, Zenon DEF ReferenceSteps
<1>9. m + 3 = p + 1 /\ (p + 1) - 1 = p /\ (p + 1) - 2 = p - 1
  BY <1>2
<1> QED BY <1>5, <1>6, <1>7, <1>8, <1>9, Zenon DEF ArcBase

\* The nearest point exists, and the repeated ones at the end are not it.
LEMMA FirstNearestIs ==
  ASSUME NEW n \in Nat, n >= 3, NEW arcs, ArcBase(arcs, n), NEW ego \in Int
  PROVE  FirstNearest(arcs, ego) \in 1 .. n - 2
<1>1. /\ arcs \in [1 .. n -> Int] /\ DOMAIN arcs = 1 .. n
      /\ arcs[n] = arcs[n - 1] /\ arcs[n - 1] = arcs[n - 2]
  BY DEF ArcBase
<1> DEFINE d(i) == Abs(arcs[i] - ego)
<1>2. \A i \in 1 .. n : d(i) \in Nat
  BY <1>1 DEF Abs
<1> HIDE DEF d
<1>3. \E i \in 1 .. n : (\A j \in 1 .. n : d(i) <= d(j)) /\ (\A j \in 1 .. i - 1 : d(i) < d(j))
  <2> DEFINE D == {d(i) : i \in 1 .. n}
  <2>1. D \subseteq Nat /\ D # {}
    BY <1>2
  <2>2. PICK x \in D : \A y \in D : x <= y
    BY <2>1, LeastNat
  <2> DEFINE T == {i \in 1 .. n : d(i) = x}
  <2>3. T \subseteq Nat /\ T # {}
    BY <2>2
  <2>4. PICK i \in T : \A j \in T : i <= j
    BY <2>3, LeastNat
  <2>5. \A j \in 1 .. n : d(i) <= d(j)
    BY <2>2, <2>4
  <2>6. ASSUME NEW j \in 1 .. i - 1 PROVE d(i) < d(j)
    <3>1. j \in 1 .. n /\ j \notin T
      BY <2>4
    <3>2. d(j) # x /\ d(i) = x
      BY <2>4, <3>1
    <3> QED BY <1>2, <2>4, <2>5, <3>1, <3>2
  <2> QED BY <2>4, <2>5, <2>6
<1>4. PICK i : /\ i = FirstNearest(arcs, ego) /\ i \in 1 .. n
               /\ \A j \in 1 .. i - 1 : d(i) < d(j)
  <2>1. \E i \in DOMAIN arcs :
          /\ \A j \in DOMAIN arcs : Abs(arcs[i] - ego) <= Abs(arcs[j] - ego)
          /\ \A j \in 1 .. i - 1 : Abs(arcs[i] - ego) < Abs(arcs[j] - ego)
    BY <1>1, <1>3, Zenon DEF d
  <2>2. /\ FirstNearest(arcs, ego) \in DOMAIN arcs
        /\ \A j \in 1 .. FirstNearest(arcs, ego) - 1 :
             Abs(arcs[FirstNearest(arcs, ego)] - ego) < Abs(arcs[j] - ego)
    BY <2>1, Zenon DEF FirstNearest
  <2> QED BY <1>1, <2>2, Zenon DEF d
<1>5. i # n
  <2>1. SUFFICES ASSUME i = n PROVE FALSE
    OBVIOUS
  <2>2. n - 1 \in 1 .. i - 1 /\ i \in 1 .. n
    BY <2>1
  <2>3. d(i) < d(n - 1) /\ d(i) = d(n - 1)
    BY <1>1, <1>4, <2>1, <2>2, Zenon DEF d
  <2> QED BY <1>2, <2>2, <2>3
<1>6. i # n - 1
  <2>1. SUFFICES ASSUME i = n - 1 PROVE FALSE
    OBVIOUS
  <2>2. n - 2 \in 1 .. i - 1 /\ i \in 1 .. n
    BY <2>1
  <2>3. d(i) < d(n - 2) /\ d(i) = d(n - 2)
    BY <1>1, <1>4, <2>1, <2>2, Zenon DEF d
  <2> QED BY <1>2, <2>2, <2>3
<1>7. i \in 1 .. n - 2
  BY <1>4, <1>5, <1>6
<1> QED BY <1>4, <1>7, Zenon

\* Whole division keeps an order.
LEMMA DivMonotone ==
  ASSUME NEW a \in Nat, NEW b \in Nat, NEW c \in Nat \ {0}, a <= b
  PROVE  a \div c \in Nat /\ a \div c <= b \div c
<1>1. PICK q \in Nat, r \in 0 .. c - 1 : q = a \div c /\ a = q * c + r
  BY Quotient
<1>2. PICK p \in Nat, s \in 0 .. c - 1 : p = b \div c /\ b = p * c + s
  BY Quotient
<1>3. SUFFICES ASSUME p < q PROVE FALSE
  BY <1>1, <1>2
<1>4. c * (p + 1) <= c * q
  <2>1. p + 1 \in Int /\ q \in Int /\ p + 1 <= q /\ c \in Nat
    BY <1>3
  <2> QED BY <2>1, TimesMonotone, Zenon
<1>5. c * (p + 1) = p * c + c /\ c * q = q * c
  OBVIOUS
<1>6. PICK x \in Int, y \in Int : x = p * c /\ y = q * c
  OBVIOUS
<1> QED BY <1>1, <1>2, <1>4, <1>5, <1>6

\* A share of a whole.
LEMMA Portion ==
  ASSUME NEW d \in Nat, NEW c \in Nat \ {0}, NEW x \in 0 .. c
  PROVE  (d * x) \div c \in 0 .. d
<1>1. d * x <= d * c
  <2>1. x \in Int /\ c \in Int /\ x <= c
    OBVIOUS
  <2> QED BY <2>1, TimesMonotone, Zenon
<1>2. d * x \in Nat /\ d * c \in Nat /\ d * c = c * d /\ d \in Int
  OBVIOUS
<1>3. (d * x) \div c \in Nat /\ (d * x) \div c <= (d * c) \div c
  BY <1>1, <1>2, DivMonotone, Zenon
<1>4. (c * d) \div c = d
  BY <1>2, ExactDiv, Zenon
<1> QED BY <1>2, <1>3, <1>4

\* The times of the points of a reference are in order.
LEMMA TimesOrdered ==
  ASSUME NEW n \in Nat, n >= 3, NEW times, TimeBase(times, n)
  PROVE  /\ \A i \in 1 .. n : times[i] \in Nat
         /\ \A i, j \in 1 .. n : i <= j => times[i] <= times[j]
<1>1. times \in Seq(Int) /\ Len(times) = n /\ IsIncreasing(times) /\ times[1] = 0
  BY DEF TimeBase
<1>2. \A i \in 1 .. n : times[i] \in Int
  BY <1>1
<1>3. ASSUME NEW i \in 1 .. n, NEW j \in 1 .. n, i <= j PROVE times[i] <= times[j]
  <2>1. CASE i = j
    BY <1>2, <2>1
  <2>2. CASE i # j
    <3>1. i < j
      BY <1>3, <2>2
    <3>2. times[i] < times[j]
      BY <1>1, <3>1, IncreasesLater, Zenon
    <3> QED BY <1>2, <3>2
  <2> QED BY <2>1, <2>2
<1>4. ASSUME NEW i \in 1 .. n PROVE times[i] \in Nat
  <2>1. 1 \in 1 .. n /\ 1 <= i
    OBVIOUS
  <2>2. times[1] <= times[i]
    BY <1>3, <2>1
  <2> QED BY <1>1, <1>2, <2>2
<1> QED BY <1>3, <1>4

\* ... and so are their arc lengths.
LEMMA ArcsOrdered ==
  ASSUME NEW n \in Nat, n >= 3, NEW arcs, ArcBase(arcs, n)
  PROVE  /\ \A i \in 1 .. n : arcs[i] \in Int
         /\ \A i, j \in 1 .. n : i <= j => arcs[i] <= arcs[j]
<1>1. arcs \in [1 .. n -> Int] /\ \A i \in 1 .. n - 1 : arcs[i] <= arcs[i + 1]
  BY DEF ArcBase
<1>2. arcs \in Seq(Int) /\ Len(arcs) = n
  BY <1>1
<1>3. IsNotDecreasing(arcs)
  BY <1>1, <1>2, Zenon DEF IsNotDecreasing
<1>4. \A i, j \in 1 .. n : i <= j => arcs[i] <= arcs[j]
  BY <1>2, <1>3, DecreasesNever, Zenon
<1> QED BY <1>1, <1>4

\* The time at the ego is not in the extra time.
LEMMA NowInside ==
  ASSUME NEW n \in Nat, n >= 3, NEW arcs, ArcBase(arcs, n), NEW times, TimeBase(times, n),
         NEW ego \in Int
  PROVE  NearestTime(arcs, times, ego) \in 0 .. times[n - 1]
<1>1. PICK i \in 1 .. n - 2 : i = FirstNearest(arcs, ego)
  BY FirstNearestIs, Zenon
<1>2. Len(arcs) = n
  BY DEF ArcBase
<1>3. PICK prev \in 1 .. n - 2 :
        prev = IF i = 1 THEN 1
               ELSE IF i = n THEN n - 1
               ELSE IF arcs[i + 1] > arcs[i] /\ ego <= arcs[i] THEN i - 1 ELSE i
  OBVIOUS
<1>4. PICK next \in 1 .. n - 1 : next = prev + 1
  OBVIOUS
<1>5. PICK a \in Int, b \in Int : a = arcs[prev] /\ b = arcs[next] /\ a <= b
  <2>1. prev \in 1 .. n /\ next \in 1 .. n /\ prev <= next
    <3>1. prev \in 1 .. n
      OBVIOUS
    <3>2. next \in 1 .. n
      OBVIOUS
    <3>3. prev <= prev + 1
      OBVIOUS
    <3> QED BY <1>4, <3>1, <3>2, <3>3, Zenon
  <2>2. arcs[prev] \in Int /\ arcs[next] \in Int /\ arcs[prev] <= arcs[next]
    BY <2>1, ArcsOrdered, Zenon
  <2> QED BY <2>2, Zenon
<1>6. PICK s \in Nat, t \in Nat, u \in Nat :
        s = times[prev] /\ t = times[next] /\ u = times[n - 1] /\ s <= t /\ t <= u
  <2>1. prev \in 1 .. n /\ next \in 1 .. n /\ n - 1 \in 1 .. n /\ prev <= next /\ next <= n - 1
    BY <1>4
  <2>2. times[prev] \in Nat /\ times[next] \in Nat /\ times[n - 1] \in Nat
    BY <2>1, TimesOrdered, Zenon
  <2>3. times[prev] <= times[next] /\ times[next] <= times[n - 1]
    BY <2>1, TimesOrdered, Zenon
  <2> QED BY <2>2, <2>3, Zenon
<1>7. NearestTime(arcs, times, ego) =
        IF b - a = 0 THEN times[i]
        ELSE s + ((t - s) * Smaller(Larger(ego - a, 0), b - a)) \div (b - a)
  BY <1>1, <1>2, <1>3, <1>4, <1>5, <1>6, Zenon DEF NearestTime
<1>8. times[i] \in 0 .. u
  <2>1. i \in 1 .. n /\ n - 1 \in 1 .. n /\ i <= n - 1
    OBVIOUS
  <2>2. times[i] \in Nat /\ times[i] <= times[n - 1]
    BY <2>1, TimesOrdered, Zenon
  <2> QED BY <1>6, <2>2
<1>9. CASE b - a = 0
  BY <1>6, <1>7, <1>8, <1>9, Zenon
<1>10. CASE ~(b - a = 0)
  <2>1. PICK c \in Nat \ {0} : c = b - a
    BY <1>5, <1>10
  <2>2. PICK x \in 0 .. c : x = Smaller(Larger(ego - a, 0), c)
    BY DEF Smaller, Larger
  <2>3. PICK d \in Nat : d = t - s
    BY <1>6
  <2>4. PICK q \in 0 .. d : q = (d * x) \div c
    BY Portion, Zenon
  <2>5. NearestTime(arcs, times, ego) = s + q
    BY <1>7, <1>10, <2>1, <2>2, <2>3, <2>4, Zenon
  <2>6. s + q \in 0 .. u
    BY <1>6, <2>3
  <2> QED BY <1>6, <2>5, <2>6, Zenon
<1> QED BY <1>9, <1>10

\* Nor does the horizon reach into it for the sake of its length.
LEMMA SpanInside ==
  ASSUME NEW n \in Nat, n >= 3, NEW arcs, ArcBase(arcs, n), NEW times, TimeBase(times, n),
         NEW ego \in Int, NEW start \in Nat, NEW p, p.minLength \in Nat, p.dt \in Nat,
         p.horizon \in Nat, p.horizon >= 2, start + p.dt * (p.horizon - 1) <= times[n]
  PROVE  /\ PredictionSpan(arcs, times, ego, start, p) \in Nat
         /\ start + PredictionSpan(arcs, times, ego, start, p) <= times[n]
<1> DEFINE i0 == FirstNearest(arcs, ego)
           far == {i \in i0 + 1 .. Len(arcs) : arcs[i] - arcs[i0] > p.minLength}
           i1 == CHOOSE i \in far : \A j \in far : i <= j
           target ==
             IF far = {} THEN times[Len(arcs)] - kExtraTime
             ELSE times[i1 - 1]
                    + (((IF i1 = Len(arcs) THEN times[Len(arcs)] - kExtraTime ELSE times[i1])
                          - times[i1 - 1]) * (p.minLength - (arcs[i1 - 1] - arcs[i0])))
                        \div (arcs[i1] - arcs[i1 - 1])
<1>3. PredictionSpan(arcs, times, ego, start, p) = Larger(target - start, p.dt * (p.horizon - 1))
  BY Zenon DEF PredictionSpan
<1>1. i0 \in 1 .. n - 2
  BY FirstNearestIs, Zenon
<1>2. Len(arcs) = n
  BY DEF ArcBase
<1> HIDE DEF i0
<1>4. PICK end \in Nat, most \in Nat : end = times[n] - kExtraTime /\ end = times[n - 1]
                                       /\ most = times[n] /\ end <= most
  <2>1. n \in 1 .. n /\ n - 1 \in 1 .. n
    OBVIOUS
  <2>2. times[n] \in Nat /\ times[n - 1] \in Nat
    BY <2>1, TimesOrdered, Zenon
  <2>3. times[n] = times[n - 1] + kExtraTime
    BY DEF TimeBase
  <2> QED BY <2>2, <2>3 DEF kExtraTime
<1>5. far # {} => i1 \in far /\ \A j \in far : i1 <= j
  <2>1. SUFFICES ASSUME far # {} PROVE i1 \in far /\ \A j \in far : i1 <= j
    OBVIOUS
  <2>2. far \subseteq Nat
    BY <1>1, <1>2
  <2> HIDE DEF far
  <2>3. \E x \in far : \A j \in far : x <= j
    BY <2>1, <2>2, LeastNat, Zenon
  <2> QED BY <2>3, Zenon
<1>6. PICK m : m = i1
  OBVIOUS
<1> HIDE DEF i1, target
<1>7. target \in Int /\ target <= end
  <2>1. CASE far = {}
    <3>1. target = end
      BY <1>2, <1>4, <2>1, Zenon DEF target
    <3> QED BY <3>1
  <2>2. CASE far # {}
    <3>1. m \in i0 + 1 .. n /\ arcs[m] - arcs[i0] > p.minLength
      BY <1>2, <1>5, <1>6, <2>2
    <3>2. m \in 1 .. n /\ m - 1 \in 1 .. n /\ i0 \in 1 .. n /\ i0 <= m - 1 /\ m - 1 <= m
      BY <1>1, <3>1
    <3>3. PICK a \in Int, b \in Int, c \in Int :
            a = arcs[i0] /\ b = arcs[m - 1] /\ c = arcs[m] /\ a <= b /\ b <= c
      <4>1. arcs[i0] \in Int /\ arcs[m - 1] \in Int /\ arcs[m] \in Int
        BY <3>2, ArcsOrdered, Zenon
      <4>2. arcs[i0] <= arcs[m - 1] /\ arcs[m - 1] <= arcs[m]
        BY <3>2, ArcsOrdered, Zenon
      <4> QED BY <4>1, <4>2, Zenon
    <3>4. b - a <= p.minLength
      <4>1. CASE m - 1 = i0
        <5>1. b = a
          BY <3>3, <4>1, Zenon
        <5> QED BY <5>1
      <4>2. CASE m - 1 # i0
        <5>1. m - 1 \in i0 + 1 .. n /\ ~(m <= m - 1)
          BY <3>1, <3>2, <4>2
        <5>2. m - 1 \notin far
          BY <1>5, <1>6, <2>2, <5>1, Zenon
        <5>3. ~(arcs[m - 1] - arcs[i0] > p.minLength)
          BY <1>2, <5>1, <5>2
        <5> QED BY <3>3, <5>3
      <4> QED BY <4>1, <4>2
    <3>5. PICK w \in Nat \ {0}, x \in Int : w = c - b /\ x = p.minLength - (b - a) /\ x \in 0 .. w
      <4>1. PICK l \in Nat : l = p.minLength
        OBVIOUS
      <4>2. c - a > l /\ b - a <= l
        BY <3>1, <3>3, <3>4, <4>1, Zenon
      <4>3. c - b \in Nat \ {0} /\ l - (b - a) \in Int /\ l - (b - a) \in 0 .. c - b
        BY <3>3, <4>2
      <4> QED BY <4>1, <4>3, Zenon
    <3>6. PICK s \in Nat, t \in Nat : s = times[m - 1] /\ t = (IF m = n THEN end ELSE times[m]) /\ s <= t /\ t <= end
      <4>1. CASE m = n
        <5>1. times[m - 1] = end /\ (IF m = n THEN end ELSE times[m]) = end
          BY <1>4, <4>1, Zenon
        <5>2. end <= end
          OBVIOUS
        <5> QED BY <5>1, <5>2, Zenon
      <4>2. CASE m # n
        <5>1. n - 1 \in 1 .. n /\ m <= n - 1
          BY <3>2, <4>2
        <5>2. /\ times[m - 1] \in Nat /\ times[m] \in Nat
              /\ times[m - 1] <= times[m] /\ times[m] <= times[n - 1]
          BY <3>2, <5>1, TimesOrdered, Zenon
        <5>3. (IF m = n THEN end ELSE times[m]) = times[m]
          BY <4>2
        <5> QED BY <1>4, <5>2, <5>3, Zenon
      <4> QED BY <4>1, <4>2
    <3>7. PICK d \in Nat : d = t - s
      BY <3>6
    <3>8. PICK q \in 0 .. d : q = (d * x) \div w
      BY <3>5, Portion, Zenon
    <3>9. target = s + q
      <4> HIDE DEF far
      <4>1. target = times[m - 1]
                       + (((IF m = n THEN end ELSE times[m]) - times[m - 1])
                            * (p.minLength - (arcs[m - 1] - arcs[i0])))
                           \div (arcs[m] - arcs[m - 1])
        BY <1>2, <1>4, <1>6, <2>2, Zenon DEF target
      <4> QED BY <3>3, <3>5, <3>6, <3>7, <3>8, <4>1, Zenon
    <3>10. s + q \in Int /\ s + q <= end
      BY <3>6, <3>7
    <3> QED BY <3>9, <3>10, Zenon
  <2> QED BY <2>1, <2>2
<1>8. PICK g \in Int : g = target /\ g <= end
  BY <1>7, Zenon
<1>9. PICK h \in Nat : h = p.dt * (p.horizon - 1)
  <2>1. p.horizon - 1 \in Nat
    OBVIOUS
  <2> QED BY <2>1
<1>10. PredictionSpan(arcs, times, ego, start, p) = Larger(g - start, h)
  BY <1>3, <1>8, <1>9, Zenon
<1>11. start + h <= most
  BY <1>4, <1>9
<1>12. Larger(g - start, h) \in Nat /\ start + Larger(g - start, h) <= most
  <2> QED BY <1>4, <1>8, <1>11 DEF Larger
<1> QED BY <1>4, <1>10, <1>12, Zenon

\* m keys, never backwards, from lo to hi.
RunsFromTo(s, m, lo, hi) ==
  s \in Seq(Int) /\ Len(s) = m /\ IsNotDecreasing(s) /\ s[1] = lo /\ s[m] = hi

\* The keys of the horizon.
LEMMA PredictKeysRun ==
  ASSUME NEW start \in Nat, NEW span \in Nat, NEW p, p.horizon \in Nat, p.horizon >= 2
  PROVE  RunsFromTo(PredictKeys(start, span, p), p.horizon, start, start + span)
<1>1. PICK h \in Nat, c \in Nat \ {0} : h = p.horizon /\ c = h - 1 /\ c = p.horizon - 1
  BY p.horizon - 1 \in Nat \ {0}
<1>2. PICK keys : keys = PredictKeys(start, span, p)
  OBVIOUS
<1>3. keys = [j \in 1 .. h |-> start + (span * (j - 1)) \div c]
  BY <1>1, <1>2, Zenon DEF PredictKeys
<1>4. ASSUME NEW j \in 1 .. h PROVE (span * (j - 1)) \div c \in Nat
  <2>1. span * (j - 1) \in Nat
    <3>1. j - 1 \in Nat
      OBVIOUS
    <3> QED BY <3>1
  <2> QED BY <2>1, DivMonotone
<1>5. /\ keys \in Seq(Int) /\ Len(keys) = h
      /\ \A j \in 1 .. h : keys[j] = start + (span * (j - 1)) \div c
  <2>1. \A j \in 1 .. h : start + (span * (j - 1)) \div c \in Int
    BY <1>4
  <2> QED BY <1>3, <2>1
<1>6. ASSUME NEW j \in 1 .. h - 1 PROVE keys[j] <= keys[j + 1]
  <2>1. j \in 1 .. h /\ j + 1 \in 1 .. h /\ (j + 1) - 1 = j
    OBVIOUS
  <2>2. PICK x \in Nat, y \in Nat : x = span * (j - 1) /\ y = span * j /\ x <= y
    <3>1. j - 1 \in Nat /\ j \in Nat /\ j - 1 \in Int /\ j \in Int /\ j - 1 <= j
      OBVIOUS
    <3>2. span * (j - 1) <= span * j
      BY <3>1, TimesMonotone, Zenon
    <3>3. span * (j - 1) \in Nat /\ span * j \in Nat
      BY <3>1
    <3> QED BY <3>2, <3>3, Zenon
  <2>3. PICK a \in Nat, b \in Nat : a = x \div c /\ b = y \div c /\ a <= b
    <3>1. x \div c \in Nat /\ x \div c <= y \div c
      BY <2>2, DivMonotone, Zenon
    <3>2. y <= y
      OBVIOUS
    <3>3. y \div c \in Nat
      BY <3>2, DivMonotone, Zenon
    <3> QED BY <3>1, <3>3, Zenon
  <2>4. keys[j] = start + a /\ keys[j + 1] = start + b
    BY <1>5, <2>1, <2>2, <2>3, Zenon
  <2> QED BY <2>3, <2>4
<1>7. keys[1] = start
  <2>1. 1 \in 1 .. h /\ span * (1 - 1) = 0 /\ start + 0 = start
    BY <1>1
  <2>2. keys[1] = start + 0 \div c
    BY <1>5, <2>1, Zenon
  <2>3. 0 \div c = 0
    OBVIOUS
  <2> QED BY <2>1, <2>2, <2>3, Zenon
<1>8. keys[h] = start + span
  <2>1. h \in 1 .. h
    BY <1>1
  <2>2. span * (h - 1) = c * span /\ span \in Int
    BY <1>1
  <2>3. (c * span) \div c = span
    BY <2>2, ExactDiv, Zenon
  <2>4. keys[h] = start + (span * (h - 1)) \div c
    BY <1>5, <2>1, Zenon
  <2> QED BY <2>2, <2>3, <2>4, Zenon
<1>9. IsNotDecreasing(keys)
  BY <1>5, <1>6, Zenon DEF IsNotDecreasing
<1> QED BY <1>1, <1>2, <1>5, <1>7, <1>8, <1>9, Zenon DEF RunsFromTo

\* Every interpolation of a cycle stays inside the reference.
CycleParameters(p) ==
  /\ p.horizon \in Nat /\ p.horizon >= 2 /\ p.dt \in Nat /\ p.buffer \in Nat
  /\ p.period \in Nat /\ p.minLength \in Nat
  /\ p.buffer * p.period + p.dt * (p.horizon - 1) <= kExtraTime

\* mpc.cpp: no query of a control cycle is outside the keys it interpolates.
LEMMA CycleAlwaysInside ==
  ASSUME NEW steps \in Seq(Nat), NEW vx \in Seq(Int), Len(vx) > Len(steps), NEW ego \in Int,
         NEW p, CycleParameters(p)
  PROVE  CycleStaysInside(CycleKeys(steps, vx, ego, p))
<1>1. PICK n \in Nat : n = Len(steps) + 3 /\ n >= 3
  <2>1. Len(steps) \in Nat
    OBVIOUS
  <2> QED BY <2>1
<1>2. PICK arcs : arcs = PathArcs(ReferenceSteps(steps)) /\ ArcBase(arcs, n)
  BY <1>1, ReferenceArcsRun, Len(steps) \in Nat, Zenon
<1>3. PICK times : times = ReferenceTimes(steps, vx) /\ TimeBase(times, n)
  BY <1>1, ReferenceTimesRun, Len(steps) \in Nat, Zenon
<1>4. PICK now : now = NearestTime(arcs, times, ego) /\ now \in 0 .. times[n - 1]
  BY <1>1, <1>2, <1>3, NowInside, Zenon
<1>5. PICK t \in Nat, most \in Nat : t = times[n - 1] /\ most = times[n] /\ most = t + kExtraTime
  <2>1. n \in 1 .. n /\ n - 1 \in 1 .. n
    BY <1>1
  <2>2. times[n] \in Nat /\ times[n - 1] \in Nat
    BY <1>1, <1>3, <2>1, TimesOrdered, Zenon
  <2>3. times[n] = times[n - 1] + kExtraTime
    BY <1>3, Zenon DEF TimeBase
  <2> QED BY <2>2, <2>3, Zenon
<1>6. PICK d \in Nat, h \in Nat : /\ d = p.buffer * p.period /\ h = p.dt * (p.horizon - 1)
                                  /\ d + h <= kExtraTime
  <2>1. p.horizon - 1 \in Nat
    BY DEF CycleParameters
  <2>2. p.buffer * p.period \in Nat /\ p.dt * (p.horizon - 1) \in Nat
    <3>1. p.dt \in Nat /\ p.buffer \in Nat /\ p.period \in Nat
      BY Zenon DEF CycleParameters
    <3>2. \A x, y \in Nat : x * y \in Nat
      OBVIOUS
    <3> QED BY <2>1, <3>1, <3>2, Zenon
  <2> QED BY <2>2, Zenon DEF CycleParameters
<1>7. PICK start \in Nat : start = now + d /\ start + h <= most
  <2>1. now \in Nat /\ now <= t
    <3>1. now \in 0 .. t
      BY <1>4, <1>5, Zenon
    <3> QED BY <3>1
  <2>2. d + h <= kExtraTime /\ most = t + kExtraTime
    BY <1>5, <1>6, Zenon
  <2>3. now + d \in Nat /\ (now + d) + h <= most
    BY <2>1, <2>2 DEF kExtraTime
  <2> QED BY <2>3, Zenon
<1>8. PICK span \in Nat : span = PredictionSpan(arcs, times, ego, start, p) /\ start + span <= most
  <2>1. start + p.dt * (p.horizon - 1) <= times[n]
    BY <1>5, <1>6, <1>7, Zenon
  <2>2. p.minLength \in Nat /\ p.dt \in Nat /\ p.horizon \in Nat /\ p.horizon >= 2
    BY Zenon DEF CycleParameters
  <2>3. /\ PredictionSpan(arcs, times, ego, start, p) \in Nat
        /\ start + PredictionSpan(arcs, times, ego, start, p) <= times[n]
    BY <1>1, <1>2, <1>3, <2>1, <2>2, SpanInside, Zenon
  <2> QED BY <1>5, <2>3, Zenon
<1>9. PICK out : out = CycleKeys(steps, vx, ego, p)
  OBVIOUS
<1>10. /\ out.times = times /\ out.delay = DelayKeys(now, p)
       /\ out.predict = PredictKeys(start, span, p)
  BY <1>2, <1>3, <1>4, <1>6, <1>7, <1>8, <1>9 DEF CycleKeys
<1>11. times \in Seq(Int) /\ Len(times) = n /\ IsIncreasing(times) /\ times[1] = 0
  BY <1>3, Zenon DEF TimeBase
<1>12. KeysAccepted(times, PredictKeys(start, span, p))
  <2>1. PICK keys : keys = PredictKeys(start, span, p)
    OBVIOUS
  <2>2. /\ Len(keys) = p.horizon /\ IsNotDecreasing(keys)
        /\ keys[1] = start /\ keys[p.horizon] = start + span
    <3>1. p.horizon \in Nat /\ p.horizon >= 2
      BY Zenon DEF CycleParameters
    <3>2. RunsFromTo(keys, p.horizon, start, start + span)
      BY <2>1, <3>1, PredictKeysRun, Zenon
    <3> QED BY <3>2, Zenon DEF RunsFromTo
  <2>3. /\ p.horizon >= 1 /\ n >= 2 /\ start >= 0 - kKeyTolerance
        /\ start + span <= most + kKeyTolerance
    <3>1. p.horizon \in Nat /\ p.horizon >= 2 /\ start + span <= most
      BY <1>8, Zenon DEF CycleParameters
    <3> QED BY <1>1, <3>1 DEF kKeyTolerance
  <2> QED BY <1>5, <1>11, <2>1, <2>2, <2>3, Zenon DEF KeysAccepted
<1>13. ASSUME NEW j \in 1 .. p.buffer
       PROVE  KeysAccepted(times, <<now + (j - 1) * p.period>>)
  <2>1. PICK x \in Nat : x = (j - 1) * p.period /\ x <= d
    <3>1. PICK b \in Nat, r \in Nat : b = p.buffer /\ r = p.period
      BY Zenon DEF CycleParameters
    <3>2. PICK i \in Nat : i = j - 1 /\ i \in Int /\ b \in Int /\ i <= b
      BY <3>1
    <3>3. r * i <= r * b
      BY <3>2, TimesMonotone, Zenon
    <3>4. r * i = i * r /\ i * r \in Nat /\ r * b = b * r
      OBVIOUS
    <3> QED BY <1>6, <3>1, <3>2, <3>3, <3>4, Zenon
  <2>2. PICK key \in Nat : key = now + x /\ key <= most
    <3>1. now \in Nat
      <4>1. now \in 0 .. t
        BY <1>4, <1>5, Zenon
      <4> QED BY <4>1
    <3>2. now + x \in Nat /\ now + x <= most
      BY <1>7, <2>1, <3>1
    <3> QED BY <3>2, Zenon
  <2>3. Len(<<key>>) = 1 /\ <<key>>[1] = key
    OBVIOUS
  <2>4. IsNotDecreasing(<<key>>)
    BY <2>3 DEF IsNotDecreasing
  <2>5. 1 >= 1 /\ n >= 2 /\ key >= 0 - kKeyTolerance /\ key <= most + kKeyTolerance
    BY <1>1, <2>2 DEF kKeyTolerance
  <2>6. KeysAccepted(times, <<key>>)
    BY <1>5, <1>11, <2>3, <2>4, <2>5, Zenon DEF KeysAccepted
  <2> QED BY <2>1, <2>2, <2>6, Zenon
<1>14. \A j \in DOMAIN out.delay : KeysAccepted(times, <<out.delay[j]>>)
  <2>1. out.delay = [j \in 1 .. p.buffer |-> now + (j - 1) * p.period]
    BY <1>10, Zenon DEF DelayKeys
  <2>2. /\ DOMAIN out.delay = 1 .. p.buffer
        /\ \A j \in 1 .. p.buffer : out.delay[j] = now + (j - 1) * p.period
    BY <2>1, Zenon
  <2> QED BY <1>13, <2>2, Zenon
<1> QED BY <1>9, <1>10, <1>11, <1>12, <1>14, Zenon DEF CycleStaysInside

-----------------------------------------------------------------------------
(* The history of the steering predictor.                                  *)

\* After k commands the oldest d are dropped; the one after them was in force
\* before the window.
Dropped(kept, calls, k, d, delay, store) ==
  /\ kept \in Seq(Int) /\ Len(kept) = k - d /\ d <= k
  /\ \A i \in 1 .. k - d : kept[i] = calls[d + i] + delay
  /\ d > 0 => d < k /\ calls[d + 1] + delay < calls[k] - store

\* steering_predictor.cpp, storeSteerCmd: one call drops one command at most,
\* and that only when the next was in force before the window.
LEMMA DropStep ==
  ASSUME NEW calls \in Seq(Int), IsIncreasing(calls), NEW delay \in Nat, NEW store \in Nat,
         NEW k \in Nat, k + 1 <= Len(calls), NEW kept, NEW d \in Nat,
         Dropped(kept, calls, k, d, delay, store)
  PROVE  \E e \in Nat :
           Dropped(StoreSteerCmd(kept, calls[k + 1], delay, store), calls, k + 1, e, delay, store)
<1>1. /\ kept \in Seq(Int) /\ Len(kept) = k - d /\ d <= k
      /\ \A i \in 1 .. k - d : kept[i] = calls[d + i] + delay
  BY Zenon DEF Dropped
<1>2. PICK now \in Int : now = calls[k + 1] /\ (d > 0 => calls[k] < now)
  <2>1. k + 1 \in 1 .. Len(calls)
    OBVIOUS
  <2>2. calls[k + 1] \in Int
    BY <2>1
  <2>3. ASSUME d > 0 PROVE calls[k] < calls[k + 1]
    <3>1. k \in 1 .. Len(calls) /\ k < k + 1
      BY <1>1, <2>3
    <3> QED BY <2>1, <3>1, IncreasesLater, Zenon
  <2> QED BY <2>2, <2>3, Zenon
<1>3. PICK stamp \in Int : stamp = now + delay
  OBVIOUS
<1>4. PICK m \in Nat \ {0} : m = (k - d) + 1
  BY <1>1
<1>5. PICK all \in Seq(Int) : /\ all = Append(kept, stamp) /\ Len(all) = m
                              /\ \A i \in 1 .. k - d : all[i] = kept[i]
                              /\ all[m] = stamp
  <2>1. /\ Append(kept, stamp) \in Seq(Int) /\ Len(Append(kept, stamp)) = (k - d) + 1
        /\ Append(kept, stamp)[(k - d) + 1] = stamp
    BY <1>1
  <2>2. \A i \in 1 .. k - d : Append(kept, stamp)[i] = kept[i]
    BY <1>1
  <2> QED BY <1>4, <2>1, <2>2, Zenon
<1>6. ASSUME NEW i \in 1 .. m PROVE all[i] = calls[d + i] + delay
  <2>1. CASE i = m
    <3>1. d + i = k + 1
      BY <1>1, <1>4, <2>1
    <3> QED BY <1>2, <1>3, <1>5, <2>1, <3>1, Zenon
  <2>2. CASE i # m
    <3>1. i \in 1 .. k - d
      BY <1>1, <1>4, <2>2
    <3> QED BY <1>1, <1>5, <3>1, Zenon
  <2> QED BY <2>1, <2>2
<1>7. StoreSteerCmd(kept, now, delay, store) =
        IF m > 2 /\ now + delay - all[2] > delay + store THEN Tail(all) ELSE all
  BY <1>3, <1>5, Zenon DEF StoreSteerCmd
<1>8. CASE m > 2 /\ now + delay - all[2] > delay + store
  <2>1. PICK e \in Nat : e = d + 1 /\ (k + 1) - e = m - 1 /\ e <= k + 1 /\ e < k + 1
    BY <1>1, <1>4, <1>8
  <2>2. Tail(all) \in Seq(Int) /\ Len(Tail(all)) = m - 1
        /\ \A i \in 1 .. m - 1 : Tail(all)[i] = all[i + 1]
    <3>1. all # <<>>
      BY <1>5
    <3>2. Tail(all) \in Seq(Int) /\ Len(Tail(all)) = Len(all) - 1
      BY <3>1
    <3>3. \A i \in 1 .. Len(all) - 1 : Tail(all)[i] = all[i + 1]
      BY <3>1
    <3> QED BY <1>5, <3>2, <3>3, Zenon
  <2>3. ASSUME NEW i \in 1 .. m - 1 PROVE Tail(all)[i] = calls[e + i] + delay
    <3>1. i + 1 \in 1 .. m /\ d + (i + 1) = e + i
      BY <2>1
    <3> QED BY <1>6, <2>2, <3>1, Zenon
  <2>4. calls[e + 1] + delay < calls[k + 1] - store
    <3>1. 2 \in 1 .. m /\ d + 2 = e + 1
      BY <1>8, <2>1
    <3>2. all[2] = calls[e + 1] + delay
      BY <1>6, <3>1, Zenon
    <3>3. all[2] \in Int
      BY <1>5, <3>1
    <3>4. all[2] < now - store
      BY <1>3, <1>8, <3>3
    <3> QED BY <1>2, <3>2, <3>4, Zenon
  <2>5. Dropped(Tail(all), calls, k + 1, e, delay, store)
    BY <2>1, <2>2, <2>3, <2>4, Zenon DEF Dropped
  <2> QED BY <1>2, <1>7, <1>8, <2>5, Zenon
<1>9. CASE ~(m > 2 /\ now + delay - all[2] > delay + store)
  <2>1. (k + 1) - d = m /\ d <= k + 1
    BY <1>1, <1>4
  <2>2. ASSUME d > 0 PROVE d < k + 1 /\ calls[d + 1] + delay < calls[k + 1] - store
    <3>1. d < k /\ calls[d + 1] + delay < calls[k] - store
      BY <2>2, Zenon DEF Dropped
    <3>2. d + 1 \in 1 .. Len(calls) /\ k \in 1 .. Len(calls)
      <4>1. Len(calls) \in Nat /\ d < k
        BY <3>1
      <4> QED BY <4>1
    <3>3. calls[d + 1] \in Int /\ calls[k] \in Int /\ calls[k] < now
      BY <1>2, <2>2, <3>2
    <3>4. calls[d + 1] + delay < now - store
      BY <3>1, <3>3
    <3>5. d < k + 1
      BY <3>1
    <3> QED BY <1>2, <3>4, <3>5, Zenon
  <2>3. Dropped(all, calls, k + 1, d, delay, store)
    BY <1>5, <1>6, <2>1, <2>2, Zenon DEF Dropped
  <2> QED BY <1>2, <1>7, <1>9, <2>3, Zenon
<1> QED BY <1>8, <1>9

\* A sequence with one more number.
LEMMA Appended ==
  ASSUME NEW x \in Seq(Int), NEW e \in Int
  PROVE  Append(x, e) \in Seq(Int) /\ Append(x, e) # <<>>
<1>1. Append(x, e) \in Seq(Int)
  OBVIOUS
<1>2. Len(Append(x, e)) = Len(x) + 1 /\ Len(x) \in Nat
  OBVIOUS
<1>3. Len(Append(x, e)) # 0
  BY <1>2
<1>4. Len(<<>>) = 0
  OBVIOUS
<1> QED BY <1>1, <1>3, <1>4, Zenon

\* What the calls leave is the commands without the first d of them.
LEMMA KeptIs ==
  ASSUME NEW a, NEW n \in Nat, a.calls \in Seq(Int), n = Len(a.calls), IsIncreasing(a.calls),
         a.delay \in Nat, a.store \in Nat
  PROVE  \E d \in Nat : Dropped(KeptAfter(a)[n], a.calls, n, d, a.delay, a.store)
<1> DEFINE step == [k \in 1 .. n |-> [x \in Seq(Int) |-> StoreSteerCmd(x, a.calls[k], a.delay, a.store)]]
           By(f) == f = [k \in 0 .. n |-> IF k = 0 THEN <<>>
                                   ELSE StoreSteerCmd(f[k - 1], a.calls[k], a.delay, a.store)]
<1>1. ASSUME NEW k \in 1 .. n, NEW x \in Seq(Int)
      PROVE  StoreSteerCmd(x, a.calls[k], a.delay, a.store) \in Seq(Int)
  <2>1. PICK e \in Int : e = a.calls[k] + a.delay
    OBVIOUS
  <2>2. PICK all \in Seq(Int) : all = Append(x, e) /\ all # <<>>
    <3>1. Append(x, e) \in Seq(Int) /\ Append(x, e) # <<>>
      BY Appended, Zenon
    <3> QED BY <3>1, Zenon
  <2>3. Tail(all) \in Seq(Int)
    BY <2>2
  <2> QED BY <2>1, <2>2, <2>3, Zenon DEF StoreSteerCmd
<1>2. step \in [1 .. n -> [Seq(Int) -> Seq(Int)]]
  BY <1>1
<1>3. \A k \in 1 .. n : \A x \in Seq(Int) :
        step[k][x] = StoreSteerCmd(x, a.calls[k], a.delay, a.store)
  OBVIOUS
<1> HIDE DEF step
<1>4. PICK h \in [0 .. n -> Seq(Int)] : Iterates(h, n, <<>>, step)
  <2>1. <<>> \in Seq(Int)
    OBVIOUS
  <2> QED BY <1>2, <2>1, Recursion, Zenon
<1>5. By(h)
  <2>1. ASSUME NEW k \in 0 .. n
        PROVE  (IF k = 0 THEN <<>> ELSE step[k][h[k - 1]]) =
               (IF k = 0 THEN <<>> ELSE StoreSteerCmd(h[k - 1], a.calls[k], a.delay, a.store))
    <3>1. CASE k = 0
      BY <3>1
    <3>2. CASE k # 0
      <4>1. k \in 1 .. n /\ k - 1 \in 0 .. n
        BY <3>2
      <4>2. h[k - 1] \in Seq(Int)
        BY <1>4, <4>1
      <4> QED BY <1>3, <4>1, <4>2, Zenon
    <3> QED BY <3>1, <3>2
  <2>2. h = [k \in 0 .. n |-> IF k = 0 THEN <<>> ELSE step[k][h[k - 1]]]
    BY <1>4, Zenon DEF Iterates
  <2>3. [k \in 0 .. n |-> IF k = 0 THEN <<>> ELSE step[k][h[k - 1]]]
          = [k \in 0 .. n |-> IF k = 0 THEN <<>>
                              ELSE StoreSteerCmd(h[k - 1], a.calls[k], a.delay, a.store)]
    BY <2>1, Zenon
  <2> QED BY <2>2, <2>3, Zenon
<1>6. PICK f : f = KeptAfter(a) /\ By(f)
  <2>1. \E f : By(f)
    BY <1>5, Zenon
  <2> QED BY <2>1, Zenon DEF KeptAfter
<1>7. f[0] = <<>> /\ \A k \in 1 .. n : f[k] = StoreSteerCmd(f[k - 1], a.calls[k], a.delay, a.store)
  <2>1. f[0] = <<>>
    BY <1>6
  <2>2. ASSUME NEW k \in 1 .. n
        PROVE  f[k] = StoreSteerCmd(f[k - 1], a.calls[k], a.delay, a.store)
    <3>1. k \in 0 .. n /\ k # 0
      OBVIOUS
    <3> QED BY <1>6, <3>1, Zenon
  <2> QED BY <2>1, <2>2
<1> HIDE DEF By
<1> DEFINE S == {k \in Nat : \E d \in Nat : Dropped(f[k], a.calls, k, d, a.delay, a.store)}
<1>8. 0 \in S
  <2>1. /\ <<>> \in Seq(Int) /\ Len(<<>>) = 0 - 0 /\ 0 <= 0 /\ ~(0 > 0) /\ 1 .. 0 - 0 = {}
    OBVIOUS
  <2>2. Dropped(f[0], a.calls, 0, 0, a.delay, a.store)
    BY <1>7, <2>1, Zenon DEF Dropped
  <2> QED BY <2>2
<1>9. ASSUME NEW k \in 0 .. n - 1, k \in S PROVE k + 1 \in S
  <2>1. k \in Nat /\ k + 1 \in Nat /\ k + 1 \in 1 .. n /\ (k + 1) - 1 = k /\ k + 1 <= Len(a.calls)
    OBVIOUS
  <2>2. PICK d \in Nat : Dropped(f[k], a.calls, k, d, a.delay, a.store)
    BY <1>9
  <2>3. f[k + 1] = StoreSteerCmd(f[k], a.calls[k + 1], a.delay, a.store)
    BY <1>7, <2>1, Zenon
  <2>4. \E e \in Nat : Dropped(f[k + 1], a.calls, k + 1, e, a.delay, a.store)
    <3>1. \E c \in Nat : Dropped(StoreSteerCmd(f[k], a.calls[k + 1], a.delay, a.store),
                                 a.calls, k + 1, c, a.delay, a.store)
      BY <2>1, <2>2, DropStep, Zenon
    <3> QED BY <2>3, <3>1, Zenon
  <2> QED BY <2>1, <2>4
<1> HIDE DEF S
<1>10. n \in S
  <2>1. n \in 0 .. n
    OBVIOUS
  <2> QED BY <1>8, <1>9, <2>1, InductionTo, Zenon
<1> QED BY <1>6, <1>10, Zenon DEF S

\* What is left is in the order of time.
LEMMA KeptIncreases ==
  ASSUME NEW calls \in Seq(Int), IsIncreasing(calls), NEW delay \in Nat, NEW store \in Nat,
         NEW k \in Nat, k <= Len(calls), NEW kept, NEW d \in Nat,
         Dropped(kept, calls, k, d, delay, store)
  PROVE  kept \in Seq(Int) /\ IsIncreasing(kept)
<1>1. /\ kept \in Seq(Int) /\ Len(kept) = k - d /\ d <= k
      /\ \A i \in 1 .. k - d : kept[i] = calls[d + i] + delay
  BY Zenon DEF Dropped
<1>2. ASSUME NEW i \in 1 .. Len(kept) - 1 PROVE kept[i] < kept[i + 1]
  <2>1. /\ i \in 1 .. k - d /\ i + 1 \in 1 .. k - d
        /\ d + i \in 1 .. Len(calls) /\ d + (i + 1) \in 1 .. Len(calls) /\ d + i < d + (i + 1)
    BY <1>1
  <2>2. kept[i] = calls[d + i] + delay /\ kept[i + 1] = calls[d + (i + 1)] + delay
    BY <1>1, <2>1, Zenon
  <2>3. calls[d + i] < calls[d + (i + 1)]
    BY <2>1, IncreasesLater, Zenon
  <2>4. PICK x \in Int, y \in Int : x = calls[d + i] /\ y = calls[d + (i + 1)]
    <3>1. \A j \in 1 .. Len(calls) : calls[j] \in Int
      OBVIOUS
    <3> QED BY <2>1, <3>1, Zenon
  <2>5. x < y
    BY <2>3, <2>4, Zenon
  <2>6. x + delay < y + delay
    BY <2>5
  <2> QED BY <2>2, <2>4, <2>6, Zenon
<1> QED BY <1>1, <1>2, Zenon DEF IsIncreasing

\* The maximum of a set with a greatest element.
LEMMA MaxIs ==
  ASSUME NEW S, S \subseteq Int, NEW m \in S, \A y \in S : m >= y
  PROVE  Max(S) = m
<1>1. Max(S) \in S /\ \A y \in S : Max(S) >= y
  BY Zenon DEF Max
<1>2. Max(S) >= m /\ m >= Max(S) /\ Max(S) \in Int
  BY <1>1
<1> QED BY <1>2

\* The pruned history names the command in force at every moment of the window.
LEMMA HistoryRemembers ==
  ASSUME NEW calls \in Seq(Int), IsIncreasing(calls), NEW delay \in Nat, NEW store \in Nat,
         NEW n \in Nat \ {0}, n = Len(calls), NEW kept, NEW d \in Nat,
         Dropped(kept, calls, n, d, delay, store)
  PROVE  PredictorRemembers([i \in DOMAIN calls |-> calls[i] + delay], kept, Last(calls), store)
<1>1. /\ kept \in Seq(Int) /\ Len(kept) = n - d /\ d <= n
      /\ \A i \in 1 .. n - d : kept[i] = calls[d + i] + delay
      /\ d > 0 => d < n /\ calls[d + 1] + delay < calls[n] - store
  BY Zenon DEF Dropped
<1>2. PICK stamps : stamps = [i \in DOMAIN calls |-> calls[i] + delay]
  OBVIOUS
<1>3. stamps \in Seq(Int) /\ Len(stamps) = n /\ DOMAIN stamps = 1 .. n
      /\ \A i \in 1 .. n : stamps[i] = calls[i] + delay
  <2>1. DOMAIN calls = 1 .. n /\ \A i \in 1 .. n : calls[i] \in Int
    OBVIOUS
  <2>2. stamps = [i \in 1 .. n |-> calls[i] + delay]
    BY <1>2, <2>1, Zenon
  <2>3. \A i \in 1 .. n : calls[i] + delay \in Int
    BY <2>1
  <2> QED BY <2>2, <2>3
<1>4. IsIncreasing(stamps)
  <2>1. ASSUME NEW i \in 1 .. Len(stamps) - 1 PROVE stamps[i] < stamps[i + 1]
    <3>1. i \in 1 .. n /\ i + 1 \in 1 .. n /\ i \in 1 .. Len(calls) - 1
      BY <1>3
    <3>2. calls[i] < calls[i + 1] /\ calls[i] \in Int /\ calls[i + 1] \in Int
      BY <3>1 DEF IsIncreasing
    <3>3. stamps[i] = calls[i] + delay /\ stamps[i + 1] = calls[i + 1] + delay
      BY <1>3, <3>1, Zenon
    <3> QED BY <3>2, <3>3
  <2> QED BY <2>1, Zenon DEF IsIncreasing
<1>5. DOMAIN kept = 1 .. n - d /\ \A i \in 1 .. n - d : d + i \in 1 .. n /\ kept[i] = stamps[d + i]
  <2>1. ASSUME NEW i \in 1 .. n - d PROVE d + i \in 1 .. n /\ kept[i] = stamps[d + i]
    <3>1. d + i \in 1 .. n
      BY <1>1
    <3> QED BY <1>1, <1>3, <3>1, Zenon
  <2>2. DOMAIN kept = 1 .. Len(kept)
    BY <1>1
  <2> QED BY <1>1, <2>1, <2>2, Zenon
<1>6. PICK now \in Int : now = Last(calls) /\ now = calls[n]
  <2>1. calls[n] \in Int
    OBVIOUS
  <2> QED BY <2>1, Zenon DEF Last
<1> DEFINE past(s, t) == {s[i] : i \in {j \in DOMAIN s : s[j] <= t}}
<1>7. ASSUME NEW t \in now - store .. now, past(stamps, t) # {}
      PROVE  past(kept, t) # {} /\ Max(past(kept, t)) = Max(past(stamps, t))
  <2>1. PICK m \in 0 .. n : /\ \A i \in 1 .. m : stamps[i] <= t
                            /\ \A j \in m + 1 .. n : ~(stamps[j] <= t)
    <3>1. 1 \in 1 .. Len(stamps) + 1 /\ t + 1 \in Int /\ 1 - 1 = 0
      BY <1>3
    <3>2. PICK m \in 0 .. n : /\ \A i \in 1 .. m : stamps[i] < t + 1
                              /\ \A i \in m + 1 .. n : stamps[i] >= t + 1
      BY <1>3, <1>4, <3>1, BelowIsPrefix, Zenon
    <3>3. \A i \in 1 .. n : stamps[i] \in Int
      BY <1>3
    <3>4. ASSUME NEW i \in 1 .. m PROVE stamps[i] <= t
      <4>1. i \in 1 .. n
        OBVIOUS
      <4> QED BY <3>2, <3>3, <4>1
    <3>5. ASSUME NEW i \in m + 1 .. n PROVE ~(stamps[i] <= t)
      <4>1. i \in 1 .. n
        OBVIOUS
      <4> QED BY <3>2, <3>3, <4>1
    <3> QED BY <3>4, <3>5
  <2>2. m >= 1
    BY <1>3, <1>7, <2>1
  <2>3. m >= d + 1
    <3>1. SUFFICES ASSUME ~(m >= d + 1) PROVE FALSE
      OBVIOUS
    <3>2. d > 0 /\ d + 1 \in m + 1 .. n /\ d + 1 \in 1 .. n
      BY <1>1, <2>2, <3>1
    <3>3. stamps[d + 1] = calls[d + 1] + delay /\ ~(stamps[d + 1] <= t)
      BY <1>3, <2>1, <3>2, Zenon
    <3>4. calls[d + 1] + delay < now - store /\ calls[d + 1] \in Int
      BY <1>1, <1>6, <3>2
    <3> QED BY <3>3, <3>4
  <2>4. PICK k \in 1 .. n - d : m = d + k /\ kept[k] = stamps[m]
    <3>1. m - d \in 1 .. n - d /\ m = d + (m - d)
      BY <2>3
    <3>2. kept[m - d] = stamps[m]
      BY <1>5, <3>1, Zenon
    <3> QED BY <3>1, <3>2
  <2>5. m \in 1 .. n /\ stamps[m] \in Int /\ stamps[m] <= t
    BY <1>3, <2>1, <2>2
  <2>6. ASSUME NEW i \in 1 .. n, stamps[i] <= t PROVE stamps[i] \in Int /\ stamps[m] >= stamps[i]
    <3>1. i <= m
      BY <2>1, <2>6
    <3>2. i = m \/ stamps[i] < stamps[m]
      <4>1. i = m \/ i < m
        BY <3>1
      <4> QED BY <1>3, <1>4, <2>5, <4>1, IncreasesLater, Zenon
    <3>3. stamps[i] \in Int
      BY <1>3
    <3> QED BY <2>5, <3>2, <3>3
  <2>7. Max(past(stamps, t)) = stamps[m]
    <3>1. stamps[m] \in past(stamps, t)
      BY <1>3, <2>5
    <3>2. past(stamps, t) \subseteq Int /\ \A y \in past(stamps, t) : stamps[m] >= y
      BY <1>3, <2>6
    <3> HIDE DEF past
    <3> QED BY <3>1, <3>2, MaxIs, Zenon
  <2>8. stamps[m] \in past(kept, t) /\ Max(past(kept, t)) = stamps[m]
    <3>1. stamps[m] \in past(kept, t)
      BY <1>5, <2>4, <2>5
    <3>2. past(kept, t) \subseteq past(stamps, t)
      BY <1>3, <1>5
    <3>3. past(kept, t) \subseteq Int /\ \A y \in past(kept, t) : stamps[m] >= y
      BY <1>3, <2>6, <3>2
    <3> HIDE DEF past
    <3> QED BY <3>1, <3>3, MaxIs, Zenon
  <2> HIDE DEF past
  <2> QED BY <2>7, <2>8, Zenon
<1>8. PredictorRemembers(stamps, kept, now, store)
  BY <1>7, Zenon DEF PredictorRemembers
<1> QED BY <1>2, <1>6, <1>8, Zenon

\* The stretches follow one another from tStart to tEnd.
Chained(out, len, n, tStart, tEnd, e) ==
  /\ len \in Nat \ {0} /\ DOMAIN out = 1 .. len /\ Len(out) = len
  /\ e \in [0 .. len -> Int] /\ e[0] = tStart /\ e[len] = tEnd
  /\ \A k \in 1 .. len :
       /\ out[k].duration = e[k] - e[k - 1] /\ out[k].duration >= 0
       /\ out[k].cmd \in 1 .. n

\* Stretches that follow one another sum up to the interval.
LEMMA ChainedPartition ==
  ASSUME NEW a, NEW out, NEW len \in Nat \ {0}, NEW e, NEW n \in Nat, n = Len(a.stamps),
         a.tStart \in Int, a.tEnd \in Int, Chained(out, len, n, a.tStart, a.tEnd, e)
  PROVE  StretchesPartition(a, out)
<1>1. /\ DOMAIN out = 1 .. len /\ Len(out) = len
      /\ e \in [0 .. len -> Int] /\ e[0] = a.tStart /\ e[len] = a.tEnd
      /\ \A k \in 1 .. len :
           /\ out[k].duration = e[k] - e[k - 1] /\ out[k].duration >= 0
           /\ out[k].cmd \in 1 .. n
  BY Zenon DEF Chained
<1> DEFINE By(f) == f = [k \in 0 .. len |-> IF k = 0 THEN 0 ELSE f[k - 1] + out[k].duration]
<1>2. By([k \in 0 .. len |-> e[k] - e[0]])
  <2> DEFINE h == [k \in 0 .. len |-> e[k] - e[0]]
  <2>1. ASSUME NEW k \in 0 .. len
        PROVE  e[k] - e[0] = IF k = 0 THEN 0 ELSE h[k - 1] + out[k].duration
    <3>1. e[0] \in Int /\ e[k] \in Int
      BY <1>1
    <3>2. CASE k = 0
      BY <3>1, <3>2
    <3>3. CASE k # 0
      <4>1. k \in 1 .. len /\ k - 1 \in 0 .. len
        BY <3>3
      <4>2. e[k - 1] \in Int /\ h[k - 1] = e[k - 1] - e[0]
        BY <1>1, <4>1
      <4>3. out[k].duration = e[k] - e[k - 1]
        BY <1>1, <4>1, Zenon
      <4> QED BY <3>1, <3>3, <4>2, <4>3
    <3> QED BY <3>2, <3>3
  <2>2. h = [k \in 0 .. len |-> IF k = 0 THEN 0 ELSE h[k - 1] + out[k].duration]
    BY <2>1, Zenon
  <2> QED BY <2>2, Zenon
<1> DEFINE sum == CHOOSE f : By(f)
<1>3. By(sum)
  <2> HIDE DEF By
  <2> QED BY <1>2, Zenon
<1>4. PICK f : f = sum /\ By(f)
  BY <1>3, Zenon
<1> HIDE DEF sum
<1> DEFINE S == {k \in 0 .. len : f[k] = e[k] - e[0]}
<1>5. 0 \in S
  BY <1>1, <1>4
<1>6. ASSUME NEW k \in 0 .. len - 1, k \in S PROVE k + 1 \in S
  <2>1. k \in 0 .. len /\ k + 1 \in 0 .. len /\ k + 1 \in 1 .. len /\ (k + 1) - 1 = k /\ k + 1 # 0
    OBVIOUS
  <2>2. f[k + 1] = f[k] + out[k + 1].duration
    BY <1>4, <2>1
  <2>3. out[k + 1].duration = e[k + 1] - e[k]
    BY <1>1, <2>1, Zenon
  <2>4. e[k + 1] \in Int /\ e[k] \in Int /\ e[0] \in Int
    BY <1>1, <2>1
  <2>5. f[k] = e[k] - e[0]
    BY <1>6
  <2>6. f[k + 1] = e[k + 1] - e[0]
    BY <2>2, <2>3, <2>4, <2>5
  <2> QED BY <2>1, <2>6
<1> HIDE DEF S
<1>7. f[len] = a.tEnd - a.tStart
  <2>1. len \in 0 .. len
    OBVIOUS
  <2>2. len \in S
    BY <1>5, <1>6, <2>1, InductionTo, Zenon
  <2> QED BY <1>1, <2>2, Zenon DEF S
<1>8. sum[Len(out)] = a.tEnd - a.tStart
  BY <1>1, <1>4, <1>7, Zenon
<1>9. \A k \in DOMAIN out : out[k].duration >= 0 /\ out[k].cmd \in 1 .. Len(a.stamps)
  BY <1>1, Zenon
<1>10. sum = CHOOSE g : g = [k \in 0 .. Len(out) |-> IF k = 0 THEN 0 ELSE g[k - 1] + out[k].duration]
  BY <1>1, Zenon DEF sum
<1> QED BY <1>8, <1>9, <1>10, Zenon DEF StretchesPartition

\* steering_predictor.cpp: the stretches of the response follow one another.
LEMMA StretchesChained ==
  ASSUME NEW stamps \in Seq(Int), IsIncreasing(stamps), NEW n \in Nat, n = Len(stamps),
         NEW tStart \in Int, NEW tEnd \in Int, tStart <= tEnd,
         SteerStretches(stamps, tStart, tEnd) # <<>>
  PROVE  \E len \in Nat \ {0} : \E e :
           Chained(SteerStretches(stamps, tStart, tEnd), len, n, tStart, tEnd, e)
<1> DEFINE after == {i \in 2 .. Len(stamps) : stamps[i] >= tStart}
           first == CHOOSE i \in after : \A j \in after : i <= j
           stops == {i \in first .. Len(stamps) : \A j \in first .. i : stamps[j] < tEnd}
           last == first + Cardinality(stops)
<1>1. \A i \in 1 .. n : stamps[i] \in Int
  OBVIOUS
<1>16. SteerStretches(stamps, tStart, tEnd) =
         IF Len(stamps) <= 2 \/ after = {} THEN <<>>
         ELSE [k \in 1 .. last - first + 1 |->
                LET i == first + k - 1
                    from == IF k = 1 THEN tStart ELSE stamps[i - 1]
                IN  [cmd |-> i - 1, duration |-> (IF i = last THEN tEnd ELSE stamps[i]) - from]]
  BY Zenon DEF SteerStretches
<1>2. ~(Len(stamps) <= 2 \/ after = {})
  <2> HIDE DEF after, first, last
  <2> QED BY <1>16, Zenon
<1>3. first \in after /\ \A j \in after : first <= j
  <2>1. after \subseteq Nat
    OBVIOUS
  <2> HIDE DEF after
  <2>2. \E x \in after : \A j \in after : x <= j
    BY <1>2, <2>1, LeastNat, Zenon
  <2> QED BY <2>2, Zenon
<1>4. PICK f : f = first
  OBVIOUS
<1>5. f \in 2 .. n /\ stamps[f] >= tStart /\ f \in Nat
  <2>1. f \in after
    BY <1>3, <1>4, Zenon
  <2> QED BY <2>1
<1>6. PICK m \in f - 1 .. n : /\ {i \in f .. n : stamps[i] < tEnd} = f .. m
                              /\ \A i \in f .. m : stamps[i] < tEnd
                              /\ \A i \in m + 1 .. n : stamps[i] >= tEnd
  <2>1. f \in 1 .. Len(stamps) + 1
    BY <1>5
  <2> QED BY <2>1, BelowIsPrefix, Zenon
<1>7. stops = f .. m
  <2>1. ASSUME NEW i \in f .. n, \A j \in f .. i : stamps[j] < tEnd PROVE i \in f .. m
    <3>1. i \in f .. i
      BY <1>5
    <3>2. stamps[i] < tEnd
      BY <2>1, <3>1, Zenon
    <3> QED BY <1>6, <2>1, <3>2, Zenon
  <2>2. ASSUME NEW i \in f .. m PROVE i \in f .. n /\ \A j \in f .. i : stamps[j] < tEnd
    <3>1. i \in f .. n /\ \A j \in f .. i : j \in f .. m
      BY <1>5, <1>6
    <3> QED BY <1>6, <3>1, Zenon
  <2>3. {i \in f .. n : \A j \in f .. i : stamps[j] < tEnd} = f .. m
    BY <2>1, <2>2, Zenon
  <2> HIDE DEF first
  <2> QED BY <1>4, <2>3
<1>8. PICK l \in Int : l = last /\ l = m + 1
  <2>1. Cardinality(f .. m) = IF f > m THEN 0 ELSE m - f + 1
    BY <1>5, <1>6, FS_Interval
  <2>2. f + Cardinality(f .. m) = m + 1
    BY <1>5, <1>6, <2>1
  <2>3. last = f + Cardinality(f .. m)
    BY <1>4, <1>7, Zenon
  <2>4. m + 1 \in Int
    BY <1>5
  <2> QED BY <2>2, <2>3, <2>4, Zenon
<1>9. PICK len \in Nat \ {0} : len = l - f + 1
  <2>1. l = m + 1 /\ m >= f - 1
    BY <1>6, <1>8
  <2>2. l - f + 1 \in Nat \ {0}
    BY <1>5, <2>1
  <2> QED BY <2>2, Zenon
<1> DEFINE out == SteerStretches(stamps, tStart, tEnd)
<1> HIDE DEF after, first, stops, last
<1>10. out = [k \in 1 .. last - first + 1 |->
                LET i == first + k - 1
                    from == IF k = 1 THEN tStart ELSE stamps[i - 1]
                IN  [cmd |-> i - 1, duration |-> (IF i = last THEN tEnd ELSE stamps[i]) - from]]
  BY <1>2, <1>16, Zenon
<1> HIDE DEF out
<1>11. DOMAIN out = 1 .. len /\ Len(out) = len
       /\ \A k \in 1 .. len :
            out[k] = [cmd |-> (f + k - 1) - 1,
                      duration |-> (IF f + k - 1 = l THEN tEnd ELSE stamps[f + k - 1])
                                     - (IF k = 1 THEN tStart ELSE stamps[(f + k - 1) - 1])]
  <2>1. out = [k \in 1 .. l - f + 1 |->
                [cmd |-> (f + k - 1) - 1,
                 duration |-> (IF f + k - 1 = l THEN tEnd ELSE stamps[f + k - 1])
                                - (IF k = 1 THEN tStart ELSE stamps[(f + k - 1) - 1])]]
    BY <1>4, <1>8, <1>10
  <2>2. out = [k \in 1 .. len |->
                [cmd |-> (f + k - 1) - 1,
                 duration |-> (IF f + k - 1 = l THEN tEnd ELSE stamps[f + k - 1])
                                - (IF k = 1 THEN tStart ELSE stamps[(f + k - 1) - 1])]]
    BY <1>9, <2>1, Zenon
  <2>3. DOMAIN out = 1 .. len
    BY <2>2, Zenon
  <2>4. Len(out) = len
    BY <2>2
  <2>5. ASSUME NEW k \in 1 .. len
        PROVE  out[k] = [cmd |-> (f + k - 1) - 1,
                         duration |-> (IF f + k - 1 = l THEN tEnd ELSE stamps[f + k - 1])
                                        - (IF k = 1 THEN tStart ELSE stamps[(f + k - 1) - 1])]
    BY <2>2, Zenon
  <2> QED BY <2>3, <2>4, <2>5
<1> DEFINE e == [k \in 0 .. len |-> IF k = 0 THEN tStart
                                    ELSE IF f + k - 1 = l THEN tEnd ELSE stamps[f + k - 1]]
<1>12. ASSUME NEW k \in 1 .. len PROVE f + k - 1 \in f .. l /\ (f + k - 1 # l => f + k - 1 \in f .. m)
  BY <1>5, <1>8, <1>9
<1>13. /\ e \in [0 .. len -> Int] /\ e[0] = tStart /\ e[len] = tEnd
       /\ \A k \in 1 .. len : e[k] = IF f + k - 1 = l THEN tEnd ELSE stamps[f + k - 1]
  <2>1. ASSUME NEW k \in 1 .. len
        PROVE  (IF f + k - 1 = l THEN tEnd ELSE stamps[f + k - 1]) \in Int
    <3>1. CASE f + k - 1 = l
      BY <3>1
    <3>2. CASE f + k - 1 # l
      <4>1. f + k - 1 \in 1 .. n
        <5>1. f + k - 1 \in f .. m
          BY <1>12, <3>2, Zenon
        <5>2. f \in Nat /\ f >= 2 /\ m \in Int /\ m <= n
          BY <1>5, <1>6
        <5> QED BY <5>1, <5>2
      <4> QED BY <1>1, <3>2, <4>1
    <3> QED BY <3>1, <3>2
  <2>2. f + len - 1 = l /\ len \in 1 .. len
    BY <1>5, <1>8, <1>9
  <2>3. e \in [0 .. len -> Int]
    BY <2>1
  <2>4. \A k \in 1 .. len : e[k] = IF f + k - 1 = l THEN tEnd ELSE stamps[f + k - 1]
    OBVIOUS
  <2>5. e[0] = tStart
    OBVIOUS
  <2> HIDE DEF e
  <2>6. e[len] = tEnd
    BY <2>2, <2>4
  <2> QED BY <2>3, <2>4, <2>5, <2>6
<1> HIDE DEF e
<1>14. ASSUME NEW k \in 1 .. len
       PROVE  /\ out[k].duration = e[k] - e[k - 1] /\ out[k].duration >= 0
              /\ out[k].cmd \in 1 .. n
  <2>1. PICK i \in Int : i = f + k - 1 /\ i \in f .. l
    BY <1>5, <1>12
  <2>2. out[k].cmd = i - 1
        /\ out[k].duration = (IF i = l THEN tEnd ELSE stamps[i])
                               - (IF k = 1 THEN tStart ELSE stamps[i - 1])
    <3>1. out[k] = [cmd |-> i - 1,
                    duration |-> (IF i = l THEN tEnd ELSE stamps[i])
                                   - (IF k = 1 THEN tStart ELSE stamps[i - 1])]
      BY <1>11, <2>1, Zenon
    <3> QED BY <3>1
  <2>3. i - 1 \in 1 .. n
    BY <1>5, <1>6, <1>8, <2>1
  <2>4. e[k] = IF i = l THEN tEnd ELSE stamps[i]
    BY <1>13, <2>1, Zenon
  <2>5. CASE k = 1
    <3>1. e[k - 1] = tStart
      BY <1>13, <2>5
    <3>2. i = f
      BY <1>5, <2>1, <2>5
    <3>3. stamps[f] \in Int
      BY <1>1, <1>5
    <3>4. e[k] >= tStart /\ e[k] \in Int
      BY <1>5, <2>4, <3>2, <3>3
    <3> QED BY <2>2, <2>3, <2>4, <2>5, <3>1, <3>4
  <2>6. CASE k # 1
    <3>1. PICK j \in 1 .. len : j = k - 1 /\ f + j - 1 = i - 1 /\ i - 1 # l
      <4>1. k - 1 \in 1 .. len /\ f + (k - 1) - 1 = i - 1 /\ i - 1 # l
        BY <1>5, <1>8, <2>1, <2>6
      <4> QED BY <4>1
    <3>2. e[k - 1] = stamps[i - 1]
      BY <1>13, <3>1
    <3>3. i - 1 \in f .. m
      BY <1>5, <1>8, <2>1, <2>6
    <3>4. stamps[i - 1] < tEnd /\ stamps[i - 1] \in Int
      BY <1>1, <1>6, <2>3, <3>3, Zenon
    <3>5. e[k] >= stamps[i - 1] /\ e[k] \in Int
      <4>1. CASE i = l
        BY <2>4, <3>4, <4>1
      <4>2. CASE i # l
        <5>1. i \in 1 .. n /\ i - 1 < i
          BY <1>5, <1>6, <1>8, <2>1, <4>2
        <5>2. stamps[i - 1] < stamps[i] /\ stamps[i] \in Int
          BY <1>1, <2>3, <5>1, IncreasesLater, Zenon
        <5> QED BY <2>4, <3>4, <4>2, <5>2
      <4> QED BY <4>1, <4>2
    <3> QED BY <2>2, <2>3, <2>4, <2>6, <3>2, <3>4, <3>5
  <2> QED BY <2>5, <2>6
<1>15. Chained(out, len, n, tStart, tEnd, e)
  BY <1>11, <1>13, <1>14, Zenon DEF Chained
<1> QED BY <1>15, Zenon DEF out

\* The stretches of time the response sums over.
LEMMA StretchesAlwaysPartition ==
  ASSUME NEW stamps \in Seq(Int), IsIncreasing(stamps), NEW tStart \in Int, NEW gap \in Nat
  PROVE  StretchesPartition([stamps |-> stamps, tStart |-> tStart, tEnd |-> tStart + gap],
                            SteerStretches(stamps, tStart, tStart + gap))
<1>1. PICK tEnd \in Int : tEnd = tStart + gap /\ tStart <= tEnd
  OBVIOUS
<1>2. PICK a : a = [stamps |-> stamps, tStart |-> tStart, tEnd |-> tEnd]
  OBVIOUS
<1>3. a.stamps = stamps /\ a.tStart = tStart /\ a.tEnd = tEnd
  BY <1>2
<1>4. PICK n \in Nat : n = Len(stamps)
  OBVIOUS
<1>5. PICK out : out = SteerStretches(stamps, tStart, tEnd)
  OBVIOUS
<1>6. CASE out = <<>>
  <2>1. StretchesPartition(a, out)
    BY <1>6, Zenon DEF StretchesPartition
  <2> QED BY <1>1, <1>2, <1>5, <2>1, Zenon
<1>7. CASE out # <<>>
  <2>1. PICK len \in Nat \ {0} : \E e : Chained(out, len, n, tStart, tEnd, e)
    BY <1>1, <1>4, <1>5, <1>7, StretchesChained, Zenon
  <2>2. PICK e : Chained(out, len, n, tStart, tEnd, e)
    BY <2>1, Zenon
  <2>3. StretchesPartition(a, out)
    BY <1>3, <1>4, <2>2, ChainedPartition, Zenon
  <2> QED BY <1>1, <1>2, <1>5, <2>3, Zenon
<1> QED BY <1>6, <1>7

-----------------------------------------------------------------------------
(* The PID.                                                                *)

Fractions == Int \X (Nat \ {0})

\* A fraction compares as the numbers it is made of.
LEMMA FracCompares ==
  ASSUME NEW p \in Int, NEW q \in Nat \ {0}
  PROVE  /\ Frac(p, q) \in Fractions
         /\ \A k, m \in Int : /\ k * Frac(p, q)[1] <= m * Frac(p, q)[2] <=> k * p <= m * q
                              /\ k * Frac(p, q)[1] >= m * Frac(p, q)[2] <=> k * p >= m * q
<1>1. PICK n \in Int, d \in Nat \ {0}, c \in Int :
        Frac(p, q) = <<n, d>> /\ p = c * n /\ q = c * d /\ c # 0 /\ (c > 0 <=> q > 0)
  <2>1. q \in Int /\ q # 0
    OBVIOUS
  <2> QED BY <2>1, FracIs, Zenon
<1>2. c \in Nat \ {0}
  BY <1>1
<1>3. Frac(p, q)[1] = n /\ Frac(p, q)[2] = d
  BY <1>1
<1>4. ASSUME NEW k \in Int, NEW m \in Int
      PROVE  (k * n <= m * d <=> k * p <= m * q) /\ (k * n >= m * d <=> k * p >= m * q)
  <2>1. PICK x \in Int, y \in Int : x = k * n /\ y = m * d
    OBVIOUS
  <2>2. k * p = c * x /\ m * q = c * y
    <3>1. k * (c * n) = c * (k * n) /\ m * (c * d) = c * (m * d)
      BY <1>2
    <3> QED BY <1>1, <2>1, <3>1, Zenon
  <2>3. x <= y => c * x <= c * y
    BY <1>2, TimesMonotone
  <2>4. y <= x => c * y <= c * x
    BY <1>2, TimesMonotone
  <2>5. c * x <= c * y => x <= y
    BY <1>2, Cancel
  <2>6. c * y <= c * x => y <= x
    BY <1>2, Cancel
  <2>7. c * x \in Int /\ c * y \in Int
    BY <1>2
  <2>8. PICK u \in Int, v \in Int : u = c * x /\ v = c * y
    BY <2>7, Zenon
  <2>9. (x <= y <=> u <= v) /\ (x >= y <=> u >= v)
    BY <2>3, <2>4, <2>5, <2>6, <2>8
  <2> QED BY <2>1, <2>2, <2>8, <2>9, Zenon
<1>5. Frac(p, q) \in Fractions
  BY <1>1 DEF Fractions
<1> QED BY <1>3, <1>4, <1>5, Zenon

\* The integral s is between the limits lo / k and hi / k.
Between(s, k, lo, hi) ==
  s \in Fractions /\ lo * s[2] <= k * s[1] /\ k * s[1] <= hi * s[2]

\* The fraction s is below, at or above m / k.
Under(s, k, m) == k * s[1] < m * s[2]

At(s, k, m) == k * s[1] = m * s[2]

Above(s, k, m) == m * s[2] < k * s[1]

\* Clamped, it stays away from a limit it was away from.
Clamped(x, new, k, lo, hi) ==
  /\ Between(new, k, lo, hi)
  /\ Under(x, k, hi) => Under(new, k, hi)
  /\ Above(x, k, lo) => Above(new, k, lo)

\* pid.cpp: the limited integral is inside its limits.
LEMMA ClampBetween ==
  ASSUME NEW k \in Nat \ {0}, NEW lo \in Int, NEW hi \in Int, lo < hi, NEW x \in Fractions,
         NEW new, new = Clamp(x, Frac(lo, k), Frac(hi, k))
  PROVE  Clamped(x, new, k, lo, hi)
<1>1. PICK a \in Int, b \in Nat \ {0} : a = x[1] /\ b = x[2]
  BY DEF Fractions
<1>2. PICK u \in Int, v \in Nat \ {0} : /\ u = Frac(lo, k)[1] /\ v = Frac(lo, k)[2]
                                        /\ Frac(lo, k) \in Fractions
                                        /\ b * u <= a * v <=> b * lo <= a * k
                                        /\ k * u <= hi * v <=> k * lo <= hi * k
                                        /\ k * u >= hi * v <=> k * lo >= hi * k
                                        /\ k * u <= lo * v <=> k * lo <= lo * k
                                        /\ k * u >= lo * v <=> k * lo >= lo * k
  <2>1. Frac(lo, k) \in Fractions
    BY FracCompares, Zenon
  <2>2. \A p, m \in Int : /\ p * Frac(lo, k)[1] <= m * Frac(lo, k)[2] <=> p * lo <= m * k
                          /\ p * Frac(lo, k)[1] >= m * Frac(lo, k)[2] <=> p * lo >= m * k
    BY FracCompares, Zenon
  <2>3. Frac(lo, k)[1] \in Int /\ Frac(lo, k)[2] \in Nat \ {0}
    BY <2>1 DEF Fractions
  <2>4. a \in Int /\ b \in Int /\ k \in Int
    OBVIOUS
  <2> QED BY <2>1, <2>2, <2>3, <2>4, Zenon
<1>3. PICK r \in Int, s \in Nat \ {0} : /\ r = Frac(hi, k)[1] /\ s = Frac(hi, k)[2]
                                        /\ Frac(hi, k) \in Fractions
                                        /\ b * r >= a * s <=> b * hi >= a * k
                                        /\ k * r <= lo * s <=> k * hi <= lo * k
                                        /\ k * r >= lo * s <=> k * hi >= lo * k
                                        /\ k * r <= hi * s <=> k * hi <= hi * k
                                        /\ k * r >= hi * s <=> k * hi >= hi * k
  <2>1. Frac(hi, k) \in Fractions
    BY FracCompares, Zenon
  <2>2. \A p, m \in Int : /\ p * Frac(hi, k)[1] <= m * Frac(hi, k)[2] <=> p * hi <= m * k
                          /\ p * Frac(hi, k)[1] >= m * Frac(hi, k)[2] <=> p * hi >= m * k
    BY FracCompares, Zenon
  <2>3. Frac(hi, k)[1] \in Int /\ Frac(hi, k)[2] \in Nat \ {0}
    BY <2>1 DEF Fractions
  <2>4. a \in Int /\ b \in Int /\ k \in Int
    OBVIOUS
  <2> QED BY <2>1, <2>2, <2>3, <2>4, Zenon
<1>4. k * lo = lo * k /\ k * hi = hi * k /\ b * lo = lo * b /\ b * hi = hi * b /\ a * k = k * a
      /\ b * u = u * b /\ b * r = r * b
  OBVIOUS
<1>5. k * lo < k * hi
  <2>1. ~(k * hi <= k * lo)
    BY Cancel
  <2>2. k * lo \in Int /\ k * hi \in Int
    OBVIOUS
  <2> QED BY <2>1, <2>2
<1>6. new = IF a * v < u * b THEN Frac(lo, k) ELSE IF a * s > r * b THEN Frac(hi, k) ELSE x
  BY <1>1, <1>2, <1>3, Zenon DEF Clamp
<1>7. PICK l \in Int, h \in Int, av \in Int, ub \in Int, ax \in Int, rb \in Int :
        l = k * lo /\ h = k * hi /\ av = a * v /\ ub = u * b /\ ax = a * s /\ rb = r * b
  OBVIOUS
<1>8. PICK ka \in Int, lb \in Int, hb \in Int : ka = k * a /\ lb = lo * b /\ hb = hi * b
  OBVIOUS
<1>9. (ub <= av <=> lb <= ka) /\ (ax <= rb <=> ka <= hb)
  BY <1>2, <1>3, <1>4, <1>7, <1>8, Zenon
<1>10. CASE a * v < u * b
  <2>1. PICK w \in Int, z \in Int, y \in Int : w = k * u /\ z = hi * v /\ y = lo * v
    OBVIOUS
  <2>2. w <= z /\ ~(w >= z) /\ w <= y /\ w >= y
    <3>1. (w <= z <=> l <= h) /\ (w >= z <=> l >= h) /\ (w <= y <=> l <= l) /\ (w >= y <=> l >= l)
      BY <1>2, <1>4, <1>7, <2>1, Zenon
    <3>2. l < h
      BY <1>5, <1>7, Zenon
    <3> QED BY <3>1, <3>2
  <2>3. new = Frac(lo, k) /\ new[1] = u /\ new[2] = v
    BY <1>2, <1>6, <1>10, Zenon
  <2>4. ~(lb < ka)
    <3>1. av < ub
      BY <1>7, <1>10, Zenon
    <3> QED BY <1>9, <3>1
  <2>5. w < z /\ y <= w
    BY <2>2
  <2> QED BY <1>1, <1>2, <1>8, <2>1, <2>2, <2>3, <2>4, <2>5, Zenon DEF Clamped, Between, Under, Above
<1>11. CASE ~(a * v < u * b) /\ a * s > r * b
  <2>1. PICK w \in Int, z \in Int, y \in Int : w = k * r /\ z = hi * s /\ y = lo * s
    OBVIOUS
  <2>2. w <= z /\ w >= y /\ ~(w <= y)
    <3>1. (w <= y <=> h <= l) /\ (w >= y <=> h >= l) /\ (w <= z <=> h <= h)
      BY <1>3, <1>4, <1>7, <2>1, Zenon
    <3>2. l < h
      BY <1>5, <1>7, Zenon
    <3> QED BY <3>1, <3>2
  <2>3. new = Frac(hi, k) /\ new[1] = r /\ new[2] = s
    BY <1>3, <1>6, <1>11, Zenon
  <2>4. ~(ka < hb)
    <3>1. ax > rb
      BY <1>7, <1>11, Zenon
    <3> QED BY <1>9, <3>1
  <2>5. y < w /\ y <= w
    BY <2>2
  <2> QED BY <1>1, <1>3, <1>8, <2>1, <2>2, <2>3, <2>4, <2>5, Zenon DEF Clamped, Between, Under, Above
<1>12. CASE ~(a * v < u * b) /\ ~(a * s > r * b)
  <2>1. new = x
    BY <1>6, <1>12, Zenon
  <2>2. lb <= ka /\ ka <= hb
    <3>1. ~(av < ub) /\ ~(ax > rb)
      BY <1>7, <1>12, Zenon
    <3> QED BY <1>9, <3>1
  <2> QED BY <1>1, <1>8, <2>1, <2>2, Zenon DEF Clamped, Between, Under, Above
<1> QED BY <1>10, <1>11, <1>12

\* An integral moved by a whole number.
LEMMA PlusCompares ==
  ASSUME NEW s \in Fractions, NEW e \in Int
  PROVE  /\ Plus(s, Int2Frac(e)) \in Fractions
         /\ \A k, m \in Int :
              /\ k * Plus(s, Int2Frac(e))[1] <= m * Plus(s, Int2Frac(e))[2]
                   <=> k * (s[1] + e * s[2]) <= m * s[2]
              /\ k * Plus(s, Int2Frac(e))[1] >= m * Plus(s, Int2Frac(e))[2]
                   <=> k * (s[1] + e * s[2]) >= m * s[2]
<1>1. PICK a \in Int, b \in Nat \ {0} : a = s[1] /\ b = s[2]
  BY DEF Fractions
<1>2. PICK p \in Int : p = a + e * b
  OBVIOUS
<1>3. Plus(s, Int2Frac(e)) = Frac(p, b)
  <2>1. Plus(s, Int2Frac(e)) = Frac(a * 1 + e * b, b * 1)
    BY <1>1 DEF Plus, Int2Frac
  <2>2. a * 1 + e * b = p /\ b * 1 = b
    BY <1>2
  <2> QED BY <2>1, <2>2
<1> QED BY <1>1, <1>2, <1>3, FracCompares, Zenon

\* x compares, k times, with m as s moved by e does.
Moves(x, s, e, k, m) ==
  /\ k * x[1] <= m * x[2] <=> k * (s[1] + e * s[2]) <= m * s[2]
  /\ k * x[1] >= m * x[2] <=> k * (s[1] + e * s[2]) >= m * s[2]

\* An integral and an error compare with the limits as their sum does.
LEMMA PlusMoves ==
  ASSUME NEW s \in Fractions, NEW e \in Int, NEW k \in Nat \ {0}, NEW m \in Int
  PROVE  Plus(s, Int2Frac(e)) \in Fractions /\ Moves(Plus(s, Int2Frac(e)), s, e, k, m)
<1>1. k \in Int
  OBVIOUS
<1> QED BY <1>1, PlusCompares, Zenon DEF Moves

\* What the integral part says of the integral.
LEMMA ScaleSays ==
  ASSUME NEW k \in Nat \ {0}, NEW lo \in Int, NEW hi \in Int, NEW s, Between(s, k, lo, hi)
  PROVE  /\ Within(Scale(k, s), lo, hi)
         /\ \A m \in Int : Scale(k, s) = Int2Frac(m) => At(s, k, m)
<1>1. PICK a \in Int, b \in Nat \ {0} : a = s[1] /\ b = s[2] /\ lo * b <= k * a /\ k * a <= hi * b
  BY DEF Between, Fractions
<1>2. PICK p \in Int : p = k * a
  OBVIOUS
<1>3. Scale(k, s) = Frac(p, b)
  BY <1>1, <1>2, Zenon DEF Scale
<1>4. Within(Scale(k, s), lo, hi)
  <2>1. Inside(Frac(p, b), lo, hi)
    BY <1>1, <1>2, FracInside, Zenon
  <2> QED BY <1>3, <2>1, Zenon DEF Inside, Within
<1>5. ASSUME NEW m \in Int, Frac(p, b) = Int2Frac(m) PROVE p = m * b
  <2>1. Frac(p, b)[1] = m /\ Frac(p, b)[2] = 1
    BY <1>5 DEF Int2Frac
  <2>2. /\ 1 * Frac(p, b)[1] <= m * Frac(p, b)[2] <=> 1 * p <= m * b
        /\ 1 * Frac(p, b)[1] >= m * Frac(p, b)[2] <=> 1 * p >= m * b
    BY FracCompares, 1 \in Int, Zenon
  <2>3. PICK z \in Int : z = m * b
    OBVIOUS
  <2>4. 1 * Frac(p, b)[1] = m /\ m * Frac(p, b)[2] = m /\ 1 * p = p
    BY <2>1
  <2>5. (m <= m <=> p <= z) /\ (m >= m <=> p >= z)
    BY <2>2, <2>3, <2>4, Zenon
  <2>6. p <= z /\ p >= z
    BY <2>5
  <2> QED BY <2>3, <2>6
<1> QED BY <1>1, <1>2, <1>3, <1>4, <1>5, Zenon DEF At

\* What the PID answers, as a sequence: outs[k] to the k-th error.
PidAnswers(outs, errors, n, p) ==
  \A k \in 1 .. n :
    outs[k] = PidCalculate(IF k = 1 THEN PidReset ELSE outs[k - 1].state,
                           errors[k].e, errors[k].dt, errors[k].integrate, p)

PidError == [e : Int, integrate : BOOLEAN, dt : Nat \ {0}]

\* The limits of the integral part enclose zero.
PidLimits(p) ==
  /\ p.ki \in Nat \ {0} /\ p.minI \in Int /\ p.maxI \in Int
  /\ p.minI <= 0 /\ 0 <= p.maxI /\ p.minI < p.maxI

\* An error of the other sign moves the integral part away from its limit.
LeavesLimit(error, was, now, p) ==
  error.integrate =>
    /\ (was = Int2Frac(p.maxI) /\ error.e < 0) => now # was
    /\ (was = Int2Frac(p.minI) /\ error.e > 0) => now # was

Calculated(s, error, out, p) ==
  /\ Between(out.state.integral, p.ki, p.minI, p.maxI)
  /\ out.i = Scale(p.ki, out.state.integral)
  /\ LeavesLimit(error, Scale(p.ki, s.integral), out.i, p)

\* One calculation, from an integral inside its limits.
LEMMA PidStep ==
  ASSUME NEW p, PidLimits(p), NEW s, NEW error \in PidError, NEW out,
         out = PidCalculate(s, error.e, error.dt, error.integrate, p),
         Between(s.integral, p.ki, p.minI, p.maxI)
  PROVE  Calculated(s, error, out, p)
<1>1. PICK k \in Nat \ {0}, lo \in Int, hi \in Int :
        k = p.ki /\ lo = p.minI /\ hi = p.maxI /\ lo < hi
  BY Zenon DEF PidLimits
<1>2. PICK was \in Fractions : was = s.integral /\ Between(was, k, lo, hi)
  BY <1>1, Zenon DEF Between
<1>3. PICK e \in Int : e = error.e * error.dt /\ (error.e < 0 => e < 0) /\ (error.e > 0 => e > 0)
  <2>1. PICK x \in Int, dt \in Nat \ {0} : x = error.e /\ dt = error.dt
    BY DEF PidError
  <2>2. x * dt \in Int /\ (x < 0 => x * dt < 0) /\ (x > 0 => x * dt > 0)
    OBVIOUS
  <2> QED BY <2>1, <2>2, Zenon
<1>4. PICK new : new = IF ~error.integrate THEN was
                       ELSE Clamp(Plus(was, Int2Frac(e)), Frac(lo, k), Frac(hi, k))
  OBVIOUS
<1>5. out.state.integral = new /\ out.i = Scale(k, new)
  BY <1>1, <1>2, <1>3, <1>4 DEF PidCalculate
<1>6. CASE ~error.integrate
  BY <1>1, <1>2, <1>4, <1>5, <1>6, Zenon DEF Calculated, LeavesLimit
<1>7. CASE error.integrate
  <2>1. PICK x \in Fractions : x = Plus(was, Int2Frac(e)) /\ Moves(x, was, e, k, hi) /\ Moves(x, was, e, k, lo)
    BY PlusMoves, Zenon
  <2>2. new = Clamp(x, Frac(lo, k), Frac(hi, k))
    BY <1>4, <1>7, <2>1, Zenon
  <2>3. lo < hi
    BY <1>1, Zenon
  <2>17. Clamped(x, new, k, lo, hi)
    BY <2>2, <2>3, ClampBetween, Zenon
  <2>4. Between(new, k, lo, hi)
    BY <2>17, Zenon DEF Clamped
  <2>5. Under(x, k, hi) => Under(new, k, hi)
    BY <2>17, Zenon DEF Clamped
  <2>6. Above(x, k, lo) => Above(new, k, lo)
    BY <2>17, Zenon DEF Clamped
  <2>7. PICK a \in Int, b \in Nat \ {0} : a = was[1] /\ b = was[2]
    BY DEF Fractions
  <2>8. k * (a + e * b) = k * a + (k * b) * e /\ k * b \in Nat \ {0}
    OBVIOUS
  <2>9. PICK kb \in Nat \ {0} : kb = k * b
    BY <2>8, Zenon
  <2>10. PICK ka \in Int, move \in Int, xk \in Int, xl \in Int, xh \in Int :
           /\ ka = k * a /\ move = kb * e
           /\ xk = k * x[1] /\ xl = lo * x[2] /\ xh = hi * x[2]
    <3>1. x[1] \in Int /\ x[2] \in Int
      BY DEF Fractions
    <3> QED BY <3>1
  <2>11. (e < 0 => move < 0) /\ (e > 0 => move > 0)
    BY <2>10
  <2>12. PICK hb \in Int, lb \in Int : hb = hi * b /\ lb = lo * b
    OBVIOUS
  <2>13. (xk >= xh <=> ka + move >= hb) /\ (xk <= xl <=> ka + move <= lb)
    <3>3. k * x[1] >= hi * x[2] <=> k * (was[1] + e * was[2]) >= hi * was[2]
      BY <2>1, Zenon DEF Moves
    <3>4. k * x[1] <= lo * x[2] <=> k * (was[1] + e * was[2]) <= lo * was[2]
      BY <2>1, Zenon DEF Moves
    <3>1. /\ k * x[1] >= hi * x[2] <=> k * (a + e * b) >= hi * b
          /\ k * x[1] <= lo * x[2] <=> k * (a + e * b) <= lo * b
      BY <2>7, <3>3, <3>4, Zenon
    <3>2. k * (a + e * b) = ka + move
      BY <2>8, <2>9, <2>10, Zenon
    <3> QED BY <2>10, <2>12, <3>1, <3>2, Zenon
  <2>14. ASSUME error.e < 0, Scale(k, was) = Int2Frac(hi), Scale(k, new) = Int2Frac(hi)
         PROVE  FALSE
    <3>9. At(was, k, hi) /\ At(new, k, hi)
      BY <1>2, <2>4, <2>14, ScaleSays, Zenon
    <3>1. k * was[1] = hi * was[2] /\ k * new[1] = hi * new[2]
      BY <3>9, Zenon DEF At
    <3>2. ka = hb /\ e < 0
      BY <1>3, <2>7, <2>10, <2>12, <2>14, <3>1, Zenon
    <3>3. ~(ka + move >= hb)
      BY <2>11, <3>2
    <3>4. ~(xk >= xh)
      BY <2>13, <3>3, Zenon
    <3>5. xk < xh
      BY <3>4
    <3>6. k * new[1] < hi * new[2]
      BY <2>5, <2>10, <3>5, Zenon DEF Under
    <3>7. new[1] \in Int /\ new[2] \in Int
      BY <2>4 DEF Between, Fractions
    <3>8. k * new[1] \in Int
      BY <3>7
    <3> QED BY <3>1, <3>6, <3>8
  <2>15. ASSUME error.e > 0, Scale(k, was) = Int2Frac(lo), Scale(k, new) = Int2Frac(lo)
         PROVE  FALSE
    <3>9. At(was, k, lo) /\ At(new, k, lo)
      BY <1>2, <2>4, <2>15, ScaleSays, Zenon
    <3>1. k * was[1] = lo * was[2] /\ k * new[1] = lo * new[2]
      BY <3>9, Zenon DEF At
    <3>2. ka = lb /\ e > 0
      BY <1>3, <2>7, <2>10, <2>12, <2>15, <3>1, Zenon
    <3>3. ~(ka + move <= lb)
      BY <2>11, <3>2
    <3>4. ~(xk <= xl)
      BY <2>13, <3>3, Zenon
    <3>5. xl < xk
      BY <3>4
    <3>6. lo * new[2] < k * new[1]
      BY <2>6, <2>10, <3>5, Zenon DEF Above
    <3>7. new[1] \in Int /\ new[2] \in Int
      BY <2>4 DEF Between, Fractions
    <3>8. k * new[1] \in Int
      BY <3>7
    <3> QED BY <3>1, <3>6, <3>8
  <2>16. LeavesLimit(error, Scale(k, was), Scale(k, new), p)
    BY <1>1, <2>14, <2>15, Zenon DEF LeavesLimit
  <2> QED BY <1>1, <1>2, <1>5, <2>4, <2>16, Zenon DEF Calculated
<1> QED BY <1>6, <1>7

\* Every answer of the PID, whatever the errors.
LEMMA PidNeverWinds ==
  ASSUME NEW p, PidLimits(p), NEW errors \in Seq(PidError), NEW n \in Nat, n = Len(errors),
         NEW outs, PidAnswers(outs, errors, n, p)
  PROVE  PidDoesNotWindUp(errors, outs, p)
<1>1. DOMAIN errors = 1 .. n /\ \A k \in 1 .. n : errors[k] \in PidError
  OBVIOUS
<1> DEFINE Fine(k) == Between(outs[k].state.integral, p.ki, p.minI, p.maxI)
           S == {k \in 0 .. n : k = 0 \/ Fine(k)}
<1>2. Between(PidReset.integral, p.ki, p.minI, p.maxI)
  <2>1. PICK k \in Nat \ {0}, lo \in Int, hi \in Int :
          k = p.ki /\ lo = p.minI /\ hi = p.maxI /\ lo <= 0 /\ 0 <= hi
    BY Zenon DEF PidLimits
  <2>2. Between(<<0, 1>>, k, lo, hi)
    BY <2>1 DEF Between, Fractions
  <2>3. PidReset.integral = <<0, 1>>
    BY DEF PidReset, Int2Frac
  <2> QED BY <2>1, <2>2, <2>3, Zenon
<1>3. ASSUME NEW k \in 0 .. n - 1, k \in S PROVE k + 1 \in S
  <2>1. k + 1 \in 1 .. n /\ k + 1 \in 0 .. n /\ (k + 1 = 1 => k = 0) /\ (k + 1) - 1 = k
    OBVIOUS
  <2>2. PICK s : s = IF k + 1 = 1 THEN PidReset ELSE outs[k].state
    OBVIOUS
  <2>3. Between(s.integral, p.ki, p.minI, p.maxI)
    <3>1. CASE k + 1 = 1
      BY <1>2, <2>2, <3>1, Zenon
    <3>2. CASE k + 1 # 1
      <4>1. k # 0
        BY <3>2
      <4>2. Fine(k)
        BY <1>3, <4>1
      <4> QED BY <2>2, <3>2, <4>2, Zenon
    <3> QED BY <3>1, <3>2
  <2>4. PICK out : /\ out = outs[k + 1]
                   /\ out = PidCalculate(s, errors[k + 1].e, errors[k + 1].dt, errors[k + 1].integrate, p)
    BY <2>1, <2>2, Zenon DEF PidAnswers
  <2>5. errors[k + 1] \in PidError
    BY <1>1, <2>1, Zenon
  <2>6. Between(out.state.integral, p.ki, p.minI, p.maxI)
    <3>1. Calculated(s, errors[k + 1], out, p)
      BY <2>3, <2>4, <2>5, PidStep, Zenon
    <3> QED BY <3>1, Zenon DEF Calculated
  <2> QED BY <2>1, <2>4, <2>6
<1> HIDE DEF Fine
<1>4. \A k \in 1 .. n : Fine(k)
  <2>1. 0 \in S
    OBVIOUS
  <2> HIDE DEF S
  <2>2. \A k \in 0 .. n : k \in S
    BY <1>3, <2>1, InductionTo, Zenon
  <2> QED BY <2>2 DEF S
<1>5. ASSUME NEW k \in 1 .. n
      PROVE  /\ Within(outs[k].i, p.minI, p.maxI)
             /\ outs[k].i = Scale(p.ki, outs[k].state.integral)
             /\ k > 1 => LeavesLimit(errors[k], Scale(p.ki, outs[k - 1].state.integral), outs[k].i, p)
  <2>1. PICK s : s = IF k = 1 THEN PidReset ELSE outs[k - 1].state
    OBVIOUS
  <2>2. Between(s.integral, p.ki, p.minI, p.maxI)
    <3>1. CASE k = 1
      BY <1>2, <2>1, <3>1, Zenon
    <3>2. CASE k # 1
      <4>1. k - 1 \in 1 .. n
        BY <3>2
      <4> QED BY <1>4, <2>1, <3>2, <4>1, Zenon DEF Fine
    <3> QED BY <3>1, <3>2
  <2>3. PICK out : /\ out = outs[k]
                   /\ out = PidCalculate(s, errors[k].e, errors[k].dt, errors[k].integrate, p)
    BY <2>1, Zenon DEF PidAnswers
  <2>4. errors[k] \in PidError
    BY <1>1, Zenon
  <2>5. /\ out.i = Scale(p.ki, out.state.integral)
        /\ LeavesLimit(errors[k], Scale(p.ki, s.integral), out.i, p)
    <3>1. Calculated(s, errors[k], out, p)
      BY <2>2, <2>3, <2>4, PidStep, Zenon
    <3> QED BY <3>1, Zenon DEF Calculated
  <2>6. Within(out.i, p.minI, p.maxI)
    <3>1. PICK w \in Nat \ {0}, lo \in Int, hi \in Int : w = p.ki /\ lo = p.minI /\ hi = p.maxI
      BY Zenon DEF PidLimits
    <3>2. Between(out.state.integral, w, lo, hi)
      BY <1>4, <2>3, <3>1, Zenon DEF Fine
    <3>3. Within(Scale(w, out.state.integral), lo, hi)
      BY <3>2, ScaleSays, Zenon
    <3> QED BY <2>5, <3>1, <3>3, Zenon
  <2>7. k > 1 => s = outs[k - 1].state
    <3>1. k > 1 => k # 1
      OBVIOUS
    <3> QED BY <2>1, <3>1, Zenon
  <2> QED BY <2>3, <2>5, <2>6, <2>7, Zenon
<1>6. ASSUME NEW k \in 1 .. n, k > 1
      PROVE  outs[k - 1].i = Scale(p.ki, outs[k - 1].state.integral)
  <2>1. k - 1 \in 1 .. n
    BY <1>6
  <2> QED BY <1>5, <2>1, Zenon
<1> QED BY <1>1, <1>5, <1>6, Zenon DEF PidDoesNotWindUp, LeavesLimit

PidStates == [integral : Fractions, prev : Int, first : BOOLEAN]

\* One calculation leaves a state again.
LEMMA PidStateKept ==
  ASSUME NEW p, PidLimits(p), NEW s \in PidStates, NEW error \in PidError
  PROVE  PidCalculate(s, error.e, error.dt, error.integrate, p).state \in PidStates
<1>1. PICK x \in Fractions : x = s.integral
  BY Zenon DEF PidStates
<1>2. PICK k \in Nat \ {0}, lo \in Int, hi \in Int : k = p.ki /\ lo = p.minI /\ hi = p.maxI
  BY Zenon DEF PidLimits
<1>3. PICK e \in Int : e = error.e
  BY DEF PidError
<1>4. PICK move \in Int : move = error.e * error.dt
  <2>1. error.e \in Int /\ error.dt \in Nat \ {0}
    BY DEF PidError
  <2> QED BY <2>1
<1>5. Frac(lo, k) \in Fractions /\ Frac(hi, k) \in Fractions
  BY FracCompares, Zenon
<1>6. Plus(x, Int2Frac(move)) \in Fractions
  BY PlusCompares, Zenon
<1>7. PICK sum : sum = IF ~error.integrate THEN x
                       ELSE Clamp(Plus(x, Int2Frac(move)), Frac(lo, k), Frac(hi, k))
  OBVIOUS
<1>8. sum \in Fractions
  BY <1>5, <1>6, <1>7, Zenon DEF Clamp
<1>9. PidCalculate(s, e, error.dt, error.integrate, p).state
        = [integral |-> sum, prev |-> e, first |-> FALSE]
  BY <1>1, <1>2, <1>3, <1>4, <1>7 DEF PidCalculate
<1>10. [integral |-> sum, prev |-> e, first |-> FALSE] \in PidStates
  BY <1>8 DEF PidStates
<1> QED BY <1>3, <1>9, <1>10, Zenon

\* The run of the PID over any errors answers them one after the other.
LEMMA PidRunAnswers ==
  ASSUME NEW errors \in Seq(PidError), PidLimits(PidParams)
  PROVE  PidAnswers(PidRun(errors), errors, Len(errors), PidParams)
<1> DEFINE Answer(x, k) == PidCalculate(x, errors[k].e, errors[k].dt, errors[k].integrate, PidParams)
           n == Len(errors)
           step == [k \in 1 .. n |-> [x \in PidStates |-> Answer(x, k).state]]
           By(f) == f = [k \in 1 .. n |-> PidCalculate(IF k = 1 THEN PidReset ELSE f[k - 1].state,
                                            errors[k].e, errors[k].dt, errors[k].integrate, PidParams)]
<1>1. n \in Nat /\ \A k \in 1 .. n : errors[k] \in PidError
  OBVIOUS
<1>2. ASSUME NEW k \in 1 .. n, NEW x \in PidStates PROVE Answer(x, k).state \in PidStates
  BY <1>1, PidStateKept, Zenon
<1>3. step \in [1 .. n -> [PidStates -> PidStates]]
  <2> HIDE DEF Answer, n
  <2> QED BY <1>2
<1>4. \A k \in 1 .. n : \A x \in PidStates : step[k][x] = Answer(x, k).state
  <2> HIDE DEF Answer, n
  <2> QED OBVIOUS
<1>5. PidReset \in PidStates
  BY DEF PidReset, PidStates, Int2Frac, Fractions
<1> HIDE DEF step, n
<1>6. PICK h \in [0 .. n -> PidStates] : Iterates(h, n, PidReset, step)
  BY <1>1, <1>3, <1>5, Recursion, Zenon
<1>7. h[0] = PidReset /\ \A k \in 1 .. n : h[k] = step[k][h[k - 1]]
  <2>1. h = [k \in 0 .. n |-> IF k = 0 THEN PidReset ELSE step[k][h[k - 1]]]
    BY <1>6, Zenon DEF Iterates
  <2>2. 0 \in 0 .. n
    BY <1>1
  <2>3. h[0] = PidReset
    BY <2>1, <2>2, Zenon
  <2>4. ASSUME NEW k \in 1 .. n PROVE h[k] = step[k][h[k - 1]]
    <3>1. k \in 0 .. n /\ k # 0
      BY <1>1
    <3> QED BY <2>1, <3>1, Zenon
  <2> QED BY <2>3, <2>4
<1> DEFINE g == [k \in 1 .. n |-> Answer(h[k - 1], k)]
<1>8. By(g)
  <2>1. ASSUME NEW k \in 1 .. n
        PROVE  Answer(h[k - 1], k) = Answer(IF k = 1 THEN PidReset ELSE g[k - 1].state, k)
    <3>1. CASE k = 1
      <4>1. k - 1 = 0
        BY <3>1
      <4> QED BY <1>7, <3>1, <4>1, Zenon
    <3>2. CASE k # 1
      <4>1. k - 1 \in 1 .. n /\ (k - 1) - 1 \in 0 .. n
        BY <1>1, <3>2
      <4>2. h[(k - 1) - 1] \in PidStates
        BY <1>6, <4>1
      <4> HIDE DEF Answer
      <4>3. g[k - 1] = Answer(h[(k - 1) - 1], k - 1)
        BY <4>1, Zenon
      <4>4. h[k - 1] = Answer(h[(k - 1) - 1], k - 1).state
        BY <1>4, <1>7, <4>1, <4>2, Zenon
      <4> HIDE DEF g
      <4> QED BY <3>2, <4>3, <4>4, Zenon
    <3> QED BY <3>1, <3>2
  <2> HIDE DEF Answer
  <2>2. g = [k \in 1 .. n |-> Answer(IF k = 1 THEN PidReset ELSE g[k - 1].state, k)]
    BY <2>1, Zenon
  <2> HIDE DEF g
  <2> QED BY <2>2, Zenon DEF Answer
<1>9. By(PidRun(errors))
  <2>1. \E f : By(f)
    BY <1>8, Zenon
  <2> QED BY <2>1, Zenon DEF PidRun, n
<1>10. PICK f : f = PidRun(errors) /\ By(f)
  BY <1>9, Zenon
<1>11. ASSUME NEW k \in 1 .. n
       PROVE  f[k] = PidCalculate(IF k = 1 THEN PidReset ELSE f[k - 1].state,
                                  errors[k].e, errors[k].dt, errors[k].integrate, PidParams)
  BY <1>10, Zenon
<1> QED BY <1>10, <1>11, Zenon DEF PidAnswers, n

-----------------------------------------------------------------------------
(* The state after the delay.                                              *)

\* The sign of a product.
LEMMA ProductSigns ==
  ASSUME NEW x \in Int, NEW y \in Int
  PROVE  /\ x * y \in Int
         /\ (x >= 0 /\ y >= 0) \/ (x <= 0 /\ y <= 0) => x * y >= 0
         /\ (x > 0 /\ y < 0) \/ (x < 0 /\ y > 0) <=> x * y < 0
OBVIOUS

\* At constant acceleration the speed ends standing or with its sign.
LEMMA LinearNeverReverses ==
  ASSUME NEW v \in Int, NEW acc \in Int, NEW delay \in Nat
  PROVE  /\ v * LinearPrediction(v, acc, delay).vel >= 0
         /\ LinearPrediction(v, acc, delay).time <= delay
<1>1. PICK m \in Int : m = acc * delay
  OBVIOUS
<1>2. (acc >= 0 => m >= 0) /\ (acc <= 0 => m <= 0)
  BY <1>1
<1>3. (acc >= 0 => delay * Abs(acc) = m) /\ (acc < 0 => delay * Abs(acc) = -m)
  <2>1. CASE acc >= 0
    <3>1. Abs(acc) = acc
      BY <2>1 DEF Abs
    <3>2. delay * acc = m
      BY <1>1
    <3> QED BY <2>1, <3>1, <3>2
  <2>2. CASE acc < 0
    <3>1. Abs(acc) = -acc
      BY <2>2 DEF Abs
    <3>2. delay * (-acc) = -m
      BY <1>1
    <3> QED BY <2>2, <3>1, <3>2
  <2> QED BY <2>1, <2>2
<1>4. PICK stops \in BOOLEAN : stops = (v * acc < 0 /\ Abs(v) < delay * Abs(acc))
  OBVIOUS
<1>5. PICK vel \in Int : vel = IF stops THEN 0 ELSE v + m
  BY <1>1
<1>6. LinearPrediction(v, acc, delay).vel = vel /\ LinearPrediction(v, acc, delay).time = delay
  BY <1>1, <1>4, <1>5, Zenon DEF LinearPrediction
<1>7. ~stops => (v >= 0 /\ v + m >= 0) \/ (v <= 0 /\ v + m <= 0)
  <2>1. SUFFICES ASSUME ~stops PROVE (v >= 0 /\ v + m >= 0) \/ (v <= 0 /\ v + m <= 0)
    OBVIOUS
  <2>2. CASE v * acc < 0
    <3>1. (v > 0 /\ acc < 0) \/ (v < 0 /\ acc > 0)
      BY <2>2, ProductSigns, Zenon
    <3>2. ~(Abs(v) < delay * Abs(acc))
      BY <1>4, <2>1, <2>2, Zenon
    <3>3. CASE v > 0 /\ acc < 0
      <4>1. Abs(v) = v /\ delay * Abs(acc) = -m
        BY <1>3, <3>3 DEF Abs
      <4>2. ~(v < -m)
        BY <3>2, <4>1, Zenon
      <4> QED BY <3>3, <4>2
    <3>4. CASE v < 0 /\ acc > 0
      <4>1. Abs(v) = -v /\ delay * Abs(acc) = m
        BY <1>3, <3>4 DEF Abs
      <4>2. ~(-v < m)
        BY <3>2, <4>1, Zenon
      <4> QED BY <3>4, <4>2
    <3> QED BY <3>1, <3>3, <3>4
  <2>3. CASE ~(v * acc < 0)
    <3>1. ~((v > 0 /\ acc < 0) \/ (v < 0 /\ acc > 0))
      BY <2>3, ProductSigns, Zenon
    <3> QED BY <1>2, <3>1
  <2> QED BY <2>2, <2>3
<1>8. (v >= 0 /\ vel >= 0) \/ (v <= 0 /\ vel <= 0)
  BY <1>5, <1>7
<1>9. v * vel >= 0
  BY <1>8, ProductSigns, Zenon
<1>10. delay <= delay
  OBVIOUS
<1> QED BY <1>6, <1>9, <1>10, Zenon

\* The states the prediction goes through; the time left to the next command.
DelayStates == [vel : Int, acc : Int, dist2 : Fractions, time : Nat, done : BOOLEAN]

NextAge(cmds, i) == IF i = Len(cmds) THEN 0 ELSE cmds[i + 1].age

\* After i commands: no reversal, no time that is not in the delay.
Predicted(v, cmds, delay, i, s) ==
  /\ s \in DelayStates
  /\ v * s.vel >= 0
  /\ s.time = 0 \/ s.time + NextAge(cmds, i) <= delay
  /\ (v = 0 /\ \A j \in DOMAIN cmds : cmds[j].acc <= 0) => s.vel = 0

Commands == [age : Nat, acc : Int]

\* The commands follow one another.
Aged(cmds) ==
  /\ cmds \in Seq(Commands)
  /\ \A i \in 1 .. Len(cmds) - 1 : cmds[i].age > cmds[i + 1].age

\* A fraction and a whole number make a fraction.
LEMMA WholeMoves ==
  ASSUME NEW s \in Fractions, NEW e \in Int
  PROVE  Plus(s, Int2Frac(e)) \in Fractions
BY PlusCompares, Zenon

\* One command keeps the states of the prediction.
LEMMA HistoryStepStays ==
  ASSUME NEW v \in Int, NEW cmds, Aged(cmds), NEW delay \in Nat, NEW i \in 1 .. Len(cmds),
         NEW s \in DelayStates
  PROVE  HistoryStep(v, cmds, delay, s, i) \in DelayStates
<1>1. PICK acc \in Int, age \in Nat : acc = cmds[i].acc /\ age = cmds[i].age
  <2>1. cmds[i] \in Commands
    BY DEF Aged
  <2> QED BY <2>1 DEF Commands
<1>2. PICK force \in Nat : force = InForce(cmds, i)
  <2>1. CASE i = Len(cmds)
    BY <1>1, <2>1 DEF InForce
  <2>2. CASE i # Len(cmds)
    <3>1. i \in 1 .. Len(cmds) - 1 /\ i + 1 \in 1 .. Len(cmds) /\ Len(cmds) \in Nat
      BY <2>2 DEF Aged
    <3>2. cmds[i + 1] \in Commands /\ cmds[i].age > cmds[i + 1].age
      BY <3>1 DEF Aged
    <3>3. cmds[i].age - cmds[i + 1].age \in Nat
      BY <1>1, <3>2 DEF Commands
    <3> QED BY <2>2, <3>3, Zenon DEF InForce
  <2> QED BY <2>1, <2>2
<1>3. PICK dt \in Nat : dt = IF force < delay THEN force ELSE delay
  OBVIOUS
<1>4. PICK was \in Int, d \in Fractions, t \in Nat :
        was = s.vel /\ d = s.dist2 /\ t = s.time
  BY DEF DelayStates
<1>5. PICK vel \in Int : vel = was + (IF was < 0 THEN -acc * dt ELSE acc * dt)
  OBVIOUS
<1>6. PICK flips \in BOOLEAN : flips = (v * vel < 0 \/ (v = 0 /\ vel < 0))
  OBVIOUS
<1>7. PICK w \in Int : w = Abs(2 * Abs(was) * dt + acc * dt * dt)
  <2>1. PICK x \in Int : x = 2 * Abs(was) * dt + acc * dt * dt
    BY DEF Abs
  <2> QED BY <2>1 DEF Abs
<1>8. PICK z \in Fractions : z = Plus(d, Int2Frac(w))
  BY WholeMoves, Zenon
<1>9. HistoryStep(v, cmds, delay, s, i) =
        IF s.done \/ age >= delay THEN s
        ELSE [vel |-> IF flips THEN 0 ELSE vel, acc |-> IF was < 0 THEN -acc ELSE acc,
              dist2 |-> z, time |-> t + dt, done |-> flips]
  BY <1>1, <1>2, <1>3, <1>4, <1>5, <1>6, <1>7, <1>8, Zenon DEF HistoryStep
<1>10. [vel |-> IF flips THEN 0 ELSE vel, acc |-> IF was < 0 THEN -acc ELSE acc,
        dist2 |-> z, time |-> t + dt, done |-> flips] \in DelayStates
  BY DEF DelayStates
<1> QED BY <1>9, <1>10, Zenon

\* pid_longitudinal_controller.cpp: one command keeps what is predicted.
LEMMA HistoryStepPredicts ==
  ASSUME NEW v \in Int, NEW cmds, Aged(cmds), NEW delay \in Nat, NEW i \in 1 .. Len(cmds),
         NEW s, Predicted(v, cmds, delay, i - 1, s)
  PROVE  Predicted(v, cmds, delay, i, HistoryStep(v, cmds, delay, s, i))
<1>1. PICK acc \in Int, age \in Nat : acc = cmds[i].acc /\ age = cmds[i].age
  <2>1. cmds[i] \in Commands
    BY DEF Aged
  <2> QED BY <2>1 DEF Commands
<1>2. PICK next \in Nat : next = NextAge(cmds, i) /\ InForce(cmds, i) = age - next /\ next <= age
  <2>1. CASE i = Len(cmds)
    <3>1. age = age - 0 /\ 0 \in Nat /\ 0 <= age
      OBVIOUS
    <3> QED BY <1>1, <2>1, <3>1, Zenon DEF InForce, NextAge
  <2>2. CASE i # Len(cmds)
    <3>1. i \in 1 .. Len(cmds) - 1 /\ i + 1 \in 1 .. Len(cmds) /\ Len(cmds) \in Nat
      BY <2>2 DEF Aged
    <3>2. cmds[i + 1] \in Commands /\ cmds[i].age > cmds[i + 1].age
      BY <3>1 DEF Aged
    <3>3. cmds[i + 1].age \in Nat /\ cmds[i + 1].age <= age
      BY <1>1, <3>2 DEF Commands
    <3> QED BY <1>1, <2>2, <3>3, Zenon DEF InForce, NextAge
  <2> QED BY <2>1, <2>2
<1>3. NextAge(cmds, i - 1) = age
  <2>1. i - 1 # Len(cmds) /\ (i - 1) + 1 = i
    BY DEF Aged
  <2> QED BY <1>1, <2>1, Zenon DEF NextAge
<1>4. PICK new : new = HistoryStep(v, cmds, delay, s, i)
  OBVIOUS
<1>5. s \in DelayStates /\ new \in DelayStates
  BY <1>4, HistoryStepStays, Zenon DEF Predicted
<1>6. PICK was \in Int, t \in Nat : was = s.vel /\ t = s.time
  BY <1>5 DEF DelayStates
<1>7. v * was >= 0 /\ (t = 0 \/ t + age <= delay)
  BY <1>3, <1>6, Zenon DEF Predicted
<1> DEFINE Braked == v = 0 /\ \A j \in DOMAIN cmds : cmds[j].acc <= 0
<1>8. Braked => was = 0
  BY <1>6, Zenon DEF Predicted
<1>9. CASE s.done \/ age >= delay
  <2>1. new = s
    BY <1>1, <1>4, <1>9, Zenon DEF HistoryStep
  <2>2. t = 0 \/ t + next <= delay
    BY <1>2, <1>7
  <2> QED BY <1>2, <1>4, <1>5, <1>6, <1>7, <1>8, <2>1, <2>2, Zenon DEF Predicted
<1>10. CASE ~(s.done \/ age >= delay)
  <2>1. PICK dt \in Nat : dt = age - next
    BY <1>2
  <2>2. dt < delay /\ age < delay
    <3>1. age < delay
      BY <1>10
    <3> QED BY <1>2, <2>1, <3>1
  <2>3. PICK vel \in Int : vel = was + (IF was < 0 THEN -acc * dt ELSE acc * dt)
    OBVIOUS
  <2>4. PICK flips \in BOOLEAN : flips = (v * vel < 0 \/ (v = 0 /\ vel < 0))
    OBVIOUS
  <2>5. /\ new.vel = IF flips THEN 0 ELSE vel
        /\ new.time = t + dt
    <3>1. (IF InForce(cmds, i) < delay THEN InForce(cmds, i) ELSE delay) = dt
      BY <1>2, <2>1, <2>2, Zenon
    <3>2. \E x, y : new = [vel |-> IF flips THEN 0 ELSE vel, acc |-> x, dist2 |-> y,
                           time |-> t + dt, done |-> flips]
      BY <1>1, <1>4, <1>6, <1>10, <2>3, <2>4, <3>1, Zenon DEF HistoryStep
    <3> QED BY <3>2
  <2>6. v * new.vel >= 0
    <3>1. CASE flips
      <4>1. v * 0 >= 0
        OBVIOUS
      <4> QED BY <2>5, <3>1, <4>1, Zenon
    <3>2. CASE ~flips
      <4>1. ~(v * vel < 0)
        BY <2>4, <3>2, Zenon
      <4>2. PICK z \in Int : z = v * vel
        BY ProductSigns, Zenon
      <4>3. z >= 0
        BY <4>1, <4>2
      <4> QED BY <2>5, <3>2, <4>2, <4>3, Zenon
    <3> QED BY <3>1, <3>2
  <2>7. new.time + next <= delay
    <3>1. t + age <= delay
      BY <1>7, <2>2
    <3>2. (t + dt) + next <= delay
      BY <1>2, <2>1, <3>1
    <3> QED BY <2>5, <3>2, Zenon
  <2>8. Braked => new.vel = 0
    <3>1. SUFFICES ASSUME Braked PROVE new.vel = 0
      OBVIOUS
    <3>2. acc <= 0
      <4>1. i \in DOMAIN cmds
        BY DEF Aged
      <4> QED BY <1>1, <3>1, <4>1, Zenon
    <3>3. was = 0 /\ v = 0
      BY <1>8, <3>1
    <3>4. vel = acc * dt
      BY <2>3, <3>3
    <3>5. vel <= 0
      BY <3>2, <3>4
    <3>6. vel < 0 => flips
      BY <2>4, <3>3, Zenon
    <3>7. vel = 0 \/ vel < 0
      BY <3>5
    <3> QED BY <2>5, <3>6, <3>7, Zenon
  <2> QED BY <1>2, <1>4, <1>5, <2>6, <2>7, <2>8, Zenon DEF Predicted
<1> QED BY <1>9, <1>10

\* What the prediction over a history of commands comes to.
LEMMA HistoryPredicts ==
  ASSUME NEW v \in Int, NEW acc \in Int, NEW cmds, Aged(cmds), NEW delay \in Nat
  PROVE  Predicted(v, cmds, delay, Len(cmds), HistoryPrediction(v, acc, cmds, delay))
<1> DEFINE start == [vel |-> v, acc |-> acc, dist2 |-> Int2Frac(0), time |-> 0, done |-> FALSE]
           n == Len(cmds)
           step == [k \in 1 .. n |-> [x \in DelayStates |-> HistoryStep(v, cmds, delay, x, k)]]
           By(f) == f = [k \in 0 .. n |-> IF k = 0 THEN start ELSE HistoryStep(v, cmds, delay, f[k - 1], k)]
<1>1. n \in Nat
  BY DEF Aged
<1>2. \A k \in 1 .. n : \A x \in DelayStates : HistoryStep(v, cmds, delay, x, k) \in DelayStates
  BY HistoryStepStays, Zenon
<1>3. step \in [1 .. n -> [DelayStates -> DelayStates]]
        /\ \A k \in 1 .. n : \A x \in DelayStates : step[k][x] = HistoryStep(v, cmds, delay, x, k)
  <2> HIDE DEF n
  <2> QED BY <1>2
<1>4. start \in DelayStates
  BY DEF DelayStates, Int2Frac, Fractions
<1> HIDE DEF step, n, start
<1>5. PICK h \in [0 .. n -> DelayStates] : Iterates(h, n, start, step)
  BY <1>1, <1>3, <1>4, Recursion, Zenon
<1>6. By(h)
  <2>1. ASSUME NEW k \in 0 .. n
        PROVE  (IF k = 0 THEN start ELSE step[k][h[k - 1]]) =
               (IF k = 0 THEN start ELSE HistoryStep(v, cmds, delay, h[k - 1], k))
    <3>1. CASE k = 0
      BY <3>1, Zenon
    <3>2. CASE k # 0
      <4>1. k \in 1 .. n /\ k - 1 \in 0 .. n
        BY <1>1, <3>2
      <4>2. h[k - 1] \in DelayStates
        BY <1>5, <4>1
      <4> QED BY <1>3, <4>1, <4>2, Zenon
    <3> QED BY <3>1, <3>2
  <2>2. h = [k \in 0 .. n |-> IF k = 0 THEN start ELSE step[k][h[k - 1]]]
    BY <1>5, Zenon DEF Iterates
  <2>3. [k \in 0 .. n |-> IF k = 0 THEN start ELSE step[k][h[k - 1]]]
          = [k \in 0 .. n |-> IF k = 0 THEN start ELSE HistoryStep(v, cmds, delay, h[k - 1], k)]
    BY <2>1, Zenon
  <2> QED BY <2>2, <2>3, Zenon
<1>7. PICK f : By(f) /\ HistoryPrediction(v, acc, cmds, delay) = f[n]
  <2>1. \E f : By(f)
    BY <1>6, Zenon
  <2> QED BY <2>1, Zenon DEF HistoryPrediction, n, start
<1>8. f[0] = start /\ \A k \in 1 .. n : f[k] = HistoryStep(v, cmds, delay, f[k - 1], k)
  <2>1. 0 \in 0 .. n
    BY <1>1
  <2>2. f[0] = start
    BY <1>7, <2>1, Zenon
  <2>3. ASSUME NEW k \in 1 .. n PROVE f[k] = HistoryStep(v, cmds, delay, f[k - 1], k)
    <3>1. k \in 0 .. n /\ k # 0
      BY <1>1
    <3> QED BY <1>7, <3>1, Zenon
  <2> QED BY <2>2, <2>3
<1> DEFINE S == {k \in 0 .. n : Predicted(v, cmds, delay, k, f[k])}
<1>9. 0 \in S
  <2>1. Predicted(v, cmds, delay, 0, start)
    <3>1. start.vel = v /\ start.time = 0
      BY DEF start
    <3>2. v * v >= 0
      OBVIOUS
    <3> QED BY <1>4, <3>1, <3>2, Zenon DEF Predicted
  <2>2. 0 \in 0 .. n
    BY <1>1
  <2> QED BY <1>8, <2>1, <2>2, Zenon
<1>10. ASSUME NEW k \in 0 .. n - 1, k \in S PROVE k + 1 \in S
  <2>1. k + 1 \in 1 .. n /\ k + 1 \in 0 .. n /\ (k + 1) - 1 = k
    BY <1>1
  <2>2. Predicted(v, cmds, delay, (k + 1) - 1, f[k])
    BY <1>10, <2>1, Zenon
  <2>3. k + 1 \in 1 .. Len(cmds)
    BY <2>1, Zenon DEF n
  <2>4. Predicted(v, cmds, delay, k + 1, HistoryStep(v, cmds, delay, f[k], k + 1))
    BY <2>2, <2>3, HistoryStepPredicts, Zenon
  <2>5. f[k + 1] = HistoryStep(v, cmds, delay, f[k], k + 1)
    BY <1>8, <2>1, Zenon
  <2> QED BY <2>1, <2>4, <2>5, Zenon
<1> HIDE DEF S
<1>11. \A k \in 0 .. n : k \in S
  BY <1>1, <1>9, <1>10, InductionTo, Zenon
<1>12. n \in S
  <2>1. n \in 0 .. n
    BY <1>1
  <2> QED BY <1>11, <2>1, Zenon
<1> QED BY <1>7, <1>12, Zenon DEF S, n

\* pid_longitudinal_controller.cpp: the state after the delay, for any history.
LEMMA DelayAlwaysFits ==
  ASSUME NEW a, a.v \in Int, a.a \in Int, a.delay \in Nat, Aged(a.cmds)
  PROVE  PredictionNeverReverses(a, StateAfterDelay(a.v, a.a, a.cmds, a.autonomous, a.delay))
<1>1. CASE a.cmds = <<>> \/ ~a.autonomous
  <2>1. StateAfterDelay(a.v, a.a, a.cmds, a.autonomous, a.delay) = LinearPrediction(a.v, a.a, a.delay)
    BY <1>1, Zenon DEF StateAfterDelay
  <2>2. a.v * LinearPrediction(a.v, a.a, a.delay).vel >= 0
          /\ LinearPrediction(a.v, a.a, a.delay).time <= a.delay
    BY LinearNeverReverses, Zenon
  <2> QED BY <1>1, <2>1, <2>2, Zenon DEF PredictionNeverReverses
<1>2. CASE ~(a.cmds = <<>> \/ ~a.autonomous)
  <2>1. PICK s : s = HistoryPrediction(a.v, a.a, a.cmds, a.delay)
    OBVIOUS
  <2>2. StateAfterDelay(a.v, a.a, a.cmds, a.autonomous, a.delay) = s
    BY <1>2, <2>1, Zenon DEF StateAfterDelay
  <2>3. Predicted(a.v, a.cmds, a.delay, Len(a.cmds), s)
    BY <2>1, HistoryPredicts, Zenon
  <2>4. /\ a.v * s.vel >= 0
        /\ (a.v = 0 /\ \A j \in DOMAIN a.cmds : a.cmds[j].acc <= 0) => s.vel = 0
    BY <2>3, Zenon DEF Predicted
  <2>5. s.time <= a.delay
    <3>1. s.time = 0 \/ s.time + 0 <= a.delay
      BY <2>3, Zenon DEF Predicted, NextAge
    <3>2. s.time \in Nat
      BY <2>3 DEF Predicted, DelayStates
    <3> QED BY <3>1, <3>2
  <2> QED BY <2>2, <2>4, <2>5, Zenon DEF PredictionNeverReverses
<1> QED BY <1>1, <1>2

-----------------------------------------------------------------------------
(* The conversion of a VisionPilot reference.                              *)

-----------------------------------------------------------------------------
(* The smallest members of a set, in order.                                *)

\* How many members of S come before i.
Rank(S, i) == Cardinality({j \in S : j < i})

\* Members of S have ranks below its size, later ones higher ranks.
Ranked(S) ==
  /\ \A i \in S : Rank(S, i) \in 0 .. Cardinality(S) - 1 /\ Rank(S, i) < i
  /\ \A i, j \in S : i < j => Rank(S, i) < Rank(S, j)

\* Below a member of a set of numbers are fewer numbers than below a later one.
LEMMA RanksIncrease ==
  ASSUME NEW n \in Nat, NEW S, S \subseteq 1 .. n
  PROVE  IsFiniteSet(S) /\ Cardinality(S) \in Nat /\ Ranked(S)
<1>0. \A i \in S : i \in Nat /\ i >= 1 /\ i \in Int
  OBVIOUS
<1>1. IsFiniteSet(1 .. n) /\ IsFiniteSet(S)
  <2>1. IsFiniteSet(1 .. n)
    BY FS_Interval
  <2>2. S \in SUBSET (1 .. n)
    OBVIOUS
  <2> QED BY <2>1, <2>2, FS_Subset, Zenon
<1>2. Cardinality(S) \in Nat
  BY <1>1, FS_CardinalityType, Zenon
<1> DEFINE B(i) == {j \in S : j < i}
<1>3. ASSUME NEW i \in S
      PROVE  /\ IsFiniteSet(B(i)) /\ Cardinality(B(i)) \in Nat
             /\ Cardinality(B(i) \cup {i}) = Cardinality(B(i)) + 1
             /\ IsFiniteSet(B(i) \cup {i}) /\ Cardinality(B(i)) < i
  <2>0. i \in Nat /\ i >= 1 /\ ~(i < i)
    BY <1>0
  <2>1. B(i) \in SUBSET S /\ i \notin B(i) /\ B(i) \in SUBSET (1 .. i - 1)
    <3>1. ASSUME NEW j \in B(i) PROVE j \in 1 .. i - 1
      <4>1. j \in Nat /\ j >= 1 /\ j < i
        BY <1>0
      <4> QED BY <2>0, <4>1
    <3>2. B(i) \subseteq S /\ i \notin B(i)
      BY <2>0
    <3> QED BY <3>1, <3>2
  <2> HIDE DEF B
  <2>2. IsFiniteSet(B(i))
    BY <1>1, <2>1, FS_Subset, Zenon
  <2>3. Cardinality(B(i)) \in Nat
    BY <2>2, FS_CardinalityType, Zenon
  <2>4. IsFiniteSet(B(i) \cup {i}) /\ Cardinality(B(i) \cup {i}) = Cardinality(B(i)) + 1
    BY <2>1, <2>2, FS_AddElement, Zenon
  <2>5. IsFiniteSet(1 .. i - 1) /\ Cardinality(1 .. i - 1) = i - 1
    <3>1. i - 1 \in Int /\ 1 \in Int
      BY <2>0
    <3>2. IsFiniteSet(1 .. i - 1) /\ Cardinality(1 .. i - 1) = IF 1 > i - 1 THEN 0 ELSE (i - 1) - 1 + 1
      BY <3>1, FS_Interval, Zenon
    <3> QED BY <2>0, <3>2
  <2>6. Cardinality(B(i)) <= Cardinality(1 .. i - 1)
    BY <2>1, <2>5, FS_Subset, Zenon
  <2> QED BY <2>0, <2>2, <2>3, <2>4, <2>5, <2>6
<1>4. ASSUME NEW i \in S
      PROVE  Cardinality(B(i)) \in 0 .. Cardinality(S) - 1
  <2>1. B(i) \cup {i} \in SUBSET S
    OBVIOUS
  <2> HIDE DEF B
  <2>2. Cardinality(B(i) \cup {i}) <= Cardinality(S)
    BY <1>1, <2>1, FS_Subset, Zenon
  <2> QED BY <1>2, <1>3, <2>2
<1>5. ASSUME NEW i \in S, NEW j \in S, i < j
      PROVE  Cardinality(B(i)) < Cardinality(B(j))
  <2>1. B(i) \cup {i} \in SUBSET B(j)
    <3>1. ASSUME NEW x \in B(i) PROVE x \in B(j)
      <4>1. x \in S /\ x < i /\ x \in Int /\ i \in Int /\ j \in Int
        BY <1>0
      <4>2. x < j
        BY <1>5, <4>1
      <4> QED BY <4>1, <4>2
    <3>2. i \in B(j)
      BY <1>5
    <3> HIDE DEF B
    <3> QED BY <3>1, <3>2
  <2> HIDE DEF B
  <2>2. Cardinality(B(i) \cup {i}) <= Cardinality(B(j))
    BY <1>3, <2>1, FS_Subset, Zenon
  <2>3. Cardinality(B(i) \cup {i}) = Cardinality(B(i)) + 1 /\ Cardinality(B(i)) \in Nat
          /\ Cardinality(B(j)) \in Nat
    BY <1>3, Zenon
  <2> QED BY <2>2, <2>3
<1>6. \A i \in S : Rank(S, i) = Cardinality(B(i))
  BY DEF Rank
<1> HIDE DEF B
<1>7. Ranked(S)
  BY <1>3, <1>4, <1>5, <1>6 DEF Ranked
<1> QED BY <1>1, <1>2, <1>7, Zenon

\* Every rank below the size of S is that of a member.
LEMMA RankReached ==
  ASSUME NEW n \in Nat, NEW S, S \subseteq 1 .. n, NEW k \in 0 .. Cardinality(S) - 1
  PROVE  \E i \in S : Rank(S, i) = k
<1>1. IsFiniteSet(S) /\ Cardinality(S) \in Nat /\ Ranked(S)
  BY RanksIncrease, Zenon
<1> DEFINE f == [i \in S |-> Rank(S, i)]
           T == 0 .. Cardinality(S) - 1
<1>2. PICK c \in Nat : c = Cardinality(S)
  BY <1>1
<1>3. IsFiniteSet(T) /\ Cardinality(T) = Cardinality(S)
  <2>1. 0 \in Int /\ c - 1 \in Int
    OBVIOUS
  <2>2. IsFiniteSet(0 .. c - 1) /\ Cardinality(0 .. c - 1) = IF 0 > c - 1 THEN 0 ELSE (c - 1) - 0 + 1
    BY <2>1, FS_Interval, Zenon
  <2> QED BY <1>2, <2>2
<1>4. f \in [S -> T]
  BY <1>1 DEF Ranked
<1>5. ASSUME NEW i \in S, NEW j \in S, f[i] = f[j] PROVE i = j
  <2>1. Rank(S, i) = Rank(S, j) /\ Rank(S, i) \in Int /\ i \in Int /\ j \in Int
    BY <1>1, <1>5 DEF Ranked
  <2>2. ~(i < j) /\ ~(j < i)
    BY <1>1, <2>1 DEF Ranked
  <2> QED BY <2>1, <2>2
<1> HIDE DEF T
<1>6. f \in Injection(S, T)
  <2> HIDE DEF f
  <2> QED BY <1>4, <1>5, Zenon DEF Injection, IsInjective
<1>7. f \in Surjection(S, T)
  <2> HIDE DEF f
  <2> QED BY <1>3, <1>6, FS_Injection, Zenon
<1>8. \E i \in S : f[i] = k
  BY <1>7 DEF Surjection, T
<1> QED BY <1>8

\* p lists members of S in order: as many as fit into n places, and surely
\* those that are at most n.
Lists(p, m, S, n) ==
  /\ m = Least(n, Cardinality(S)) /\ p \in [1 .. m -> S]
  /\ \A i, j \in 1 .. m : i < j => p[i] < p[j]
  /\ \A i \in S : i <= n => \E k \in 1 .. m : k <= i /\ p[k] = i

\* vp_reference.hpp: sort, unique and resize.
LEMMA SortedPrefixLists ==
  ASSUME NEW len \in Nat, NEW S, S \subseteq 1 .. len, NEW n \in Nat
  PROVE  \E m \in Nat : Lists(SortedPrefix(S, n), m, S, n)
<1>1. IsFiniteSet(S) /\ Cardinality(S) \in Nat /\ Ranked(S)
  BY RanksIncrease, Zenon
<1>0. \A i \in S : i \in Nat /\ i \in Int
  OBVIOUS
<1>2. PICK c \in Nat : c = Cardinality(S)
  BY <1>1
<1>3. PICK m \in Nat : m = Least(n, Cardinality(S)) /\ m <= n /\ m <= c /\ (m = n \/ m = c)
  BY <1>2 DEF Least
<1>4. PICK p : p = [k \in 1 .. m |-> CHOOSE i \in S : Cardinality({j \in S : j < i}) = k - 1]
  OBVIOUS
<1>5. p = SortedPrefix(S, n)
  BY <1>3, <1>4, Zenon DEF SortedPrefix
<1>6. ASSUME NEW k \in 1 .. m
      PROVE  p[k] \in S /\ Rank(S, p[k]) = k - 1
  <2>1. k - 1 \in 0 .. c - 1
    BY <1>3
  <2>2. \E i \in S : Rank(S, i) = k - 1
    BY <1>2, <2>1, RankReached, Zenon
  <2>3. p[k] = CHOOSE i \in S : Rank(S, i) = k - 1
    BY <1>4, Zenon DEF Rank
  <2> QED BY <2>2, <2>3, Zenon
<1>7. p \in [1 .. m -> S]
  BY <1>4, <1>6
<1>8. ASSUME NEW i \in S, NEW j \in S, Rank(S, i) <= Rank(S, j) PROVE i <= j
  <2>1. Rank(S, i) \in Int /\ Rank(S, j) \in Int /\ i \in Int /\ j \in Int
    BY <1>1 DEF Ranked
  <2>2. ~(j < i)
    BY <1>1, <1>8, <2>1 DEF Ranked
  <2> QED BY <2>1, <2>2
<1>9. ASSUME NEW i \in 1 .. m, NEW j \in 1 .. m, i < j PROVE p[i] < p[j]
  <2>1. p[i] \in S /\ p[j] \in S /\ Rank(S, p[i]) = i - 1 /\ Rank(S, p[j]) = j - 1
    BY <1>6
  <2>2. Rank(S, p[i]) <= Rank(S, p[j]) /\ Rank(S, p[i]) # Rank(S, p[j])
    BY <1>9, <2>1
  <2>3. p[i] <= p[j]
    BY <1>8, <2>1, <2>2, Zenon
  <2>4. p[i] \in Int /\ p[j] \in Int
    BY <1>0, <2>1, Zenon
  <2>5. p[i] # p[j]
    BY <2>2
  <2> QED BY <2>3, <2>4, <2>5
<1>10. ASSUME NEW i \in S, i <= n PROVE \E k \in 1 .. m : k <= i /\ p[k] = i
  <2>1. PICK r \in Nat : r = Rank(S, i) /\ r < c /\ r < i
    BY <1>1, <1>2 DEF Ranked
  <2>2. i \in Nat /\ r + 1 \in 1 .. m /\ r + 1 <= i
    BY <1>3, <1>10, <2>1
  <2>3. p[r + 1] \in S /\ Rank(S, p[r + 1]) = r
    BY <1>6, <2>2
  <2>4. p[r + 1] <= i /\ i <= p[r + 1]
    <3>1. Rank(S, p[r + 1]) <= Rank(S, i) /\ Rank(S, i) <= Rank(S, p[r + 1])
      BY <2>1, <2>3
    <3> QED BY <1>8, <2>3, <3>1, Zenon
  <2>5. p[r + 1] = i
    <3>1. p[r + 1] \in Int
      BY <1>0, <2>3, Zenon
    <3> QED BY <2>2, <2>4, <3>1
  <2> QED BY <2>2, <2>5, Zenon
<1>11. Lists(p, m, S, n)
  BY <1>3, <1>7, <1>9, <1>10, Zenon DEF Lists
<1> QED BY <1>5, <1>11, Zenon

-----------------------------------------------------------------------------
(* The densified path.                                                     *)

\* The arc lengths of points from 10 to 12 units apart, the first at zero.
Paced(s) ==
  /\ s \in Seq(Nat) /\ Len(s) >= 1 /\ s[1] = 0
  /\ \A i \in 1 .. Len(s) - 1 : s[i + 1] - s[i] \in 10 .. 12

\* Such points increase, at least by 10 and at most by 12 each.
LEMMA PacedIs ==
  ASSUME NEW s, Paced(s)
  PROVE  /\ IsIncreasing(s) /\ s \in Seq(Int)
         /\ \A i \in 1 .. Len(s) : 10 * (i - 1) <= s[i] /\ s[i] <= 12 * (i - 1)
<1>1. PICK n \in Nat : n = Len(s) /\ n >= 1 /\ \A i \in 1 .. n : s[i] \in Nat
  BY DEF Paced
<1> DEFINE S == {k \in Nat : k + 1 <= n => 10 * k <= s[k + 1] /\ s[k + 1] <= 12 * k}
<1>2. 0 \in S
  BY <1>1 DEF Paced
<1>3. ASSUME NEW k \in 0 .. (n - 1) - 1, k \in S PROVE k + 1 \in S
  <2>1. k + 1 \in 1 .. Len(s) - 1 /\ k + 1 \in 1 .. n /\ (k + 1) + 1 \in 1 .. n
    BY <1>1
  <2>2. s[(k + 1) + 1] - s[k + 1] \in 10 .. 12
    BY <2>1 DEF Paced
  <2>3. 10 * k <= s[k + 1] /\ s[k + 1] <= 12 * k /\ s[k + 1] \in Nat /\ s[(k + 1) + 1] \in Nat
    BY <1>1, <1>3, <2>1
  <2> QED BY <2>2, <2>3
<1> HIDE DEF S
<1>4. \A k \in 0 .. n - 1 : k \in S
  <2>1. n - 1 \in Nat
    BY <1>1
  <2> QED BY <1>2, <1>3, <2>1, InductionTo, Zenon
<1>5. ASSUME NEW i \in 1 .. Len(s) PROVE 10 * (i - 1) <= s[i] /\ s[i] <= 12 * (i - 1)
  <2>1. i - 1 \in 0 .. n - 1 /\ (i - 1) + 1 = i /\ i <= n
    BY <1>1
  <2>2. i - 1 \in S
    BY <1>4, <2>1, Zenon
  <2> QED BY <2>1, <2>2 DEF S
<1>6. IsIncreasing(s)
  <2>1. SUFFICES ASSUME NEW i \in 1 .. Len(s) - 1 PROVE s[i] < s[i + 1]
    BY DEF IsIncreasing
  <2>2. s[i] \in Nat /\ s[i + 1] \in Nat /\ s[i + 1] - s[i] \in 10 .. 12
    BY DEF Paced
  <2> QED BY <2>2
<1>7. s \in Seq(Int)
  BY DEF Paced
<1> QED BY <1>5, <1>6, <1>7

\* A segment of the path, and the pieces it is cut into.
Segment(seg) == seg \in Nat /\ seg >= kPathSpacing /\ seg % CeilDiv(seg, kResampleStep) = 0

Pieces(seg, n, g) == n = CeilDiv(seg, kResampleStep) /\ g = seg \div n /\ n * g = seg

\* A quotient without a remainder.
LEMMA Divided ==
  ASSUME NEW a \in Nat, NEW b \in Nat \ {0}, a % b = 0
  PROVE  a \div b \in Nat /\ b * (a \div b) = a
<1>1. a \div b \in Nat /\ a % b \in 0 .. b - 1 /\ a = ((a \div b) * b) + (a % b)
  OBVIOUS
<1>2. PICK q \in Nat : q = a \div b
  BY <1>1
<1>3. a = q * b
  BY <1>1, <1>2
<1> QED BY <1>2, <1>3

\* A metre of the path or more falls into equal pieces of 10 to 12 units.
LEMMA PiecesAre ==
  ASSUME NEW seg, Segment(seg)
  PROVE  \E n \in Nat, g \in 10 .. 12 : Pieces(seg, n, g) /\ n >= 4
<1>1. seg \in Nat /\ seg >= 48
  BY DEF Segment, kPathSpacing
<1>2. PICK n \in Nat : n = (seg + 12 - 1) \div 12
  BY <1>1
<1>3. n >= 4 /\ 12 * n <= seg + 11 /\ seg <= 12 * n
  BY <1>1, <1>2
<1>4. n = CeilDiv(seg, kResampleStep) /\ seg % n = 0
  BY <1>2 DEF Segment, CeilDiv, kResampleStep
<1>5. PICK g \in Nat : g = seg \div n /\ n * g = seg
  <2>1. n \in Nat \ {0}
    BY <1>3
  <2>2. seg \div n \in Nat /\ n * (seg \div n) = seg
    BY <1>1, <1>4, <2>1, Divided, Zenon
  <2> QED BY <2>2, Zenon
<1>6. n * g = seg
  BY <1>5
<1>7. g <= 12
  <2>1. SUFFICES ASSUME 13 <= g PROVE FALSE
    OBVIOUS
  <2>2. n * 13 <= n * g
    BY <2>1, TimesMonotone
  <2> QED BY <1>3, <1>6, <2>2
<1>8. g >= 10
  <2>1. SUFFICES ASSUME g <= 9 PROVE FALSE
    OBVIOUS
  <2>2. n * g <= n * 9
    BY <2>1, TimesMonotone
  <2> QED BY <1>3, <1>6, <2>2
<1>9. Pieces(seg, n, g)
  BY <1>4, <1>5, <1>6, Zenon DEF Pieces
<1>10. g \in 10 .. 12
  BY <1>7, <1>8
<1> QED BY <1>3, <1>9, <1>10, Zenon

\* Pieces behind a paced path.
LEMMA PiecesPaced ==
  ASSUME NEW arcs, Paced(arcs), NEW used \in Nat, NEW g \in 10 .. 12
  PROVE  LET x == arcs \o [k \in 1 .. used |-> Last(arcs) + k * g]
         IN  Paced(x) /\ Last(x) = Last(arcs) + used * g
<1>1. PICK n \in Nat : n = Len(arcs) /\ n >= 1 /\ \A i \in 1 .. n : arcs[i] \in Nat
  BY DEF Paced
<1>2. PICK l \in Nat : l = Last(arcs) /\ l = arcs[n]
  BY <1>1 DEF Last
<1> DEFINE y == [k \in 1 .. used |-> l + k * g]
           x == arcs \o y
<1>3. y \in Seq(Nat) /\ Len(y) = used /\ \A k \in 1 .. used : y[k] = l + k * g /\ y[k] \in Nat
  <2>1. \A k \in 1 .. used : l + k * g \in Nat
    OBVIOUS
  <2> QED BY <2>1
<1>4. arcs \in Seq(Nat) /\ arcs[1] = 0
  BY DEF Paced
<1> HIDE DEF y
<1>5. /\ x \in Seq(Nat) /\ Len(x) = n + used
      /\ \A i \in 1 .. n : x[i] = arcs[i]
      /\ \A i \in n + 1 .. n + used : x[i] = y[i - n]
  <2>0. x \in Seq(Nat)
    BY <1>3, <1>4
  <2>1. Len(x) = n + used
    <3>1. Len(x) = Len(arcs) + Len(y)
      BY <1>3, <1>4
    <3> QED BY <1>1, <1>3, <3>1
  <2>2. \A i \in 1 .. n : x[i] = arcs[i]
    BY <1>1, <1>3, <1>4
  <2>3. ASSUME NEW i \in n + 1 .. n + used PROVE x[i] = y[i - n]
    <3>1. i \in 1 .. Len(arcs) + Len(y) /\ ~(i <= Len(arcs))
      BY <1>1, <1>3
    <3> QED BY <1>1, <1>3, <1>4, <3>1
  <2> QED BY <2>0, <2>1, <2>2, <2>3
<1> HIDE DEF x
<1>6. ASSUME NEW i \in 1 .. Len(x) - 1 PROVE x[i + 1] - x[i] \in 10 .. 12
  <2>1. CASE i < n
    <3>1. i \in 1 .. n /\ i + 1 \in 1 .. n /\ i \in 1 .. Len(arcs) - 1
      BY <1>1, <2>1
    <3>2. x[i] = arcs[i] /\ x[i + 1] = arcs[i + 1]
      BY <1>5, <3>1, Zenon
    <3> QED BY <3>1, <3>2 DEF Paced
  <2>2. CASE i = n
    <3>1. i \in 1 .. n /\ i + 1 \in n + 1 .. n + used /\ (i + 1) - n = 1 /\ 1 \in 1 .. used
      BY <1>1, <1>5, <2>2
    <3>2. x[i] = l /\ x[i + 1] = l + 1 * g
      BY <1>2, <1>3, <1>5, <2>2, <3>1
    <3> QED BY <3>2
  <2>3. CASE i > n
    <3>1. PICK k \in 1 .. used : k = i - n /\ k + 1 = (i + 1) - n /\ k + 1 \in 1 .. used
      BY <1>5, <2>3
    <3>2. i \in n + 1 .. n + used /\ i + 1 \in n + 1 .. n + used
      BY <1>5, <2>3
    <3>3. x[i] = l + k * g /\ x[i + 1] = l + (k + 1) * g
      BY <1>3, <1>5, <3>1, <3>2
    <3>4. (k + 1) * g = k * g + g /\ k * g \in Int
      OBVIOUS
    <3> QED BY <3>3, <3>4
  <2> QED BY <1>1, <2>1, <2>2, <2>3
<1>7. x[1] = 0 /\ Len(x) >= 1
  <2>1. 1 \in 1 .. n
    BY <1>1
  <2> QED BY <1>1, <1>4, <1>5, <2>1
<1>8. Last(x) = l + used * g
  <2>1. Last(x) = x[n + used]
    BY <1>5 DEF Last
  <2>2. CASE used = 0
    <3>1. n + used = n /\ n \in 1 .. n /\ used * g = 0
      BY <1>1, <2>2
    <3>2. x[n] = arcs[n]
      BY <1>5, <3>1
    <3> QED BY <1>2, <2>1, <3>1, <3>2
  <2>3. CASE used # 0
    <3>1. n + used \in n + 1 .. n + used /\ (n + used) - n = used /\ used \in 1 .. used
      BY <2>3
    <3>2. x[n + used] = y[used]
      BY <1>5, <3>1
    <3> QED BY <1>3, <2>1, <3>1, <3>2
  <2> QED BY <2>2, <2>3
<1>9. Paced(x)
  BY <1>5, <1>6, <1>7, Zenon DEF Paced
<1>10. x = arcs \o [k \in 1 .. used |-> Last(arcs) + k * g]
  BY <1>2 DEF x, y
<1> QED BY <1>2, <1>8, <1>9, <1>10

\* vp_reference.hpp: what one more segment makes of the path: the whole of it,
\* or as much as reaches the cap.
Lengthened(arcs, x, seg) ==
  /\ Paced(x) /\ Last(x) \in Nat
  /\ Last(arcs) >= kExtentCap => x = arcs
  /\ Last(arcs) < kExtentCap => Last(x) = Last(arcs) + seg \/ Last(x) >= kExtentCap

\* The last of a paced path's points is at most 12 units per point away.
LEMMA LastIs ==
  ASSUME NEW s, Paced(s)
  PROVE  Last(s) \in Nat /\ Last(s) = s[Len(s)] /\ Last(s) <= 12 * (Len(s) - 1)
<1>1. s \in Seq(Nat) /\ Len(s) >= 1
  BY DEF Paced
<1>2. Len(s) \in 1 .. Len(s)
  BY <1>1
<1>3. s[Len(s)] <= 12 * (Len(s) - 1)
  BY <1>2, PacedIs
<1> QED BY <1>1, <1>2, <1>3 DEF Last

\* resample: one segment adds points until the path is long enough.
LEMMA SegmentLengthens ==
  ASSUME NEW arcs, Paced(arcs), NEW seg, Segment(seg)
  PROVE  Lengthened(arcs, ResampleSegment(arcs, seg), seg)
<1>1. PICK n \in Nat, g \in 10 .. 12 : Pieces(seg, n, g) /\ n >= 4
  BY PiecesAre, Zenon
<1>2. seg \in Nat /\ seg >= 48 /\ seg # 0
  BY DEF Segment, kPathSpacing
<1>3. PICK l \in Nat : l = Last(arcs)
  BY LastIs
<1>4. n = CeilDiv(seg, kResampleStep) /\ g = seg \div n /\ n * g = seg
  BY <1>1, Zenon DEF Pieces
<1>5. CASE l >= kExtentCap
  <2>1. ResampleSegment(arcs, seg) = arcs
    BY <1>3, <1>5, Zenon DEF ResampleSegment
  <2>2. ~(l < kExtentCap)
    BY <1>5 DEF kExtentCap
  <2> QED BY <1>3, <2>1, <2>2, Zenon DEF Lengthened
<1>6. CASE ~(l >= kExtentCap)
  <2>1. l < 1200 /\ kExtentCap = 1200
    BY <1>6 DEF kExtentCap
  <2>2. PICK d \in Nat : d = kExtentCap - l /\ d >= 1
    BY <2>1
  <2>3. PICK c \in Nat : c = CeilDiv(d, g) /\ c * g >= d
    <3>1. PICK a \in Nat : a = d + g - 1
      BY <2>2
    <3>2. g \in Nat \ {0}
      OBVIOUS
    <3>3. PICK q \in Nat, r \in 0 .. g - 1 : q = a \div g /\ a = q * g + r
      BY <3>2, Quotient, Zenon
    <3>4. q = CeilDiv(d, g)
      BY <3>1, <3>3 DEF CeilDiv
    <3>5. q * g \in Int
      OBVIOUS
    <3>6. q * g >= d
      BY <3>1, <3>3, <3>5
    <3> QED BY <3>4, <3>6, Zenon
  <2>4. PICK used \in Nat : used = Least(n, c) /\ (used = n \/ used = c)
    BY DEF Least
  <2> DEFINE x == arcs \o [k \in 1 .. used |-> Last(arcs) + k * g]
  <2>5. ResampleSegment(arcs, seg) = x
    BY <1>2, <1>3, <1>4, <1>6, <2>2, <2>3, <2>4, Zenon DEF ResampleSegment
  <2>6. Paced(x) /\ Last(x) = l + used * g
    BY <1>3, PiecesPaced, Zenon
  <2> HIDE DEF x
  <2>7. PICK e \in Nat : e = used * g /\ (e = seg \/ e >= d)
    <3>1. CASE used = n
      BY <1>2, <1>4, <3>1
    <3>2. CASE used = c
      <4>1. c * g \in Nat
        OBVIOUS
      <4> QED BY <2>3, <3>2, <4>1
    <3> QED BY <2>4, <3>1, <3>2
  <2>8. Last(x) = l + e /\ Last(x) \in Nat /\ (Last(x) = l + seg \/ Last(x) >= kExtentCap)
    BY <1>2, <2>1, <2>2, <2>6, <2>7
  <2>9. Lengthened(arcs, x, seg)
    BY <1>3, <1>6, <2>6, <2>8, Zenon DEF Lengthened
  <2> QED BY <2>5, <2>9, Zenon
<1> QED BY <1>5, <1>6

\* cumulativeArcLengths are running sums.
LEMMA LengthsAre ==
  ASSUME NEW steps \in Seq(Int), NEW m \in Nat, m = Len(steps)
  PROVE  Sums(CumulativeArcLengths(steps), m, steps)
<1>1. steps \in [1 .. m -> Int]
  OBVIOUS
<1>2. \E f : RunningSum(f, m, steps)
  BY <1>1, SumsExist, Zenon
<1>3. PICK f : f = CumulativeArcLengths(steps) /\ RunningSum(f, m, steps)
  BY <1>2, Zenon DEF CumulativeArcLengths, RunningSum
<1> QED BY <1>1, <1>3, SumsAre, Zenon

\* s is the path of a length, cut where it reaches the cap.
Covers(s, total) == Paced(s) /\ Last(s) \in Nat /\ (Last(s) = total \/ Last(s) >= kExtentCap)

\* vp_reference.hpp: resample.
LEMMA ResampleCovers ==
  ASSUME NEW segs \in Seq(Nat), NEW m \in Nat, m = Len(segs),
         \A i \in 1 .. m : Segment(segs[i])
  PROVE  /\ Covers(Resample(segs), CumulativeArcLengths(segs)[m + 1])
         /\ m >= 1 => Last(Resample(segs)) >= kPathSpacing
         /\ m = 0 => Resample(segs) = <<0>>
<1> DEFINE P == {s \in Seq(Nat) : Paced(s)}
           step == [k \in 1 .. m |-> [x \in P |-> ResampleSegment(x, segs[k])]]
           By(f) == f = [k \in 0 .. m |-> IF k = 0 THEN <<0>> ELSE ResampleSegment(f[k - 1], segs[k])]
<1>1. \A s : s \in P <=> Paced(s)
  BY DEF Paced
<1> HIDE DEF P
<1>2. ASSUME NEW k \in 1 .. m, NEW x \in P
      PROVE  ResampleSegment(x, segs[k]) \in P
  BY <1>1, SegmentLengthens, Zenon DEF Lengthened
<1>3. step \in [1 .. m -> [P -> P]]
  BY <1>2
<1>4. \A k \in 1 .. m : \A x \in P : step[k][x] = ResampleSegment(x, segs[k])
  OBVIOUS
<1> HIDE DEF step
<1>5. <<0>> \in P
  <2>1. Paced(<<0>>)
    BY DEF Paced
  <2> QED BY <1>1, <2>1, Zenon
<1>6. PICK h \in [0 .. m -> P] : Iterates(h, m, <<0>>, step)
  BY <1>3, <1>5, Recursion, Zenon
<1>7. By(h)
  <2>1. ASSUME NEW k \in 0 .. m
        PROVE  (IF k = 0 THEN <<0>> ELSE step[k][h[k - 1]]) =
               (IF k = 0 THEN <<0>> ELSE ResampleSegment(h[k - 1], segs[k]))
    <3>1. CASE k = 0
      BY <3>1
    <3>2. CASE k # 0
      <4>1. k \in 1 .. m /\ k - 1 \in 0 .. m
        BY <3>2
      <4>2. h[k - 1] \in P
        BY <1>6, <4>1
      <4> QED BY <1>4, <4>1, <4>2, Zenon
    <3> QED BY <3>1, <3>2
  <2>2. h = [k \in 0 .. m |-> IF k = 0 THEN <<0>> ELSE step[k][h[k - 1]]]
    BY <1>6, Zenon DEF Iterates
  <2>3. [k \in 0 .. m |-> IF k = 0 THEN <<0>> ELSE step[k][h[k - 1]]]
          = [k \in 0 .. m |-> IF k = 0 THEN <<0>> ELSE ResampleSegment(h[k - 1], segs[k])]
    BY <2>1, Zenon
  <2> QED BY <2>2, <2>3, Zenon
<1>8. PICK f : By(f) /\ f[m] = Resample(segs)
  <2>1. \E f : By(f)
    BY <1>7, Zenon
  <2> QED BY <2>1, Zenon DEF Resample
<1>9. f[0] = <<0>> /\ \A k \in 1 .. m : f[k] = ResampleSegment(f[k - 1], segs[k])
  <2>1. f[0] = <<0>>
    BY <1>8
  <2>2. ASSUME NEW k \in 1 .. m PROVE f[k] = ResampleSegment(f[k - 1], segs[k])
    <3>1. k \in 0 .. m /\ k # 0
      OBVIOUS
    <3> QED BY <1>8, <3>1, Zenon
  <2> QED BY <2>1, <2>2
<1> HIDE DEF By
<1>10. PICK whole : whole = CumulativeArcLengths(segs) /\ Sums(whole, m, segs)
  <2>1. segs \in Seq(Int)
    OBVIOUS
  <2> QED BY <2>1, LengthsAre, Zenon
<1> DEFINE S == {k \in Nat : Covers(f[k], whole[k + 1]) /\ (k >= 1 => Last(f[k]) >= 48)}
<1>11. 0 \in S
  <2>1. Last(<<0>>) = 0 /\ whole[0 + 1] = 0 /\ 0 \in Nat
    BY <1>10 DEF Last, Sums
  <2>2. Covers(f[0], whole[0 + 1])
    BY <1>1, <1>5, <1>9, <2>1, Zenon DEF Covers
  <2> QED BY <2>2
<1>12. ASSUME NEW k \in 0 .. m - 1, k \in S PROVE k + 1 \in S
  <2>1. k + 1 \in 1 .. m /\ (k + 1) - 1 = k /\ k + 1 \in Nat
    OBVIOUS
  <2>2. f[k + 1] = ResampleSegment(f[k], segs[k + 1])
    BY <1>9, <2>1, Zenon
  <2>3. Covers(f[k], whole[k + 1]) /\ (k >= 1 => Last(f[k]) >= 48)
    BY <1>12
  <2>4. Segment(segs[k + 1])
    BY <2>1
  <2>5. PICK seg \in Nat : seg = segs[k + 1] /\ seg >= 48
    BY <2>4 DEF Segment, kPathSpacing
  <2>6. whole[(k + 1) + 1] = whole[k + 1] + seg
    BY <1>10, <2>1, <2>5, Zenon DEF Sums
  <2>7. Lengthened(f[k], f[k + 1], seg) /\ Paced(f[k])
    BY <2>2, <2>3, <2>4, <2>5, SegmentLengthens, Zenon DEF Covers
  <2>8. PICK l \in Nat, t \in Nat : l = Last(f[k]) /\ t = Last(f[k + 1])
    BY <2>3, <2>7 DEF Covers, Lengthened
  <2>9. l = whole[k + 1] \/ l >= 1200
    BY <2>3, <2>8 DEF Covers, kExtentCap
  <2>10. /\ l >= 1200 => f[k + 1] = f[k]
         /\ l < 1200 => t = l + seg \/ t >= 1200
    BY <2>7, <2>8 DEF Lengthened, kExtentCap
  <2>11. (t = whole[(k + 1) + 1] \/ t >= 1200) /\ t >= 48
    <3>1. CASE l >= 1200
      BY <2>8, <2>10, <3>1
    <3>2. CASE l < 1200
      BY <2>5, <2>6, <2>9, <2>10, <3>2
    <3> QED BY <3>1, <3>2
  <2>12. Covers(f[k + 1], whole[(k + 1) + 1])
    <3>1. t = whole[(k + 1) + 1] \/ t >= kExtentCap
      BY <2>11 DEF kExtentCap
    <3> QED BY <2>7, <2>8, <3>1, Zenon DEF Covers, Lengthened
  <2> QED BY <2>1, <2>8, <2>11, <2>12
<1> HIDE DEF S
<1>13. m \in S
  <2>1. m \in 0 .. m
    OBVIOUS
  <2> QED BY <1>11, <1>12, <2>1, InductionTo, Zenon
<1>14. Covers(f[m], whole[m + 1]) /\ (m >= 1 => Last(f[m]) >= 48)
  BY <1>13 DEF S
<1>15. m = 0 => Resample(segs) = <<0>>
  BY <1>8, <1>9, Zenon
<1> QED BY <1>8, <1>10, <1>14, <1>15 DEF kPathSpacing

-----------------------------------------------------------------------------
(* The selection of points.                                                *)

\* nearestIndex stays inside the path.
LEMMA NearestInside ==
  ASSUME NEW s, NEW n \in Nat \ {0}, DOMAIN s = 1 .. n, Len(s) = n, NEW num, NEW den
  PROVE  NearestIndex(s, num, den) \in 1 .. n
<1> DEFINE B == {i \in DOMAIN s : s[i] * den < num}
<1>1. PICK c \in 0 .. n : c = Cardinality(B)
  <2>1. IsFiniteSet(1 .. n) /\ Cardinality(1 .. n) = n
    <3>1. IsFiniteSet(1 .. n) /\ Cardinality(1 .. n) = IF 1 > n THEN 0 ELSE n - 1 + 1
      BY FS_Interval
    <3> QED BY <3>1
  <2>2. B \in SUBSET (1 .. n)
    OBVIOUS
  <2> HIDE DEF B
  <2>3. IsFiniteSet(B) /\ Cardinality(B) <= Cardinality(1 .. n)
    BY <2>1, <2>2, FS_Subset, Zenon
  <2>4. Cardinality(B) \in Nat
    BY <2>3, FS_CardinalityType, Zenon
  <2> QED BY <2>1, <2>3, <2>4
<1> HIDE DEF B
<1>2. PICK pos \in 1 .. n + 1 : pos = Cardinality(B) + 1
  BY <1>1
<1>3. NearestIndex(s, num, den) \in {1, n, pos, pos - 1}
  BY <1>2, Zenon DEF NearestIndex, B
<1>4. NearestIndex(s, num, den) \in {pos, pos - 1} => (pos # 1 /\ pos <= n) \/ NearestIndex(s, num, den) \in {1, n}
  <2>1. CASE pos = 1 \/ pos > n
    BY <1>2, <2>1, Zenon DEF NearestIndex, B
  <2>2. CASE ~(pos = 1 \/ pos > n)
    BY <2>2
  <2> QED BY <2>1, <2>2
<1> QED BY <1>2, <1>3, <1>4

\* ... and finds a point within half a step.
LEMMA NearestIsNear ==
  ASSUME NEW s, Paced(s), NEW want \in Nat, want <= Last(s)
  PROVE  /\ NearestIndex(s, want, 1) \in 1 .. Len(s)
         /\ 2 * (s[NearestIndex(s, want, 1)] - want) \in -12 .. 12
<1>1. PICK n \in Nat \ {0} : n = Len(s) /\ DOMAIN s = 1 .. n /\ (\A i \in 1 .. n : s[i] \in Nat)
                             /\ Last(s) = s[n]
  BY LastIs DEF Paced
<1>2. IsIncreasing(s) /\ s \in Seq(Int)
  BY PacedIs
<1>3. PICK m \in 0 .. n :
        /\ {i \in 1 .. n : s[i] < want} = 1 .. m
        /\ \A i \in 1 .. m : s[i] < want
        /\ \A i \in m + 1 .. n : s[i] >= want
  <2>1. want \in Int /\ 1 \in 1 .. Len(s) + 1 /\ 1 - 1 = 0
    BY <1>1
  <2>2. \E m \in 1 - 1 .. Len(s) :
           /\ {i \in 1 .. Len(s) : s[i] < want} = 1 .. m
           /\ \A i \in 1 .. m : s[i] < want
           /\ \A i \in m + 1 .. Len(s) : s[i] >= want
    BY <1>2, <2>1, BelowIsPrefix, Zenon
  <2> QED BY <1>1, <2>1, <2>2, Zenon
<1>4. {i \in DOMAIN s : s[i] * 1 < want} = 1 .. m
  <2>1. \A i \in 1 .. n : s[i] * 1 = s[i]
    BY <1>1
  <2>2. {i \in 1 .. n : s[i] * 1 < want} = {i \in 1 .. n : s[i] < want}
    BY <2>1, Zenon
  <2> QED BY <1>1, <1>3, <2>2, Zenon
<1>5. Cardinality(1 .. m) = m
  <2>1. Cardinality(1 .. m) = IF 1 > m THEN 0 ELSE m - 1 + 1
    BY FS_Interval
  <2> QED BY <2>1
<1>6. PICK pos \in Nat : pos = m + 1 /\ pos = Cardinality({i \in DOMAIN s : s[i] * 1 < want}) + 1
  <2>0. m \in Nat
    OBVIOUS
  <2>1. PICK c \in Nat : c = Cardinality({i \in DOMAIN s : s[i] * 1 < want}) /\ c = m
    BY <1>4, <1>5, <2>0, Zenon
  <2>2. c + 1 \in Nat
    OBVIOUS
  <2> QED BY <2>1, <2>2, Zenon
<1>7. CASE pos = 1
  <2>1. NearestIndex(s, want, 1) = 1
    BY <1>6, <1>7, Zenon DEF NearestIndex
  <2>2. 1 \in m + 1 .. n /\ s[1] = 0
    BY <1>1, <1>6, <1>7 DEF Paced
  <2>3. s[1] = want
    <3>1. s[1] >= want
      BY <1>3, <2>2, Zenon
    <3> QED BY <2>2, <3>1
  <2>4. 2 * (s[1] - want) \in -12 .. 12 /\ 1 \in 1 .. Len(s)
    <3>1. want - want = 0
      OBVIOUS
    <3> QED BY <1>1, <2>3, <3>1
  <2> QED BY <2>1, <2>4, Zenon
<1>8. CASE pos > 1
  <2>1. pos <= n
    <3>1. SUFFICES ASSUME m = n PROVE FALSE
      BY <1>6
    <3>2. n \in 1 .. m
      BY <3>1
    <3> QED BY <1>1, <1>3, <3>2
  <2>2. m \in 1 .. n /\ m \in 1 .. m /\ m + 1 \in m + 1 .. n /\ m \in 1 .. Len(s) - 1 /\ m = pos - 1
    BY <1>1, <1>6, <1>8, <2>1
  <2>3. PICK a \in Nat, b \in Nat : a = s[m] /\ b = s[pos] /\ a < want /\ want <= b /\ b - a \in 10 .. 12
    <3>1. s[m] < want /\ s[m + 1] >= want
      BY <1>3, <2>2, Zenon
    <3>2. s[m + 1] - s[m] \in 10 .. 12
      BY <2>2, Zenon DEF Paced
    <3>3. s[m] \in Nat /\ s[pos] \in Nat /\ pos = m + 1
      BY <1>1, <1>6, <1>8, <2>1, <2>2
    <3> QED BY <3>1, <3>2, <3>3
  <2>4. b * 1 - want < want - a * 1 <=> b - want < want - a
    BY <2>3
  <2>5. NearestIndex(s, want, 1) = IF b - want < want - a THEN pos ELSE m
    <3>1. ~(pos = 1) /\ ~(pos > Len(s))
      BY <1>1, <1>8, <2>1
    <3> QED BY <1>6, <2>2, <2>3, <2>4, <3>1, Zenon DEF NearestIndex
  <2>6. CASE b - want < want - a
    <3>1. NearestIndex(s, want, 1) = pos /\ 2 * (b - want) \in -12 .. 12
      BY <2>3, <2>5, <2>6
    <3> QED BY <1>1, <1>6, <2>1, <2>3, <3>1
  <2>7. CASE ~(b - want < want - a)
    <3>1. NearestIndex(s, want, 1) = m /\ 2 * (a - want) \in -12 .. 12
      BY <2>3, <2>5, <2>7
    <3> QED BY <1>1, <2>2, <2>3, <3>1
  <2> QED BY <2>6, <2>7
<1> QED BY <1>6, <1>7, <1>8

\* The near arcs that a path reaches, and the indices the selection starts from.
Reached(s) == {w \in kNearArcs : w < Least(kExtentCap, Last(s))}

Candidates(s) == SelectIndices(s) \cup {1} \cup {NearestIndex(s, want, 1) : want \in Reached(s)}

\* The candidates hold the first point, a point near each near arc, and two
\* more behind the first on a path of a metre.
LEMMA CandidatesAre ==
  ASSUME NEW s, Paced(s)
  PROVE  /\ Candidates(s) \subseteq 1 .. Len(s) /\ 1 \in Candidates(s)
         /\ \A want \in Reached(s) :
              \E i \in Candidates(s) : i <= 11 /\ 2 * (s[i] - want) \in -12 .. 12
<1>1. PICK n \in Nat \ {0} : n = Len(s) /\ DOMAIN s = 1 .. n /\ \A i \in 1 .. n : s[i] \in Nat
  BY DEF Paced
<1>2. PICK l \in Nat : l = Last(s)
  BY LastIs
<1>3. SelectIndices(s) \subseteq 1 .. n
  <2>1. \A num, den : NearestIndex(s, num, den) \in 1 .. n
    BY <1>1, NearestInside, Zenon
  <2>2. 1 \in 1 .. n
    OBVIOUS
  <2> QED BY <2>1, <2>2, Zenon DEF SelectIndices
<1>4. ASSUME NEW want \in Reached(s)
      PROVE  NearestIndex(s, want, 1) \in 1 .. n /\ NearestIndex(s, want, 1) <= 11
             /\ 2 * (s[NearestIndex(s, want, 1)] - want) \in -12 .. 12
  <2>1. want \in Nat /\ want <= 96 /\ want <= l
    BY <1>2 DEF Reached, kNearArcs, kExtentCap, Least
  <2>2. PICK i : i = NearestIndex(s, want, 1) /\ i \in 1 .. n /\ 2 * (s[i] - want) \in -12 .. 12
    BY <1>1, <1>2, <2>1, NearestIsNear, Zenon
  <2>3. PICK a \in Nat : a = s[i] /\ 10 * (i - 1) <= a
    BY <1>1, <2>2, PacedIs
  <2>4. i <= 11
    BY <2>1, <2>2, <2>3
  <2> QED BY <2>2, <2>4, Zenon
<1>5. 1 \in 1 .. n
  OBVIOUS
<1> QED BY <1>1, <1>3, <1>4, <1>5, Zenon DEF Candidates

\* selectPoints: a path of a metre has three points to choose from.
LEMMA ThreeCandidates ==
  ASSUME NEW s, Paced(s), Last(s) >= kPathSpacing
  PROVE  Cardinality(Candidates(s)) >= 3
<1>1. PICK n \in Nat \ {0} : n = Len(s) /\ \A i \in 1 .. n : s[i] \in Nat
  BY DEF Paced
<1>2. PICK l \in Nat : l = Last(s) /\ l >= 48
  BY LastIs DEF kPathSpacing
<1>3. Candidates(s) \subseteq 1 .. n /\ 1 \in Candidates(s)
  BY <1>1, CandidatesAre, Zenon
<1>4. 12 \in Reached(s) /\ 24 \in Reached(s)
  BY <1>2 DEF Reached, kNearArcs, kExtentCap, Least
<1>5. PICK x \in Candidates(s) : 2 * (s[x] - 12) \in -12 .. 12
  BY <1>4, CandidatesAre, Zenon
<1>6. PICK y \in Candidates(s) : 2 * (s[y] - 24) \in -12 .. 12
  BY <1>4, CandidatesAre, Zenon
<1>7. x \in 1 .. n /\ y \in 1 .. n /\ 1 \in 1 .. n
  BY <1>3, <1>5, <1>6
<1>8. /\ s[x] >= 6 /\ s[x] <= 18 /\ s[y] >= 18 /\ s[1] = 0
      /\ s[x] >= 10 * (x - 1) /\ s[x] <= 12 * (x - 1) /\ s[y] <= 12 * (y - 1)
  <2>1. s[x] \in Nat /\ s[y] \in Nat
    BY <1>1, <1>7
  <2>2. s[x] >= 10 * (x - 1) /\ s[x] <= 12 * (x - 1) /\ s[y] <= 12 * (y - 1)
    BY <1>1, <1>7, PacedIs
  <2>3. s[1] = 0
    BY DEF Paced
  <2> QED BY <1>5, <1>6, <2>1, <2>2, <2>3
<1>9. x = 2 /\ y >= 3
  <2>1. PICK a \in Nat, b \in Nat : a = s[x] /\ b = s[y]
    BY <1>1, <1>7
  <2> QED BY <1>7, <1>8, <2>1
<1>10. Cardinality({1, x, y}) = 3 /\ {1, x, y} \in SUBSET Candidates(s)
  <2>1. IsFiniteSet({1}) /\ Cardinality({1}) = 1
    BY FS_Singleton, Zenon
  <2>2. IsFiniteSet({1} \cup {x}) /\ Cardinality({1} \cup {x}) = 1 + 1
    <3>1. x \notin {1}
      BY <1>9
    <3> QED BY <2>1, <3>1, FS_AddElement, Zenon
  <2>3. Cardinality(({1} \cup {x}) \cup {y}) = (1 + 1) + 1
    <3>1. y \notin {1} \cup {x}
      BY <1>7, <1>9
    <3> QED BY <2>2, <3>1, FS_AddElement, Zenon
  <2>4. ({1} \cup {x}) \cup {y} = {1, x, y}
    OBVIOUS
  <2>5. {1, x, y} \in SUBSET Candidates(s)
    BY <1>3, <1>5, <1>6, Zenon
  <2> QED BY <2>3, <2>4, <2>5
<1>11. IsFiniteSet(Candidates(s)) /\ Cardinality(Candidates(s)) \in Nat
  BY <1>3, RanksIncrease, Zenon
<1>12. Cardinality({1, x, y}) <= Cardinality(Candidates(s))
  BY <1>10, <1>11, FS_Subset, Zenon
<1> QED BY <1>10, <1>11, <1>12

\* The distances between the selected points, and what is put in front.
Chords(s, p, m) == [i \in 1 .. m - 1 |-> s[p[i + 1]] - s[p[i]]]

Behind(gap, chords) == SubSeq(<<gap>> \o chords, 1, Least(Len(chords) + 1, kMaxPoints - 1))

\* The points' arc lengths: those of the indices p in order, or the ego pose
\* and as many of them as still fit behind it.
PlacedAt(x, s, p, m, gap) ==
  IF gap > kEgoGap
  THEN /\ Len(x) = Least(m, kMaxPoints - 1) + 1 /\ x[1] = 0
       /\ \A i \in 1 .. Len(x) - 1 : x[i + 1] = gap + s[p[i]]
  ELSE Len(x) = m /\ \A i \in 1 .. m : x[i] = s[p[i]]

\* m indices of points, from the first one on.
Indices(p, m, s) == m \in Nat \ {0} /\ p \in [1 .. m -> 1 .. Len(s)] /\ p[1] = 1

\* The indices of the selected points.
Picked(s, p, m) == m \in Nat \ {0} /\ p = SortedPrefix(Candidates(s), kMaxPoints)
                   /\ Lists(p, m, Candidates(s), kMaxPoints)

\* selectPoints: the points that are chosen, the first of the path among them.
LEMMA PickedExists ==
  ASSUME NEW s, Paced(s)
  PROVE  \E p, m : Picked(s, p, m) /\ Indices(p, m, s)
<1>1. Candidates(s) \subseteq 1 .. Len(s) /\ 1 \in Candidates(s)
  BY CandidatesAre, Zenon
<1>2. Len(s) \in Nat /\ kMaxPoints \in Nat /\ 1 <= kMaxPoints
  BY DEF Paced, kMaxPoints
<1>3. PICK p, m : m \in Nat /\ p = SortedPrefix(Candidates(s), kMaxPoints)
                    /\ Lists(p, m, Candidates(s), kMaxPoints)
  BY <1>1, <1>2, SortedPrefixLists, Zenon
<1>4. PICK k \in 1 .. m : k <= 1 /\ p[k] = 1
  BY <1>1, <1>2, <1>3, Zenon DEF Lists
<1>5. k = 1 /\ m \in Nat \ {0}
  BY <1>3, <1>4
<1>6. p \in [1 .. m -> 1 .. Len(s)]
  BY <1>1, <1>3 DEF Lists
<1> QED BY <1>3, <1>4, <1>5, <1>6, Zenon DEF Picked, Indices

\* selectPoints: the steps between chosen points are never negative.
LEMMA ChordsAre ==
  ASSUME NEW s, Paced(s), NEW m \in Nat \ {0}, NEW p \in [1 .. m -> 1 .. Len(s)],
         \A i, j \in 1 .. m : i < j => p[i] < p[j]
  PROVE  /\ Chords(s, p, m) \in Seq(Nat) /\ Len(Chords(s, p, m)) = m - 1
         /\ \A i \in 1 .. m - 1 : Chords(s, p, m)[i] = s[p[i + 1]] - s[p[i]]
<1>1. ASSUME NEW i \in 1 .. m - 1 PROVE s[p[i + 1]] - s[p[i]] \in Nat
  <2>1. i \in 1 .. m /\ i + 1 \in 1 .. m /\ i < i + 1
    OBVIOUS
  <2>2. PICK a \in 1 .. Len(s), b \in 1 .. Len(s) : a = p[i] /\ b = p[i + 1] /\ a < b
    BY <2>1, Zenon
  <2>3. s[a] < s[b]
    BY <2>2, PacedIs, IncreasesLater, Zenon
  <2>4. s[a] \in Nat /\ s[b] \in Nat
    BY DEF Paced
  <2> QED BY <2>2, <2>3, <2>4
<1> DEFINE c == [i \in 1 .. m - 1 |-> s[p[i + 1]] - s[p[i]]]
<1>2. c \in [1 .. m - 1 -> Nat]
  BY <1>1
<1>3. \A i \in 1 .. m - 1 : c[i] = s[p[i + 1]] - s[p[i]]
  OBVIOUS
<1>4. c = Chords(s, p, m)
  BY DEF Chords
<1> HIDE DEF c
<1>5. c \in Seq(Nat) /\ Len(c) = m - 1
  <2>1. PICK l \in Nat : l = m - 1
    OBVIOUS
  <2>2. c \in [1 .. l -> Nat]
    BY <1>2, <2>1
  <2>3. c \in Seq(Nat) /\ Len(c) = l
    BY <2>2
  <2> QED BY <2>1, <2>3
<1> QED BY <1>3, <1>4, <1>5, Zenon

\* The ego pose is put in front of as many steps as the budget leaves.
LEMMA BehindIs ==
  ASSUME NEW gap \in Nat, NEW c \in Seq(Nat), NEW l \in Nat, Len(c) = l
  PROVE  \E q \in 1 .. l + 1 :
           /\ q = Least(l + 1, kMaxPoints - 1) /\ Behind(gap, c) \in Seq(Nat)
           /\ Len(Behind(gap, c)) = q /\ Behind(gap, c)[1] = gap
           /\ \A i \in 1 .. q - 1 : Behind(gap, c)[i + 1] = c[i]
<1>1. PICK q \in 1 .. l + 1 : q = Least(l + 1, kMaxPoints - 1)
  BY DEF Least, kMaxPoints
<1> DEFINE x == <<gap>> \o c
<1>2. x \in Seq(Nat) /\ Len(x) = l + 1 /\ x[1] = gap
  OBVIOUS
<1>3. ASSUME NEW i \in 1 .. l PROVE x[i + 1] = c[i]
  OBVIOUS
<1>4. Behind(gap, c) = SubSeq(x, 1, q)
  BY <1>1, Zenon DEF Behind
<1> HIDE DEF x
<1>5. SubSeq(x, 1, q) \in Seq(Nat)
  BY <1>1, <1>2
<1>6. Len(SubSeq(x, 1, q)) = q
  BY <1>1, <1>2
<1>7. \A i \in 1 .. q : SubSeq(x, 1, q)[i] = x[i]
  BY <1>1, <1>2
<1>8. SubSeq(x, 1, q)[1] = gap
  <2>1. 1 \in 1 .. q
    OBVIOUS
  <2> QED BY <1>2, <1>7, <2>1, Zenon
<1>9. ASSUME NEW i \in 1 .. q - 1 PROVE SubSeq(x, 1, q)[i + 1] = c[i]
  <2>1. i + 1 \in 1 .. q /\ i \in 1 .. l
    BY <1>1
  <2> QED BY <1>3, <1>7, <2>1, Zenon
<1> QED BY <1>1, <1>4, <1>5, <1>6, <1>8, <1>9, Zenon

\* x goes on from b by the first q chords.
Follows(x, q, b, s, p) ==
  x[1] = b /\ \A i \in 1 .. q : x[i + 1] = x[i] + (s[p[i + 1]] - s[p[i]])

\* x is, up to its end, b and the arc lengths of the points.
Reaches(x, q, b, s, p) == \A i \in 1 .. q + 1 : x[i] = b + s[p[i]]

\* Running sums of chords are the arc lengths at their ends.
LEMMA ChordsSum ==
  ASSUME NEW s, Paced(s), NEW m, NEW p, Indices(p, m, s),
         NEW x, NEW q \in 0 .. m - 1, NEW b \in Nat, Follows(x, q, b, s, p)
  PROVE  Reaches(x, q, b, s, p)
<1> m \in Nat \ {0} /\ p \in [1 .. m -> 1 .. Len(s)] /\ p[1] = 1
  BY DEF Indices
<1>1. \A i \in 1 .. m : s[p[i]] \in Nat
  <2>1. \A i \in 1 .. Len(s) : s[i] \in Nat
    BY DEF Paced
  <2>2. \A i \in 1 .. m : p[i] \in 1 .. Len(s)
    OBVIOUS
  <2> QED BY <2>1, <2>2, Zenon
<1>0. q \in Nat /\ x[1] = b /\ \A i \in 1 .. q : x[i + 1] = x[i] + (s[p[i + 1]] - s[p[i]])
  BY DEF Follows
<1> DEFINE S == {k \in Nat : x[k + 1] = b + s[p[k + 1]]}
<1>2. 0 \in S
  <2>1. s[1] = 0
    BY DEF Paced
  <2> QED BY <1>0, <2>1
<1>3. ASSUME NEW k \in 0 .. q - 1, k \in S PROVE k + 1 \in S
  <2>1. k + 1 \in 1 .. q /\ k + 1 \in 1 .. m /\ (k + 1) + 1 \in 1 .. m
    OBVIOUS
  <2>2. x[(k + 1) + 1] = x[k + 1] + (s[p[(k + 1) + 1]] - s[p[k + 1]])
    BY <1>0, <2>1, Zenon
  <2>3. PICK u \in Nat, v \in Nat : u = s[p[k + 1]] /\ v = s[p[(k + 1) + 1]]
    BY <1>1, <2>1, Zenon
  <2>4. x[(k + 1) + 1] = b + v
    BY <1>3, <2>2, <2>3, SMTT(60)
  <2> QED BY <2>3, <2>4
<1> HIDE DEF S
<1>4. \A k \in 0 .. q : k \in S
  BY <1>0, <1>2, <1>3, InductionTo, Zenon
<1>5. ASSUME NEW i \in 1 .. q + 1 PROVE x[i] = b + s[p[i]]
  <2>1. i - 1 \in 0 .. q /\ (i - 1) + 1 = i
    OBVIOUS
  <2>2. x[(i - 1) + 1] = b + s[p[(i - 1) + 1]]
    BY <1>4, <2>1 DEF S
  <2> QED BY <2>1, <2>2, Zenon
<1> QED BY <1>5 DEF Reaches

\* vp_reference.hpp: where the selected points are.
LEMMA PointsPlaced ==
  ASSUME NEW s, Paced(s), NEW p, NEW m, Picked(s, p, m), Indices(p, m, s),
         NEW gap \in Nat
  PROVE  LET x == CumulativeArcLengths(SelectedSteps(s, gap))
         IN  x \in Seq(Int) /\ PlacedAt(x, s, p, m, gap)
<1>1. m \in Nat \ {0} /\ \A i, j \in 1 .. m : i < j => p[i] < p[j]
  BY Zenon DEF Picked, Lists
<1>2. PICK c : c = Chords(s, p, m)
  OBVIOUS
<1>3. c \in Seq(Nat) /\ Len(c) = m - 1 /\ \A i \in 1 .. m - 1 : c[i] = s[p[i + 1]] - s[p[i]]
  BY <1>1, <1>2, ChordsAre, ZenonT(60) DEF Indices
<1>4. PICK steps : steps = SelectedSteps(s, gap)
                     /\ steps = IF gap > kEgoGap THEN Behind(gap, c) ELSE c
  <2>1. Len(p) = m
    BY DEF Indices
  <2>2. p = SortedPrefix(SelectIndices(s) \cup {1} \cup
                           {NearestIndex(s, want, 1) :
                              want \in {w \in kNearArcs : w < Least(kExtentCap, Last(s))}}, kMaxPoints)
    BY Zenon DEF Picked, Candidates, Reached
  <2>3. c = [i \in 1 .. Len(p) - 1 |-> s[p[i + 1]] - s[p[i]]]
    BY <1>2, <2>1, Zenon DEF Chords
  <2>4. SelectedSteps(s, gap) = IF gap > kEgoGap THEN Behind(gap, c) ELSE c
    BY <2>2, <2>3, Zenon DEF SelectedSteps, Behind
  <2> QED BY <2>4, Zenon
<1>5. PICK x : x = CumulativeArcLengths(steps)
  OBVIOUS
<1>6. CASE gap > kEgoGap
  <2>1. steps = Behind(gap, c)
    BY <1>4, <1>6
  <2>2. PICK l \in Nat : l = m - 1 /\ l + 1 = m
    BY <1>1
  <2>3. PICK q \in 1 .. l + 1 :
           /\ q = Least(l + 1, kMaxPoints - 1) /\ steps \in Seq(Nat)
           /\ Len(steps) = q /\ steps[1] = gap
           /\ \A i \in 1 .. q - 1 : steps[i + 1] = c[i]
    <3>1. PICK b : b = Behind(gap, c) /\ b = steps
      BY <2>1
    <3>2. Len(c) = l
      BY <1>3, <2>2
    <3>3. \E q \in 1 .. l + 1 :
           /\ q = Least(l + 1, kMaxPoints - 1) /\ Behind(gap, c) \in Seq(Nat)
           /\ Len(Behind(gap, c)) = q /\ Behind(gap, c)[1] = gap
           /\ \A i \in 1 .. q - 1 : Behind(gap, c)[i + 1] = c[i]
      BY <1>3, <3>2, BehindIs, ZenonT(60)
    <3> QED BY <3>1, <3>3, Zenon
  <2>4. q \in Nat /\ steps \in Seq(Int)
    BY <2>3
  <2>5. Sums(x, q, steps)
    BY <1>5, <2>3, <2>4, LengthsAre, Zenon
  <2>6. x \in Seq(Int) /\ Len(x) = q + 1
    BY <2>4, <2>5 DEF Sums
  <2> DEFINE y == [i \in 1 .. q |-> x[i + 1]]
  <2>7. \A i \in 1 .. q : y[i] = x[i + 1]
    OBVIOUS
  <2> HIDE DEF y
  <2>8. y[1] = gap
    <3>1. 1 \in 1 .. q /\ 1 + 1 = 2 /\ 0 + gap = gap
      BY <2>3
    <3>2. x[1 + 1] = x[1] + steps[1] /\ x[1] = 0
      BY <2>5, <3>1, Zenon DEF Sums
    <3> QED BY <2>3, <2>7, <3>1, <3>2, Zenon
  <2>9. q - 1 \in 0 .. m - 1 /\ (q - 1) + 1 = q
    BY <2>2, <2>3
  <2>10. ASSUME NEW i \in 1 .. q - 1 PROVE y[i + 1] = y[i] + (s[p[i + 1]] - s[p[i]])
    <3>1. i \in 1 .. q /\ i + 1 \in 1 .. q /\ i \in 1 .. m - 1
      BY <2>2, <2>3
    <3>2. x[(i + 1) + 1] = x[i + 1] + steps[i + 1]
      BY <2>5, <3>1, Zenon DEF Sums
    <3> QED BY <1>3, <2>3, <2>7, <3>1, <3>2, Zenon
  <2>11. \A i \in 1 .. q : y[i] = gap + s[p[i]]
    <3>1. \A i \in 1 .. (q - 1) + 1 : y[i] = gap + s[p[i]]
      <4>1. Follows(y, q - 1, gap, s, p)
        BY <2>8, <2>10, Zenon DEF Follows
      <4>2. Reaches(y, q - 1, gap, s, p)
        BY <2>9, <4>1, ChordsSum, Zenon
      <4> QED BY <4>2, Zenon DEF Reaches
    <3> QED BY <2>9, <3>1, Zenon
  <2>12. (q + 1) - 1 = q /\ x[1] = 0 /\ q = Least(m, kMaxPoints - 1)
    BY <2>2, <2>3, <2>5 DEF Sums
  <2>13. PlacedAt(x, s, p, m, gap)
    BY <1>6, <2>6, <2>7, <2>11, <2>12, Zenon DEF PlacedAt
  <2> QED BY <1>4, <1>5, <2>6, <2>13, Zenon
<1>7. CASE ~(gap > kEgoGap)
  <2>1. PICK l \in Nat : l = m - 1 /\ l + 1 = m
    BY <1>1
  <2>2. steps = c /\ c \in Seq(Int) /\ Len(c) = l
    BY <1>3, <1>4, <1>7, <2>1
  <2>3. Sums(x, l, c)
    BY <1>5, <2>2, LengthsAre, Zenon
  <2>4. x \in Seq(Int) /\ Len(x) = m
    BY <2>1, <2>3 DEF Sums
  <2>5. \A i \in 1 .. l : x[i + 1] = x[i] + (s[p[i + 1]] - s[p[i]])
    BY <1>3, <2>1, <2>3, Zenon DEF Sums
  <2>6. \A i \in 1 .. l + 1 : x[i] = 0 + s[p[i]]
    <3>1. x[1] = 0 /\ 0 \in Nat /\ l \in 0 .. m - 1
      BY <2>1, <2>3 DEF Sums
    <3>2. Follows(x, l, 0, s, p)
      BY <2>5, <3>1, Zenon DEF Follows
    <3>3. Reaches(x, l, 0, s, p)
      BY <3>1, <3>2, ChordsSum, Zenon
    <3> QED BY <3>3, Zenon DEF Reaches
  <2>7. ASSUME NEW i \in 1 .. m PROVE x[i] = s[p[i]]
    <3>1. s[p[i]] \in Nat
      <4>1. p[i] \in 1 .. Len(s)
        BY DEF Indices
      <4> QED BY <4>1 DEF Paced
    <3>2. i \in 1 .. l + 1
      BY <2>1
    <3>3. x[i] = 0 + s[p[i]]
      BY <2>6, <3>2, Zenon
    <3> QED BY <3>1, <3>3
  <2>8. PlacedAt(x, s, p, m, gap)
    BY <1>7, <2>4, <2>7, Zenon DEF PlacedAt
  <2> QED BY <1>4, <1>5, <2>4, <2>8, Zenon
<1> QED BY <1>6, <1>7

-----------------------------------------------------------------------------
(* The schedule.                                                           *)

\* A fraction with a positive denominator, and bounds of it.
Positive(p) == p[1] \in Int /\ p[2] \in Nat \ {0}

UpTo(p, k) == p[1] <= k * p[2]

From(p, k) == k * p[2] <= p[1]

\* What an integer separates is in order.
LEMMA Separated ==
  ASSUME NEW p, NEW q, Positive(p), Positive(q), NEW k \in Int, UpTo(p, k), From(q, k)
  PROVE  AtMost(p, q)
<1>1. PICK a \in Int, b \in Nat \ {0}, c \in Int, d \in Nat \ {0} :
        a = p[1] /\ b = p[2] /\ c = q[1] /\ d = q[2]
  BY DEF Positive
<1>2. a <= k * b /\ k * d <= c
  BY <1>1 DEF UpTo, From
<1>3. PICK u \in Int, w \in Int : u = k * b /\ w = k * d
  OBVIOUS
<1>4. d * a <= d * u
  BY <1>2, <1>3, TimesMonotone
<1>5. b * w <= b * c
  BY <1>2, <1>3, TimesMonotone
<1>6. d * u = b * w
  BY <1>3
<1>7. a * d <= c * b
  BY <1>4, <1>5, <1>6
<1> QED BY <1>1, <1>7 DEF AtMost

\* A bound below a bound is one.
LEMMA FromLess ==
  ASSUME NEW p, Positive(p), NEW k \in Int, NEW l \in Int, l <= k, From(p, k)
  PROVE  From(p, l)
<1>1. PICK a \in Int, b \in Nat \ {0} : a = p[1] /\ b = p[2]
  BY DEF Positive
<1>2. b * l <= b * k
  BY TimesMonotone
<1> QED BY <1>1, <1>2 DEF From

\* A weighted mean is between what it is of.
LEMMA WeightedMean ==
  ASSUME NEW a \in Nat, NEW b \in Nat, a <= b, NEW u \in Nat, NEW w \in Nat
  PROVE  /\ a * (u + w) <= a * u + b * w /\ a * u + b * w <= b * (u + w)
         /\ a * (u + w) <= b * u + a * w /\ b * u + a * w <= b * (u + w)
<1>1. PICK c \in Nat : b = a + c
  OBVIOUS
<1>2. PICK au \in Nat, aw \in Nat, cu \in Nat, cw \in Nat :
        au = a * u /\ aw = a * w /\ cu = c * u /\ cw = c * w
  OBVIOUS
<1>3. a * (u + w) = au + aw /\ b * u = au + cu /\ b * w = aw + cw
      /\ b * (u + w) = au + cu + aw + cw
  BY <1>1, <1>2
<1> QED BY <1>2, <1>3

\* The knots of a schedule of n speeds.
Knots(knots, h, n) ==
  /\ h \in Seq(Nat) /\ n \in Nat /\ n = Len(h) /\ n >= 2
  /\ knots \in Seq(Int) /\ Len(knots) = n /\ knots[1] = 0
  /\ \A i \in 1 .. n - 1 : knots[i + 1] = knots[i] + (h[i] + h[i + 1]) * 6

\* The schedule's knots are running sums of its segments.
LEMMA KnotsAre ==
  ASSUME NEW h \in Seq(Nat), Len(h) >= 2
  PROVE  Knots(ScheduleKnots(h), h, Len(h))
<1>1. PICK n \in Nat, l \in Nat : n = Len(h) /\ l = n - 1 /\ l + 1 = n
  OBVIOUS
<1> DEFINE g == [i \in 1 .. Len(h) - 1 |-> (h[i] + h[i + 1]) * (kResampleStep \div 2)]
<1>2. \A i \in 1 .. l : g[i] = (h[i] + h[i + 1]) * 6 /\ g[i] \in Int
  <2>1. kResampleStep \div 2 = 6
    BY DEF kResampleStep
  <2>2. ASSUME NEW i \in 1 .. l PROVE g[i] = (h[i] + h[i + 1]) * 6 /\ g[i] \in Int
    <3>1. i \in 1 .. Len(h) - 1 /\ i \in 1 .. Len(h) /\ i + 1 \in 1 .. Len(h)
      BY <1>1
    <3>2. h[i] \in Nat /\ h[i + 1] \in Nat
      BY <3>1
    <3>3. g[i] = (h[i] + h[i + 1]) * (kResampleStep \div 2)
      BY <3>1, Zenon
    <3> HIDE DEF g
    <3> QED BY <2>1, <3>2, <3>3
  <2> HIDE DEF g
  <2> QED BY <2>2
<1>3. ScheduleKnots(h) = CumulativeArcLengths(g)
  BY Zenon DEF ScheduleKnots
<1>4. DOMAIN g = 1 .. l /\ g = [i \in 1 .. l |-> g[i]]
  <2>1. Len(h) - 1 = l
    BY <1>1
  <2> QED BY <2>1
<1> HIDE DEF g
<1>5. g \in [1 .. l -> Int]
  BY <1>2, <1>4
<1>6. g \in Seq(Int) /\ Len(g) = l
  BY <1>5
<1>7. Sums(ScheduleKnots(h), l, g)
  BY <1>3, <1>6, LengthsAre, Zenon
<1>8. ScheduleKnots(h) \in Seq(Int) /\ Len(ScheduleKnots(h)) = n /\ ScheduleKnots(h)[1] = 0
  BY <1>1, <1>7, SMTT(60) DEF Sums
<1>9. \A i \in 1 .. n - 1 : ScheduleKnots(h)[i + 1] = ScheduleKnots(h)[i] + (h[i] + h[i + 1]) * 6
  BY <1>1, <1>2, <1>7, Zenon DEF Sums
<1>10. n >= 2
  BY <1>1
<1> QED BY <1>1, <1>8, <1>9, <1>10, Zenon DEF Knots

\* The knots run forwards.
LEMMA KnotsRun ==
  ASSUME NEW knots, NEW h, NEW n, Knots(knots, h, n)
  PROVE  IsNotDecreasing(knots)
<1>1. SUFFICES ASSUME NEW i \in 1 .. n - 1 PROVE knots[i] <= knots[i + 1]
  BY Zenon DEF Knots, IsNotDecreasing
<1>2. i \in 1 .. Len(h) /\ i + 1 \in 1 .. Len(h) /\ i \in 1 .. Len(knots) /\ i + 1 \in 1 .. Len(knots)
  BY DEF Knots
<1>3. h[i] \in Nat /\ h[i + 1] \in Nat /\ knots[i] \in Int
  <2>1. h \in Seq(Nat) /\ knots \in Seq(Int)
    BY Zenon DEF Knots
  <2> QED BY <1>2, <2>1
<1>4. knots[i + 1] = knots[i] + (h[i] + h[i + 1]) * 6
  BY Zenon DEF Knots
<1> QED BY <1>3, <1>4

\* lower_bound in the knots.
LEMMA KnotBelow ==
  ASSUME NEW knots, NEW h, NEW n, Knots(knots, h, n), NEW s \in Nat \ {0}, s < knots[n]
  PROVE  \E lo \in 1 .. n - 1 : /\ lo = Cardinality({i \in DOMAIN knots : knots[i] < s})
                                /\ knots[lo] < s /\ s <= knots[lo + 1]
<1>1. n \in Nat /\ n >= 2 /\ DOMAIN knots = 1 .. n /\ (\A i \in 1 .. n : knots[i] \in Int) /\ knots[1] = 0
  BY DEF Knots
<1> DEFINE T == {i \in 1 .. n : knots[i] >= s}
<1>2. T \subseteq Nat /\ n \in T
  BY <1>1
<1>3. PICK x \in T : \A y \in T : x <= y
  BY <1>2, LeastNat
<1>4. x \in 1 .. n /\ knots[x] >= s /\ x # 1
  BY <1>1, <1>3
<1>5. PICK lo \in 1 .. n - 1 : lo = x - 1 /\ lo + 1 = x
  BY <1>1, <1>4
<1>6. \A i \in 1 .. lo : knots[i] < s
  <2>1. SUFFICES ASSUME NEW i \in 1 .. lo PROVE knots[i] < s
    OBVIOUS
  <2>2. i \in 1 .. n /\ ~(x <= i) /\ knots[i] \in Int
    BY <1>1, <1>4, <1>5
  <2>3. i \notin T
    BY <1>3, <2>2, Zenon
  <2> QED BY <2>2, <2>3
<1> HIDE DEF T
<1>7. ASSUME NEW i \in lo + 1 .. n PROVE ~(knots[i] < s)
  <2>1. x \in 1 .. Len(knots) /\ i \in 1 .. Len(knots) /\ x <= i
    BY <1>4, <1>5 DEF Knots
  <2>2. knots \in Seq(Int) /\ IsNotDecreasing(knots)
    BY KnotsRun, Zenon DEF Knots
  <2>3. knots[x] <= knots[i]
    BY <2>1, <2>2, DecreasesNever, Zenon
  <2>4. knots[x] \in Int /\ knots[i] \in Int
    BY <2>1, <2>2
  <2> QED BY <1>4, <2>3, <2>4
<1>8. {i \in DOMAIN knots : knots[i] < s} = 1 .. lo
  <2>1. ASSUME NEW i \in 1 .. n PROVE i \in 1 .. lo \/ i \in lo + 1 .. n
    OBVIOUS
  <2>2. ASSUME NEW i \in 1 .. lo PROVE i \in 1 .. n
    BY <1>1
  <2> QED BY <1>1, <1>6, <1>7, <2>1, <2>2, Zenon
<1>9. Cardinality(1 .. lo) = lo
  <2>1. Cardinality(1 .. lo) = IF 1 > lo THEN 0 ELSE lo - 1 + 1
    BY FS_Interval
  <2> QED BY <2>1
<1>10. knots[lo] < s /\ s <= knots[lo + 1]
  <2>1. lo \in 1 .. lo
    OBVIOUS
  <2> QED BY <1>4, <1>5, <1>6, <2>1
<1> QED BY <1>8, <1>9, <1>10, Zenon

\* A sample of the schedule behind its end.
Past(x, knots, h, n, s) ==
  /\ s >= knots[n] /\ x.v = <<h[n], 1>>
  /\ x.t = IF h[n] = 0 THEN <<(n - 1) * 36 + 10 * (s - knots[n]), 36>>
           ELSE <<(n - 1) * 12 * h[n] + (s - knots[n]), 12 * h[n]>>

\* A sample between two knots, `into' behind the first of them.
InSegment(x, knots, h, n, s, lo) ==
  /\ s < knots[n] /\ knots[lo] < s /\ s <= knots[lo + 1]
  /\ LET seg  == knots[lo + 1] - knots[lo]
         into == s - knots[lo]
     IN  /\ x.v = <<h[lo] * (seg - into) + h[lo + 1] * into, seg>>
         /\ x.t = <<(lo - 1) * seg + into, seg>>

\* vp_reference.hpp: sampleSpatial.
LEMMA SampleIs ==
  ASSUME NEW knots, NEW h, NEW n, Knots(knots, h, n), NEW s \in Nat \ {0}
  PROVE  \/ Past(SampleSpatial(knots, h, s), knots, h, n, s)
         \/ \E lo \in 1 .. n - 1 : InSegment(SampleSpatial(knots, h, s), knots, h, n, s, lo)
<1>1. Last(knots) = knots[n] /\ Last(h) = h[n] /\ Len(knots) = n
  BY DEF Knots, Last
<1>2. ~(s <= 0) /\ knots[n] \in Int
  <2>1. knots \in Seq(Int) /\ n \in 1 .. Len(knots)
    BY DEF Knots
  <2> QED BY <2>1
<1>3. CASE s >= knots[n]
  <2> DEFINE v == <<h[n], 1>>
             t == IF h[n] = 0 THEN <<(n - 1) * 36 + 10 * (s - knots[n]), 36>>
                  ELSE <<(n - 1) * 12 * h[n] + (s - knots[n]), 12 * h[n]>>
  <2>1. SampleSpatial(knots, h, s) = [v |-> v, t |-> t]
    BY <1>1, <1>2, <1>3, Zenon DEF SampleSpatial
  <2>2. Past(SampleSpatial(knots, h, s), knots, h, n, s)
    <3>1. [v |-> v, t |-> t].v = v /\ [v |-> v, t |-> t].t = t
      <4> HIDE DEF v, t
      <4> QED OBVIOUS
    <3>2. Past([v |-> v, t |-> t], knots, h, n, s)
      BY <1>3, <3>1, Zenon DEF Past
    <3> HIDE DEF v, t
    <3> QED BY <2>1, <3>2, Zenon
  <2> QED BY <2>2
<1>4. CASE ~(s >= knots[n])
  <2>1. s < knots[n]
    BY <1>2, <1>4
  <2>2. PICK lo \in 1 .. n - 1 : /\ lo = Cardinality({i \in DOMAIN knots : knots[i] < s})
                                /\ knots[lo] < s /\ s <= knots[lo + 1]
    BY <2>1, KnotBelow, Zenon
  <2> DEFINE seg  == knots[lo + 1] - knots[lo]
             into == s - knots[lo]
             v    == <<h[lo] * (seg - into) + h[lo + 1] * into, seg>>
             t    == <<(lo - 1) * seg + into, seg>>
  <2>3. SampleSpatial(knots, h, s) = [v |-> v, t |-> t]
    BY <1>1, <1>2, <1>4, <2>2, Zenon DEF SampleSpatial
  <2>4. InSegment(SampleSpatial(knots, h, s), knots, h, n, s, lo)
    <3>1. [v |-> v, t |-> t].v = v /\ [v |-> v, t |-> t].t = t
      <4> HIDE DEF v, t
      <4> QED OBVIOUS
    <3>2. InSegment([v |-> v, t |-> t], knots, h, n, s, lo)
      BY <2>1, <2>2, <3>1, Zenon DEF InSegment
    <3> HIDE DEF v, t
    <3> QED BY <2>3, <3>2, Zenon
  <2> QED BY <2>4, Zenon
<1> QED BY <1>3, <1>4

\* The numbers of a segment of the schedule.
LEMMA SegmentIs ==
  ASSUME NEW knots, NEW h, NEW n, Knots(knots, h, n), NEW lo \in 1 .. n - 1
  PROVE  /\ h[lo] \in Nat /\ h[lo + 1] \in Nat /\ knots[lo] \in Int /\ knots[lo + 1] \in Int
         /\ h[n] \in Nat /\ knots[n] \in Int /\ n \in Nat /\ n >= 2
<1>1. h \in Seq(Nat) /\ knots \in Seq(Int) /\ n \in Nat /\ n >= 2 /\ n = Len(h) /\ n = Len(knots)
  BY Zenon DEF Knots
<1>2. lo \in 1 .. Len(h) /\ lo + 1 \in 1 .. Len(h) /\ n \in 1 .. Len(h)
  BY <1>1
<1>3. h[lo] \in Nat /\ h[lo + 1] \in Nat /\ h[n] \in Nat
  <2>1. h \in Seq(Nat)
    BY <1>1
  <2>2. \A i \in 1 .. Len(h) : h[i] \in Nat
    BY <2>1
  <2> QED BY <1>2, <2>2, Zenon
<1>4. lo \in 1 .. Len(knots) /\ lo + 1 \in 1 .. Len(knots) /\ n \in 1 .. Len(knots)
  BY <1>1
<1>5. knots[lo] \in Int /\ knots[lo + 1] \in Int /\ knots[n] \in Int
  <2>1. knots \in Seq(Int)
    BY <1>1
  <2>2. \A i \in 1 .. Len(knots) : knots[i] \in Int
    BY <2>1
  <2> QED BY <1>4, <2>2, Zenon
<1> QED BY <1>1, <1>3, <1>5, Zenon

\* Such a sample is inside its segment, in time as in speed.
LEMMA WithinIs ==
  ASSUME NEW knots, NEW h, NEW n, Knots(knots, h, n), NEW s \in Nat \ {0}, NEW lo \in 1 .. n - 1,
         NEW x, InSegment(x, knots, h, n, s, lo)
  PROVE  /\ Positive(x.v) /\ Positive(x.t)
         /\ From(x.t, lo - 1) /\ UpTo(x.t, lo)
         /\ h[lo] <= h[lo + 1] => From(x.v, h[lo]) /\ UpTo(x.v, h[lo + 1])
         /\ h[lo] >= h[lo + 1] => From(x.v, h[lo + 1]) /\ UpTo(x.v, h[lo])
<1>1. PICK a \in Nat, b \in Nat, k0 \in Int, k1 \in Int :
        a = h[lo] /\ b = h[lo + 1] /\ k0 = knots[lo] /\ k1 = knots[lo + 1]
  BY SegmentIs, Zenon
<1>2. k0 < s /\ s <= k1
  BY <1>1 DEF InSegment
<1>3. PICK u \in Nat, w \in Nat \ {0}, seg \in Nat \ {0} :
        seg = k1 - k0 /\ w = s - k0 /\ u = seg - w /\ u + w = seg
  BY <1>2
<1>4. x.v = <<a * u + b * w, seg>> /\ x.t = <<(lo - 1) * seg + w, seg>>
  BY <1>1, <1>3, Zenon DEF InSegment
<1>5. PICK vn \in Int, tn \in Int, m \in Nat :
        vn = a * u + b * w /\ tn = (lo - 1) * seg + w /\ m = (lo - 1) * seg /\ lo * seg = m + seg
  OBVIOUS
<1>6. x.v[1] = vn /\ x.v[2] = seg /\ x.t[1] = tn /\ x.t[2] = seg
  BY <1>4, <1>5
<1>7. m <= tn /\ tn <= m + seg
  BY <1>3, <1>5
<1>8. From(x.t, lo - 1) /\ UpTo(x.t, lo)
  BY <1>5, <1>6, <1>7, Zenon DEF From, UpTo
<1>9. ASSUME a <= b PROVE a * seg <= vn /\ vn <= b * seg
  BY <1>3, <1>5, <1>9, WeightedMean, ZenonT(60)
<1>10. ASSUME a >= b PROVE b * seg <= vn /\ vn <= a * seg
  <2>1. b <= a
    BY <1>10
  <2> QED BY <1>3, <1>5, <2>1, WeightedMean, ZenonT(60)
<1> QED BY <1>1, <1>6, <1>8, <1>9, <1>10 DEF Positive, From, UpTo

\* A sample behind the schedule's end says its last speed, and no earlier time.
LEMMA PastIs ==
  ASSUME NEW knots, NEW h, NEW n, Knots(knots, h, n), NEW s \in Nat \ {0},
         NEW x, Past(x, knots, h, n, s)
  PROVE  /\ Positive(x.v) /\ Positive(x.t)
         /\ From(x.t, n - 1) /\ From(x.v, h[n]) /\ UpTo(x.v, h[n])
         /\ h[n] = 0 => x.v[1] = 0
<1>1. PICK m \in Nat, c \in Nat, k \in Int : m = n - 1 /\ c = h[n] /\ k = knots[n]
  <2>1. 1 \in 1 .. n - 1
    BY DEF Knots
  <2>2. n \in Nat /\ n >= 2 /\ h[n] \in Nat /\ knots[n] \in Int
    BY <2>1, SegmentIs, Zenon
  <2>3. n - 1 \in Nat
    BY <2>2
  <2> QED BY <2>2, <2>3, Zenon
<1>2. PICK e \in Nat : e = s - k
  BY <1>1 DEF Past
<1>3. x.v = <<c, 1>> /\ x.t = IF c = 0 THEN <<m * 36 + 10 * e, 36>> ELSE <<m * 12 * c + e, 12 * c>>
  BY <1>1, <1>2, Zenon DEF Past
<1>4. Positive(x.t) /\ From(x.t, m)
  <2>1. CASE c = 0
    <3>1. x.t[1] = m * 36 + 10 * e /\ x.t[2] = 36
      BY <1>3, <2>1
    <3> QED BY <3>1 DEF Positive, From
  <2>2. CASE c # 0
    <3>1. PICK d \in Nat \ {0}, w \in Nat : d = 12 * c /\ w = m * d /\ m * 12 * c = w
      BY <2>2
    <3>2. x.t = <<w + e, d>>
      BY <1>3, <2>2, <3>1, Zenon
    <3>3. x.t[1] = w + e /\ x.t[2] = d
      BY <3>2
    <3>4. w <= w + e /\ w + e \in Int
      OBVIOUS
    <3> QED BY <3>1, <3>3, <3>4, Zenon DEF Positive, From
  <2> QED BY <2>1, <2>2
<1>5. x.v[1] = c /\ x.v[2] = 1
  BY <1>3
<1> QED BY <1>1, <1>4, <1>5 DEF Positive, From, UpTo

\* A schedule that only brakes.
Brakes(h) == \A j \in 1 .. Len(h) - 1 : h[j] >= h[j + 1]

\* The speeds of a braking schedule never rise.
LEMMA BrakesLater ==
  ASSUME NEW h \in Seq(Nat), Brakes(h)
  PROVE  \A i, j \in 1 .. Len(h) : i <= j => h[j] <= h[i]
<1> DEFINE g == [i \in 1 .. Len(h) |-> -h[i]]
<1>1. PICK n \in Nat : n = Len(h) /\ \A i \in 1 .. n : h[i] \in Nat
  OBVIOUS
<1>2. \A i \in 1 .. n : g[i] = -h[i] /\ g[i] \in Int
  BY <1>1
<1>3. g = [i \in 1 .. n |-> g[i]]
  BY <1>1
<1> HIDE DEF g
<1>4. g \in [1 .. n -> Int]
  BY <1>2, <1>3
<1>5. g \in Seq(Int) /\ Len(g) = n
  BY <1>4
<1>6. IsNotDecreasing(g)
  <2>1. SUFFICES ASSUME NEW i \in 1 .. n - 1 PROVE g[i] <= g[i + 1]
    BY <1>5, Zenon DEF IsNotDecreasing
  <2>2. i \in 1 .. n /\ i + 1 \in 1 .. n
    OBVIOUS
  <2>3. h[i] >= h[i + 1]
    BY <1>1, Zenon DEF Brakes
  <2> QED BY <1>1, <1>2, <2>2, <2>3
<1>7. ASSUME NEW i \in 1 .. n, NEW j \in 1 .. n, i <= j PROVE h[j] <= h[i]
  <2>1. g[i] <= g[j]
    BY <1>5, <1>6, <1>7, DecreasesNever, Zenon
  <2> QED BY <1>1, <1>2, <2>1
<1> QED BY <1>1, <1>7

\* Later samples have later times, and on a braking schedule no more speed.
Follow(x, y, h) == AtMost(x.t, y.t) /\ (Brakes(h) => AtMost(y.v, x.v))

\* Of two samples behind the end the later one has the later time.
LEMMA PastFollow ==
  ASSUME NEW knots, NEW h, NEW n, Knots(knots, h, n), NEW s \in Nat \ {0}, NEW r \in Nat \ {0}, s < r,
         NEW x, NEW y, Past(x, knots, h, n, s), Past(y, knots, h, n, r)
  PROVE  Follow(x, y, h)
<1>1. PICK m \in Nat, c \in Nat, k \in Int : m = n - 1 /\ c = h[n] /\ k = knots[n]
  <2>1. 1 \in 1 .. n - 1
    BY DEF Knots
  <2>2. n \in Nat /\ n >= 2 /\ h[n] \in Nat /\ knots[n] \in Int
    BY <2>1, SegmentIs, Zenon
  <2>3. n - 1 \in Nat
    BY <2>2
  <2> QED BY <2>2, <2>3, Zenon
<1>2. PICK e \in Nat, f \in Nat : e = s - k /\ f = r - k /\ e <= f
  BY <1>1 DEF Past
<1>3. /\ x.v = <<c, 1>> /\ x.t = IF c = 0 THEN <<m * 36 + 10 * e, 36>> ELSE <<m * 12 * c + e, 12 * c>>
      /\ y.v = <<c, 1>> /\ y.t = IF c = 0 THEN <<m * 36 + 10 * f, 36>> ELSE <<m * 12 * c + f, 12 * c>>
  BY <1>1, <1>2, Zenon DEF Past
<1>4. AtMost(x.t, y.t)
  <2>1. CASE c = 0
    <3>1. x.t = <<m * 36 + 10 * e, 36>> /\ y.t = <<m * 36 + 10 * f, 36>>
      BY <1>3, <2>1
    <3> QED BY <1>2, <3>1 DEF AtMost
  <2>2. CASE c # 0
    <3>1. PICK d \in Nat \ {0}, w \in Nat : d = 12 * c /\ w = m * d /\ m * 12 * c = w
      BY <2>2
    <3>2. x.t = <<w + e, d>> /\ y.t = <<w + f, d>>
      BY <1>3, <2>2, <3>1, Zenon
    <3>3. PICK a \in Nat, b \in Nat : a = w + e /\ b = w + f /\ a <= b
      BY <1>2
    <3>4. x.t[1] = a /\ x.t[2] = d /\ y.t[1] = b /\ y.t[2] = d
      BY <3>2, <3>3
    <3>5. a * d <= b * d
      <4>1. d * a <= d * b
        BY <3>3, TimesMonotone
      <4> QED BY <4>1
    <3> QED BY <3>4, <3>5, Zenon DEF AtMost
  <2> QED BY <2>1, <2>2
<1>5. AtMost(y.v, x.v)
  <2>1. x.v[1] = c /\ x.v[2] = 1 /\ y.v[1] = c /\ y.v[2] = 1
    BY <1>3
  <2>2. c * 1 <= c * 1
    OBVIOUS
  <2> QED BY <2>1, <2>2, Zenon DEF AtMost
<1> QED BY <1>4, <1>5, Zenon DEF Follow

\* Two samples between the same knots.
LEMMA SameFollow ==
  ASSUME NEW knots, NEW h, NEW n, Knots(knots, h, n), NEW s \in Nat \ {0}, NEW r \in Nat \ {0}, s < r,
         NEW lo \in 1 .. n - 1,
         NEW x, NEW y, InSegment(x, knots, h, n, s, lo), InSegment(y, knots, h, n, r, lo)
  PROVE  Follow(x, y, h)
<1>1. PICK a \in Nat, b \in Nat, k0 \in Int, k1 \in Int :
        a = h[lo] /\ b = h[lo + 1] /\ k0 = knots[lo] /\ k1 = knots[lo + 1]
  BY SegmentIs, Zenon
<1>2. k0 < s /\ s <= k1 /\ r <= k1
  BY <1>1 DEF InSegment
<1>3. PICK u \in Nat, w \in Nat, seg \in Nat \ {0}, d \in Nat, z \in Nat :
        seg = k1 - k0 /\ w = s - k0 /\ u + d = seg - w /\ w + d = r - k0 /\ u = seg - (w + d) /\ z = u + d
  <2>1. k1 - k0 \in Nat \ {0} /\ s - k0 \in Nat /\ r - s \in Nat /\ k1 - r \in Nat
    BY <1>2
  <2>2. PICK seg \in Nat \ {0}, w \in Nat, d \in Nat, u \in Nat :
          seg = k1 - k0 /\ w = s - k0 /\ d = r - s /\ u = k1 - r
    BY <2>1, Zenon
  <2>3. PICK z \in Nat : z = u + d
    OBVIOUS
  <2>4. u + d = seg - w /\ w + d = r - k0 /\ u = seg - (w + d)
    BY <2>2
  <2> QED BY <2>2, <2>3, <2>4, ZenonT(60)
<1>4. /\ x.v = <<a * z + b * w, seg>> /\ x.t = <<(lo - 1) * seg + w, seg>>
      /\ y.v = <<a * u + b * (w + d), seg>> /\ y.t = <<(lo - 1) * seg + (w + d), seg>>
  BY <1>1, <1>3, Zenon DEF InSegment
<1>5. PICK xv \in Int, yv \in Int, xt \in Int, yt \in Int :
        /\ xv = a * z + b * w /\ yv = a * u + b * (w + d)
        /\ xt = (lo - 1) * seg + w /\ yt = (lo - 1) * seg + (w + d)
  <2>1. PICK m \in Int : m = (lo - 1) * seg
    OBVIOUS
  <2>2. a * z \in Int /\ b * w \in Int /\ a * u \in Int /\ b * (w + d) \in Int
    OBVIOUS
  <2>3. a * z + b * w \in Int /\ a * u + b * (w + d) \in Int /\ m + w \in Int /\ m + (w + d) \in Int
    BY <2>2
  <2> QED BY <2>1, <2>3, Zenon
<1>6. /\ x.v[1] = xv /\ x.v[2] = seg /\ x.t[1] = xt /\ x.t[2] = seg
      /\ y.v[1] = yv /\ y.v[2] = seg /\ y.t[1] = yt /\ y.t[2] = seg
  BY <1>4, <1>5
<1>7. xt <= yt
  <2>1. PICK m \in Int : m = (lo - 1) * seg
    OBVIOUS
  <2> QED BY <1>5, <2>1
<1>8. ASSUME b <= a PROVE yv <= xv
  <2>1. d * b <= d * a
    BY <1>8, TimesMonotone
  <2>2. PICK ad \in Nat, bd \in Nat, au \in Nat, bw \in Nat :
          ad = a * d /\ bd = b * d /\ au = a * u /\ bw = b * w
    OBVIOUS
  <2>3. bd <= ad
    BY <2>1, <2>2
  <2>4. xv = au + ad + bw /\ yv = au + bw + bd
    BY <1>3, <1>5, <2>2
  <2> QED BY <2>3, <2>4
<1>9. AtMost(x.t, y.t)
  <2>1. seg * xt <= seg * yt
    BY <1>7, TimesMonotone
  <2>2. xt * seg <= yt * seg
    BY <2>1
  <2> QED BY <1>6, <2>2, Zenon DEF AtMost
<1>10. ASSUME Brakes(h) PROVE AtMost(y.v, x.v)
  <2>1. b <= a
    <3>1. lo \in 1 .. Len(h) - 1
      BY DEF Knots
    <3>2. h[lo] >= h[lo + 1]
      BY <1>10, <3>1, Zenon DEF Brakes
    <3> QED BY <1>1, <3>2
  <2>2. seg * yv <= seg * xv
    BY <1>8, <2>1, TimesMonotone
  <2>3. yv * seg <= xv * seg
    BY <2>2
  <2> QED BY <1>6, <2>3, Zenon DEF AtMost
<1> QED BY <1>9, <1>10, Zenon DEF Follow

\* The same, of a schedule with its knots.
LEMMA BrakesTo ==
  ASSUME NEW knots, NEW h, NEW n, Knots(knots, h, n), Brakes(h), NEW i \in 1 .. n, NEW j \in 1 .. n, i <= j
  PROVE  h[j] <= h[i]
<1>1. h \in Seq(Nat) /\ n = Len(h)
  BY Zenon DEF Knots
<1> QED BY <1>1, BrakesLater, Zenon

\* From one segment of the schedule to a later one, or past its end.
LEMMA ApartFollow ==
  ASSUME NEW knots, NEW h, NEW n, Knots(knots, h, n), NEW lo \in 1 .. n - 1, NEW hi \in 1 .. n, lo < hi,
         NEW x, NEW y, Positive(x.v), Positive(x.t), Positive(y.v), Positive(y.t),
         UpTo(x.t, lo), From(y.t, hi - 1),
         Brakes(h) => From(x.v, h[lo + 1]) /\ UpTo(y.v, h[hi])
  PROVE  Follow(x, y, h)
<1>1. lo \in Int /\ hi - 1 \in Int /\ lo <= hi - 1 /\ n \in Nat
  BY DEF Knots
<1>2. AtMost(x.t, y.t)
  BY <1>1, FromLess, Separated, Zenon
<1>3. ASSUME Brakes(h) PROVE AtMost(y.v, x.v)
  <2>1. lo + 1 \in 1 .. n /\ lo + 1 <= hi
    BY <1>1
  <2>2. h[hi] <= h[lo + 1]
    BY <1>3, <2>1, BrakesTo, Zenon
  <2>3. h[hi] \in Int /\ h[lo + 1] \in Int
    <3>1. \A i \in 1 .. n : h[i] \in Int
      BY DEF Knots
    <3> QED BY <2>1, <3>1, Zenon
  <2> QED BY <1>3, <2>2, <2>3, FromLess, Separated, Zenon
<1> QED BY <1>2, <1>3, Zenon DEF Follow

\* A later sample is in the same segment of the schedule or in a later one.
LEMMA WithinOrder ==
  ASSUME NEW knots, NEW h, NEW n, Knots(knots, h, n), NEW s \in Nat \ {0}, NEW r \in Nat \ {0}, s < r,
         NEW lo \in 1 .. n - 1, NEW hi \in 1 .. n - 1,
         NEW x, NEW y, InSegment(x, knots, h, n, s, lo), InSegment(y, knots, h, n, r, hi)
  PROVE  lo <= hi
<1>1. SUFFICES ASSUME hi + 1 <= lo PROVE FALSE
  OBVIOUS
<1>2. knots[lo] < s /\ r <= knots[hi + 1]
  BY Zenon DEF InSegment
<1>3. n = Len(knots) /\ n \in Nat /\ knots \in Seq(Int) /\ IsNotDecreasing(knots)
  BY KnotsRun, Zenon DEF Knots
<1>4. hi + 1 \in 1 .. Len(knots) /\ lo \in 1 .. Len(knots)
  BY <1>3
<1>5. knots[hi + 1] <= knots[lo]
  BY <1>1, <1>3, <1>4, DecreasesNever, Zenon
<1>6. knots[hi + 1] \in Int /\ knots[lo] \in Int
  BY SegmentIs, Zenon
<1> QED BY <1>2, <1>5, <1>6

\* On a braking schedule the speed is between those of the segment's ends.
LEMMA WithinBrakes ==
  ASSUME NEW knots, NEW h, NEW n, Knots(knots, h, n), NEW s \in Nat \ {0}, NEW lo \in 1 .. n - 1,
         NEW x, InSegment(x, knots, h, n, s, lo), Brakes(h)
  PROVE  From(x.v, h[lo + 1]) /\ UpTo(x.v, h[lo])
<1>1. lo \in 1 .. Len(h) - 1
  BY DEF Knots
<1>2. h[lo] >= h[lo + 1]
  BY <1>1, Zenon DEF Brakes
<1> QED BY <1>2, WithinIs, Zenon

\* vp_reference.hpp: samples farther along the path.
LEMMA LaterFollows ==
  ASSUME NEW knots, NEW h, NEW n, Knots(knots, h, n), NEW s \in Nat \ {0}, NEW r \in Nat \ {0}, s < r
  PROVE  Follow(SampleSpatial(knots, h, s), SampleSpatial(knots, h, r), h)
<1>1. PICK x, y : x = SampleSpatial(knots, h, s) /\ y = SampleSpatial(knots, h, r)
  OBVIOUS
<1>2. Past(x, knots, h, n, s) \/ \E lo \in 1 .. n - 1 : InSegment(x, knots, h, n, s, lo)
  BY <1>1, SampleIs, Zenon
<1>3. Past(y, knots, h, n, r) \/ \E lo \in 1 .. n - 1 : InSegment(y, knots, h, n, r, lo)
  BY <1>1, SampleIs, Zenon
<1>4. knots[n] \in Int /\ n \in Nat /\ n \in 1 .. n
  <2>1. 1 \in 1 .. n - 1
    BY DEF Knots
  <2>2. knots[n] \in Int /\ n \in Nat /\ n >= 2
    BY <2>1, SegmentIs, Zenon
  <2> QED BY <2>2
<1>5. CASE Past(x, knots, h, n, s) /\ Past(y, knots, h, n, r)
  BY <1>1, <1>5, PastFollow, Zenon
<1>6. ASSUME Past(x, knots, h, n, s), NEW hi \in 1 .. n - 1, InSegment(y, knots, h, n, r, hi)
      PROVE  FALSE
  <2>1. s >= knots[n] /\ r < knots[n]
    BY <1>6, Zenon DEF Past, InSegment
  <2> QED BY <1>4, <2>1
<1>7. ASSUME NEW lo \in 1 .. n - 1, InSegment(x, knots, h, n, s, lo), Past(y, knots, h, n, r)
      PROVE  Follow(x, y, h)
  <2>1. Positive(x.v) /\ Positive(x.t) /\ UpTo(x.t, lo)
    BY <1>7, WithinIs, Zenon
  <2>2. Positive(y.v) /\ Positive(y.t) /\ From(y.t, n - 1) /\ UpTo(y.v, h[n])
    BY <1>7, PastIs, Zenon
  <2>3. Brakes(h) => From(x.v, h[lo + 1])
    BY <1>7, WithinBrakes, Zenon
  <2>4. lo < n
    BY <1>4
  <2> QED BY <1>4, <2>1, <2>2, <2>3, <2>4, ApartFollow, Zenon
<1>8. ASSUME NEW lo \in 1 .. n - 1, InSegment(x, knots, h, n, s, lo),
             NEW hi \in 1 .. n - 1, InSegment(y, knots, h, n, r, hi)
      PROVE  Follow(x, y, h)
  <2>1. lo <= hi
    BY <1>8, WithinOrder, Zenon
  <2>2. CASE lo = hi
    BY <1>8, <2>2, SameFollow, Zenon
  <2>3. CASE lo # hi
    <3>1. lo < hi /\ hi \in 1 .. n
      BY <1>4, <2>1, <2>3
    <3>2. Positive(x.v) /\ Positive(x.t) /\ UpTo(x.t, lo)
      BY <1>8, WithinIs, Zenon
    <3>3. Positive(y.v) /\ Positive(y.t) /\ From(y.t, hi - 1)
      BY <1>8, WithinIs, Zenon
    <3>4. Brakes(h) => From(x.v, h[lo + 1]) /\ UpTo(y.v, h[hi])
      BY <1>8, WithinBrakes, Zenon
    <3> QED BY <3>1, <3>2, <3>3, <3>4, ApartFollow, Zenon
  <2> QED BY <2>2, <2>3
<1> QED BY <1>1, <1>2, <1>3, <1>5, <1>6, <1>7, <1>8, Zenon

\* What one sample says: a speed in the range of the schedule, and none from
\* the place on at which the schedule stands.
Says(x, knots, h, s) ==
  /\ Positive(x.v) /\ Positive(x.t)
  /\ \E lo, hi \in Range(h) : AtMost(<<lo, 1>>, x.v) /\ AtMost(x.v, <<hi, 1>>)
  /\ Last(h) = 0 /\ s >= Last(knots) => x.v[1] = 0

\* sampleSpatial: what a sample says, wherever it is.
LEMMA SampleSays ==
  ASSUME NEW knots, NEW h, NEW n, Knots(knots, h, n), NEW s \in Nat \ {0}
  PROVE  Says(SampleSpatial(knots, h, s), knots, h, s)
<1>1. PICK x : x = SampleSpatial(knots, h, s)
  OBVIOUS
<1>2. Past(x, knots, h, n, s) \/ \E lo \in 1 .. n - 1 : InSegment(x, knots, h, n, s, lo)
  BY <1>1, SampleIs, Zenon
<1>3. Last(h) = h[n] /\ Last(knots) = knots[n]
  BY DEF Knots, Last
<1>4. \A i \in 1 .. n : h[i] \in Range(h) /\ h[i] \in Int
  <2>1. DOMAIN h = 1 .. n /\ \A i \in 1 .. n : h[i] \in Int
    BY DEF Knots
  <2> QED BY <2>1, Zenon DEF Range
<1>5. ASSUME NEW k \in Int, Positive(x.v) PROVE (From(x.v, k) => AtMost(<<k, 1>>, x.v))
                                               /\ (UpTo(x.v, k) => AtMost(x.v, <<k, 1>>))
  BY <1>5 DEF Positive, From, UpTo, AtMost
<1>6. n \in Nat /\ n >= 2 /\ n \in 1 .. n /\ knots[n] \in Int
  <2>1. 1 \in 1 .. n - 1
    BY DEF Knots
  <2>2. knots[n] \in Int /\ n \in Nat /\ n >= 2
    BY <2>1, SegmentIs, Zenon
  <2> QED BY <2>2
<1>7. ASSUME Past(x, knots, h, n, s) PROVE Says(x, knots, h, s)
  <2>1. Positive(x.v) /\ Positive(x.t) /\ From(x.v, h[n]) /\ UpTo(x.v, h[n]) /\ (h[n] = 0 => x.v[1] = 0)
    BY <1>7, PastIs
  <2> QED BY <1>3, <1>4, <1>5, <1>6, <2>1, Zenon DEF Says
<1>8. ASSUME NEW lo \in 1 .. n - 1, InSegment(x, knots, h, n, s, lo) PROVE Says(x, knots, h, s)
  <2>1. lo \in 1 .. n /\ lo + 1 \in 1 .. n
    BY <1>6
  <2>2. h[lo] <= h[lo + 1] \/ h[lo] >= h[lo + 1]
    BY <1>4, <2>1
  <2>3. /\ Positive(x.v) /\ Positive(x.t)
        /\ h[lo] <= h[lo + 1] => From(x.v, h[lo]) /\ UpTo(x.v, h[lo + 1])
        /\ h[lo] >= h[lo + 1] => From(x.v, h[lo + 1]) /\ UpTo(x.v, h[lo])
    BY <1>8, WithinIs, Zenon
  <2>4. ~(s >= Last(knots))
    <3>1. s < knots[n]
      BY <1>8, Zenon DEF InSegment
    <3> QED BY <1>3, <1>6, <3>1
  <2> QED BY <1>4, <1>5, <2>1, <2>2, <2>3, <2>4, Zenon DEF Says
<1> QED BY <1>1, <1>2, <1>7, <1>8, Zenon

-----------------------------------------------------------------------------
(* The conversion.                                                         *)

\* A reference as the assumption has it.
Reference(r) ==
  /\ {r.valid, r.stamped, r.pathValid, r.finite, r.stepped} \subseteq BOOLEAN
  /\ r.xMax \in Int /\ r.gap \in Nat /\ r.horizon \in Seq(Int)
  /\ r.shape \in Seq(Nat) /\ Len(r.shape) >= kExtentCap \div kPathSpacing
  /\ \A i \in DOMAIN r.shape :
       /\ r.shape[i] >= kPathSpacing
       /\ r.shape[i] % CeilDiv(r.shape[i], kResampleStep) = 0

\* referenceReason: a usable one has a path and a horizon.
LEMMA UsableIs ==
  ASSUME NEW r, Reference(r), ReferenceReason(r) = "NONE"
  PROVE  r.xMax > 0 /\ Len(r.horizon) >= 2
<1>1. r.valid \in BOOLEAN /\ r.stamped \in BOOLEAN /\ r.pathValid \in BOOLEAN /\ r.stepped \in BOOLEAN
  BY Zenon DEF Reference
<1>2. Len(r.horizon) \in Nat
  BY DEF Reference
<1>3. r.valid /\ r.stamped /\ r.pathValid /\ r.xMax > 0
  BY <1>1 DEF ReferenceReason
<1>4. ReferenceReason(r) = IF Len(r.horizon) < 2 \/ ~r.stepped THEN "NO_HORIZON" ELSE "NONE"
  BY <1>1, <1>3 DEF ReferenceReason
<1>5. ~(Len(r.horizon) < 2)
  BY <1>4
<1> QED BY <1>2, <1>3, <1>5

\* The samples of the polynomial.
LEMMA SegmentsAre ==
  ASSUME NEW r, Reference(r), r.xMax > 0
  PROVE  /\ Segments(r) \in Seq(Nat) /\ \A i \in 1 .. Len(Segments(r)) : Segment(Segments(r)[i])
         /\ Len(Segments(r)) \in Nat /\ (r.xMax >= kPathSpacing => Len(Segments(r)) >= 1)
<1>1. r.xMax \in Nat
  BY DEF Reference
<1>2. PICK l \in Nat : l = Least(r.xMax, kExtentCap) /\ l <= 1200 /\ (r.xMax >= 48 => l >= 48)
  BY <1>1 DEF Least, kExtentCap
<1>3. PICK q \in Nat : q = l \div 48 /\ q <= 25 /\ (l >= 48 => q >= 1)
  BY <1>2
<1>4. q = Least(r.xMax, kExtentCap) \div kPathSpacing
  BY <1>2, <1>3, Zenon DEF kPathSpacing
<1>5. PICK shape \in Seq(Nat) : shape = r.shape /\ Len(shape) >= 25
  <2>1. r.shape \in Seq(Nat) /\ Len(r.shape) >= kExtentCap \div kPathSpacing
    BY Zenon DEF Reference
  <2>2. kExtentCap \div kPathSpacing = 25
    BY DEF kExtentCap, kPathSpacing
  <2> QED BY <2>1, <2>2
<1>6. ASSUME NEW i \in 1 .. q PROVE shape[i] \in Nat /\ Segment(shape[i])
  <2>1. i \in DOMAIN shape
    BY <1>3, <1>5
  <2>2. shape[i] \in Nat
    BY <2>1
  <2>3. shape[i] >= kPathSpacing /\ shape[i] % CeilDiv(shape[i], kResampleStep) = 0
    BY <1>5, <2>1, Zenon DEF Reference
  <2> QED BY <2>2, <2>3, Zenon DEF Segment
<1>7. PICK g : g = [i \in 1 .. q |-> shape[i]]
  OBVIOUS
<1>8. g = Segments(r)
  BY <1>4, <1>5, <1>7, Zenon DEF Segments
<1>9. g \in [1 .. q -> Nat] /\ \A i \in 1 .. q : g[i] = shape[i]
  BY <1>6, <1>7
<1>10. g \in Seq(Nat) /\ Len(g) = q
  BY <1>9
<1>11. \A i \in 1 .. Len(g) : Segment(g[i])
  BY <1>6, <1>9, <1>10, Zenon
<1>12. r.xMax >= kPathSpacing => q >= 1
  BY <1>2, <1>3 DEF kPathSpacing
<1> QED BY <1>8, <1>10, <1>11, <1>12

\* Where the points of a reference come from: s is its path, as much of it as
\* is used, p the indices of m of its points, x the arc lengths of the points.
Placed(r, s, p, m, x) ==
  /\ Paced(s) /\ Indices(p, m, s) /\ Picked(s, p, m)
  /\ x = CumulativeArcLengths(SelectedSteps(s, r.gap)) /\ x \in Seq(Int) /\ PlacedAt(x, s, p, m, r.gap)
  /\ s = Resample(Segments(r))
  /\ Covers(s, Last(CumulativeArcLengths(Segments(r))))

\* A path of at least a metre gives three points to the budget of them.
LEMMA PlacedIs ==
  ASSUME NEW r, Reference(r), r.xMax > 0
  PROVE  \E s, p, m, x :
           /\ Placed(r, s, p, m, x)
           /\ m \in 3 .. kMaxPoints \/ (m = 1 /\ r.xMax < kPathSpacing)
<1>1. PICK g : g = Segments(r)
  OBVIOUS
<1>2. PICK q \in Nat : /\ q = Len(g) /\ g \in Seq(Nat) /\ \A i \in 1 .. q : Segment(g[i])
                       /\ r.xMax >= kPathSpacing => q >= 1
  BY <1>1, SegmentsAre, Zenon
<1>3. PICK whole : whole = CumulativeArcLengths(g) /\ Sums(whole, q, g)
  <2>1. g \in Seq(Int)
    BY <1>2
  <2> QED BY <1>2, <2>1, LengthsAre, Zenon
<1>4. Last(whole) = whole[q + 1]
  <2>1. whole \in Seq(Int) /\ Len(whole) = q + 1
    BY <1>3 DEF Sums
  <2> QED BY <2>1 DEF Last
<1>5. PICK s : /\ s = Resample(g) /\ Covers(s, whole[q + 1])
               /\ q >= 1 => Last(s) >= kPathSpacing
               /\ q = 0 => s = <<0>>
  BY <1>2, <1>3, ResampleCovers, Zenon
<1>6. Paced(s)
  BY <1>5, Zenon DEF Covers
<1>7. PICK p, m : Picked(s, p, m) /\ Indices(p, m, s)
  BY <1>6, PickedExists, Zenon
<1>8. PICK x : /\ x = CumulativeArcLengths(SelectedSteps(s, r.gap))
               /\ x \in Seq(Int) /\ PlacedAt(x, s, p, m, r.gap)
  <2>1. r.gap \in Nat
    BY Zenon DEF Reference
  <2> QED BY <1>6, <1>7, <2>1, PointsPlaced, Zenon
<1>9. Placed(r, s, p, m, x)
  BY <1>1, <1>3, <1>4, <1>5, <1>6, <1>7, <1>8, Zenon DEF Placed
<1>10. m \in Nat \ {0} /\ m = Least(kMaxPoints, Cardinality(Candidates(s)))
  BY <1>7, Zenon DEF Picked, Lists
<1>11. CASE q >= 1
  <2>1. PICK c \in Nat : c = Cardinality(Candidates(s))
    <3>1. Candidates(s) \subseteq 1 .. Len(s)
      BY <1>6, CandidatesAre, Zenon
    <3>2. Len(s) \in Nat
      BY <1>6 DEF Paced
    <3> QED BY <3>1, <3>2, RanksIncrease, Zenon
  <2>2. c >= 3
    BY <1>5, <1>6, <1>11, <2>1, ThreeCandidates, Zenon
  <2>3. m \in 3 .. kMaxPoints
    BY <1>10, <2>1, <2>2 DEF Least, kMaxPoints
  <2> QED BY <1>9, <2>3, Zenon
<1>12. CASE q = 0
  <2>1. Len(s) = 1
    BY <1>5, <1>12
  <2>2. ~(r.xMax >= kPathSpacing)
    BY <1>2, <1>12
  <2>3. r.xMax < kPathSpacing
    BY <2>2 DEF Reference, kPathSpacing
  <2>4. m = 1
    <3>1. SUFFICES ASSUME 2 <= m PROVE FALSE
      BY <1>10
    <3>2. 1 \in 1 .. m /\ 2 \in 1 .. m /\ 1 < 2
      BY <1>10, <3>1
    <3>3. p[1] < p[2]
      BY <1>7, <3>2, Zenon DEF Picked, Lists
    <3>4. p[1] \in 1 .. 1 /\ p[2] \in 1 .. 1
      BY <1>7, <2>1, <3>2, Zenon DEF Indices
    <3> QED BY <3>3, <3>4
  <2> QED BY <1>9, <2>3, <2>4, Zenon
<1> QED BY <1>2, <1>11, <1>12

\* The points lie one behind the other.
LEMMA PointsRun ==
  ASSUME NEW r, Reference(r), NEW s, NEW p, NEW m, NEW x, Placed(r, s, p, m, x)
  PROVE  /\ IsIncreasing(x) /\ x \in Seq(Nat)
         /\ Len(x) = IF r.gap > kEgoGap THEN Least(m, kMaxPoints - 1) + 1 ELSE m
         /\ r.gap > kEgoGap => Len(x) >= 2 /\ x[2] = r.gap
<1>1. /\ Paced(s) /\ x \in Seq(Int) /\ PlacedAt(x, s, p, m, r.gap)
      /\ m \in Nat \ {0} /\ p \in [1 .. m -> 1 .. Len(s)] /\ p[1] = 1
  BY Zenon DEF Placed, Indices
<1>2. \A i, j \in 1 .. m : i < j => p[i] < p[j]
  BY Zenon DEF Placed, Picked, Lists
<1>3. PICK gap \in Nat : gap = r.gap
  BY DEF Reference
<1>4. \A i \in 1 .. m : s[p[i]] \in Nat
  <2>1. \A i \in 1 .. Len(s) : s[i] \in Nat
    BY <1>1 DEF Paced
  <2>2. \A i \in 1 .. m : p[i] \in 1 .. Len(s)
    BY <1>1
  <2> QED BY <2>1, <2>2, Zenon
<1>5. ASSUME NEW i \in 1 .. m, NEW j \in 1 .. m, i < j PROVE s[p[i]] < s[p[j]]
  <2>1. p[i] \in 1 .. Len(s) /\ p[j] \in 1 .. Len(s)
    BY <1>1
  <2>2. p[i] < p[j]
    BY <1>2, <1>5, Zenon
  <2> QED BY <1>1, <2>1, <2>2, PacedIs, IncreasesLater, Zenon
<1>6. s[p[1]] = 0
  BY <1>1, Zenon DEF Paced
<1>7. CASE gap > kEgoGap
  <2>1. PICK q \in 1 .. m : q = Least(m, kMaxPoints - 1)
    BY <1>1 DEF Least, kMaxPoints
  <2>2. Len(x) = q + 1 /\ x[1] = 0 /\ \A i \in 1 .. q : x[i + 1] = gap + s[p[i]]
    <3>1. (q + 1) - 1 = q
      OBVIOUS
    <3> QED BY <1>1, <1>3, <1>7, <2>1, <3>1, Zenon DEF PlacedAt
  <2>3. gap > 24 /\ q \in Nat /\ q >= 1 /\ m \in Nat /\ q <= m
    BY <1>1, <1>7, <2>1 DEF kEgoGap
  <2>4. x[2] = gap
    <3>1. 1 \in 1 .. q /\ 1 + 1 = 2 /\ gap + 0 = gap
      BY <2>3
    <3>2. x[1 + 1] = gap + s[p[1]]
      BY <2>2, <3>1, Zenon
    <3> QED BY <1>6, <3>1, <3>2, Zenon
  <2>5. ASSUME NEW i \in 1 .. q PROVE x[i] < x[i + 1]
    <3>1. CASE i = 1
      BY <2>2, <2>3, <2>4, <3>1
    <3>2. CASE i # 1
      <4>1. PICK j \in 1 .. q : j = i - 1 /\ j + 1 = i /\ j \in 1 .. m /\ i \in 1 .. m /\ j < i
        <5>1. i - 1 \in 1 .. q /\ (i - 1) + 1 = i /\ i - 1 \in 1 .. m /\ i \in 1 .. m /\ i - 1 < i
          BY <2>3, <3>2
        <5> QED BY <5>1, Zenon
      <4>2. x[i] = gap + s[p[j]] /\ x[i + 1] = gap + s[p[i]]
        BY <2>2, <4>1, Zenon
      <4>3. s[p[j]] < s[p[i]] /\ s[p[j]] \in Nat /\ s[p[i]] \in Nat
        BY <1>4, <1>5, <4>1, Zenon
      <4> QED BY <4>2, <4>3
    <3> QED BY <3>1, <3>2
  <2>6. IsIncreasing(x)
    <3>1. Len(x) - 1 = q
      BY <2>2, <2>3
    <3> QED BY <2>5, <3>1, Zenon DEF IsIncreasing
  <2>7. ASSUME NEW i \in 1 .. Len(x) PROVE x[i] \in Nat
    <3>1. CASE i = 1
      BY <2>2, <3>1
    <3>2. CASE i # 1
      <4>1. PICK j \in 1 .. q : j + 1 = i /\ j \in 1 .. m
        <5>1. i - 1 \in 1 .. q /\ (i - 1) + 1 = i /\ i - 1 \in 1 .. m
          BY <2>2, <2>3, <3>2
        <5> QED BY <5>1, Zenon
      <4>2. x[i] = gap + s[p[j]] /\ s[p[j]] \in Nat
        BY <1>4, <2>2, <4>1, Zenon
      <4> QED BY <4>2
    <3> QED BY <3>1, <3>2
  <2>8. x \in Seq(Nat)
    BY <1>1, <2>7
  <2>9. Len(x) >= 2 /\ Len(x) = Least(m, kMaxPoints - 1) + 1
    BY <2>1, <2>2, <2>3
  <2> QED BY <1>3, <1>7, <2>4, <2>6, <2>8, <2>9, Zenon
<1>8. CASE ~(gap > kEgoGap)
  <2>1. Len(x) = m /\ \A i \in 1 .. m : x[i] = s[p[i]]
    BY <1>1, <1>3, <1>8, Zenon DEF PlacedAt
  <2>2. x \in Seq(Nat)
    BY <1>1, <1>4, <2>1, SMTT(60)
  <2>3. IsIncreasing(x)
    <3>1. SUFFICES ASSUME NEW i \in 1 .. m - 1 PROVE x[i] < x[i + 1]
      BY <2>1, Zenon DEF IsIncreasing
    <3>2. i \in 1 .. m /\ i + 1 \in 1 .. m /\ i < i + 1
      BY <1>1
    <3> QED BY <1>5, <2>1, <3>2, Zenon
  <2> QED BY <1>3, <1>8, <2>1, <2>2, <2>3, Zenon
<1> QED BY <1>7, <1>8

\* Near each near arc that the path reaches there is a point.
LEMMA PointsNear ==
  ASSUME NEW r, Reference(r), NEW s, NEW p, NEW m, NEW x, Placed(r, s, p, m, x),
         NEW want \in kNearArcs, want < Last(CumulativeArcLengths(Segments(r)))
  PROVE  \E i \in DOMAIN x :
           2 * (x[i] - (IF r.gap > kEgoGap THEN r.gap ELSE 0) - want) \in -kResampleStep .. kResampleStep
<1>1. /\ Paced(s) /\ x \in Seq(Int) /\ PlacedAt(x, s, p, m, r.gap)
      /\ m \in Nat \ {0} /\ p \in [1 .. m -> 1 .. Len(s)]
      /\ Covers(s, Last(CumulativeArcLengths(Segments(r))))
  BY Zenon DEF Placed, Indices
<1>2. m = Least(kMaxPoints, Cardinality(Candidates(s)))
      /\ \A i \in Candidates(s) : i <= kMaxPoints => \E k \in 1 .. m : k <= i /\ p[k] = i
  BY Zenon DEF Placed, Picked, Lists
<1>3. PICK gap \in Nat : gap = r.gap
  BY DEF Reference
<1>4. want \in Reached(s)
  <2>1. PICK l \in Nat : l = Last(s) /\ (l = Last(CumulativeArcLengths(Segments(r))) \/ l >= 1200)
    BY <1>1 DEF Covers, kExtentCap
  <2>2. want \in Nat /\ want <= 96
    BY DEF kNearArcs
  <2>3. want < l
    BY <2>1, <2>2
  <2>4. want < Least(kExtentCap, l)
    BY <2>2, <2>3 DEF Least, kExtentCap
  <2> QED BY <2>1, <2>4, ZenonT(60) DEF Reached
<1>5. PICK c \in Candidates(s) : c <= 11 /\ 2 * (s[c] - want) \in -12 .. 12
  BY <1>1, <1>4, CandidatesAre, Zenon
<1>6. c \in 1 .. Len(s) /\ s[c] \in Nat
  <2>1. c \in 1 .. Len(s)
    BY <1>1, <1>5, CandidatesAre, Zenon
  <2> QED BY <1>1, <2>1 DEF Paced
<1>7. PICK k \in 1 .. m : k <= c /\ p[k] = c
  <2>1. c <= kMaxPoints
    BY <1>5, <1>6 DEF kMaxPoints
  <2> QED BY <1>2, <1>5, <2>1, Zenon
<1>8. PICK d \in Int : d = s[c] /\ 2 * (d - want) \in -kResampleStep .. kResampleStep /\ want \in Int
  <2>1. PICK d \in Int : d = s[c]
    BY <1>6
  <2>2. want \in Int
    BY DEF kNearArcs
  <2>3. 2 * (d - want) \in -kResampleStep .. kResampleStep
    BY <1>5, <2>1 DEF kResampleStep
  <2> QED BY <2>1, <2>2, <2>3, Zenon
<1>9. CASE gap > kEgoGap
  <2>1. PICK q \in 1 .. m : q = Least(m, kMaxPoints - 1) /\ k <= q
    BY <1>1, <1>5, <1>6, <1>7 DEF Least, kMaxPoints
  <2>2. Len(x) = q + 1 /\ \A i \in 1 .. q : x[i + 1] = gap + s[p[i]]
    <3>1. (q + 1) - 1 = q
      OBVIOUS
    <3> QED BY <1>1, <1>3, <1>9, <2>1, <3>1, Zenon DEF PlacedAt
  <2>3. k \in 1 .. q /\ k + 1 \in DOMAIN x
    BY <1>1, <2>1, <2>2
  <2>4. x[k + 1] = gap + d
    BY <1>7, <1>8, <2>2, <2>3, Zenon
  <2>5. x[k + 1] - gap - want = d - want
    BY <1>8, <2>4
  <2>6. 2 * (x[k + 1] - gap - want) \in -kResampleStep .. kResampleStep
    BY <1>8, <2>5
  <2> QED BY <1>3, <1>9, <2>3, <2>6, Zenon
<1>10. CASE ~(gap > kEgoGap)
  <2>1. k \in DOMAIN x /\ x[k] = d
    <3>1. Len(x) = m /\ \A i \in 1 .. m : x[i] = s[p[i]]
      BY <1>1, <1>3, <1>10, Zenon DEF PlacedAt
    <3>2. k \in DOMAIN x
      BY <1>1, <3>1
    <3> QED BY <1>7, <1>8, <3>1, <3>2, Zenon
  <2>2. x[k] - 0 - want = d - want
    BY <1>8, <2>1
  <2>3. 2 * (x[k] - 0 - want) \in -kResampleStep .. kResampleStep
    BY <1>8, <2>2
  <2> QED BY <1>3, <1>10, <2>1, <2>3, Zenon
<1> QED BY <1>9, <1>10

\* The clipped horizon has no negative speed.
LEMMA ClippedIs ==
  ASSUME NEW horizon \in Seq(Int)
  PROVE  Clipped(horizon) \in Seq(Nat) /\ Len(Clipped(horizon)) = Len(horizon)
<1>1. PICK n \in Nat : n = Len(horizon) /\ DOMAIN horizon = 1 .. n /\ \A i \in 1 .. n : horizon[i] \in Int
  OBVIOUS
<1> DEFINE g == [i \in DOMAIN horizon |-> IF horizon[i] < 0 THEN 0 ELSE horizon[i]]
<1>2. g \in [1 .. n -> Nat]
  BY <1>1
<1>3. g = Clipped(horizon)
  BY Zenon DEF Clipped
<1> HIDE DEF g
<1>4. g \in Seq(Nat) /\ Len(g) = n
  BY <1>2
<1> QED BY <1>1, <1>3, <1>4

\* A product with a number that is not positive is not positive.
LEMMA NotPositive ==
  ASSUME NEW a \in Int, a <= 0, NEW b \in Nat
  PROVE  a * b <= 0
<1>1. PICK c \in Nat : a = -c
  <2>1. -a \in Nat /\ a = -(-a)
    OBVIOUS
  <2> QED BY <2>1, Zenon
<1>2. c * b \in Nat
  OBVIOUS
<1> QED BY <1>1, <1>2

\* Samples of which no later one is faster: no point accelerates.
LEMMA Slowing ==
  ASSUME NEW samples, NEW n \in Nat, n >= 2, Len(samples) = n,
         \A i \in 1 .. n : Positive(samples[i].v) /\ Positive(samples[i].t),
         \A i, j \in 1 .. n : i < j => AtMost(samples[j].v, samples[i].v),
         NEW h \in Seq(Nat), Len(h) >= 2, Brakes(h), NEW i \in 1 .. n
  PROVE  Acceleration(samples, h, i)[1] <= 0
<1>1. PICK i0 \in 1 .. n, i1 \in 1 .. n :
        /\ i0 = IF i = 1 THEN 1 ELSE i - 1
        /\ i1 = IF i = n THEN n ELSE i + 1
        /\ i0 < i1
  <2>1. (IF i = 1 THEN 1 ELSE i - 1) \in 1 .. n
    OBVIOUS
  <2>2. (IF i = n THEN n ELSE i + 1) \in 1 .. n
    OBVIOUS
  <2>3. (IF i = 1 THEN 1 ELSE i - 1) < (IF i = n THEN n ELSE i + 1)
    OBVIOUS
  <2> QED BY <2>1, <2>2, <2>3, Zenon
<1>2. PICK span, dv, fallback :
        /\ span = Minus(samples[i1].t, samples[i0].t) /\ dv = Minus(samples[i1].v, samples[i0].v)
        /\ fallback = <<Last(h) - h[1], Len(h) - 1>>
  OBVIOUS
<1>3. Acceleration(samples, h, i) =
        IF n = 1 THEN fallback
        ELSE IF span[1] > 0 THEN <<dv[1] * span[2], dv[2] * span[1]>>
        ELSE IF i = 1 THEN fallback ELSE <<0, 1>>
  BY <1>1, <1>2, Zenon DEF Acceleration
<1>4. PICK a \in Int, b \in Nat \ {0}, c \in Int, d \in Nat \ {0}, e \in Nat \ {0}, f \in Nat \ {0} :
        /\ a = samples[i1].v[1] /\ b = samples[i1].v[2] /\ c = samples[i0].v[1] /\ d = samples[i0].v[2]
        /\ e = samples[i1].t[2] /\ f = samples[i0].t[2]
  BY <1>1, Zenon DEF Positive
<1>5. PICK u \in Int, w \in Nat : u = a * d - c * b /\ w = e * f /\ u <= 0
  <2>1. AtMost(samples[i1].v, samples[i0].v)
    BY <1>1, Zenon
  <2>2. a * d <= c * b
    BY <1>4, <2>1, Zenon DEF AtMost
  <2>3. PICK y \in Int, z \in Int : y = a * d /\ z = c * b
    OBVIOUS
  <2>4. y - z \in Int /\ y - z <= 0 /\ e * f \in Nat
    BY <2>2, <2>3
  <2> QED BY <2>3, <2>4, Zenon
<1>6. dv[1] = u /\ span[2] = w
  <2>1. dv = <<u, b * d>>
    BY <1>2, <1>4, <1>5, Zenon DEF Minus
  <2>2. \E k : span = <<k, w>>
    BY <1>2, <1>4, <1>5, Zenon DEF Minus
  <2> QED BY <2>1, <2>2
<1>7. u * w <= 0
  BY <1>5, NotPositive, Zenon
<1>8. fallback[1] <= 0
  <2>1. 1 \in 1 .. Len(h) /\ Len(h) \in 1 .. Len(h) /\ 1 <= Len(h)
    OBVIOUS
  <2>2. h[Len(h)] <= h[1]
    BY <2>1, BrakesLater, Zenon
  <2>3. h[Len(h)] \in Nat /\ h[1] \in Nat
    BY <2>1
  <2>4. Last(h) = h[Len(h)]
    BY DEF Last
  <2>5. fallback[1] = Last(h) - h[1]
    BY <1>2
  <2> QED BY <2>2, <2>3, <2>4, <2>5
<1>9. CASE span[1] > 0
  <2>1. Acceleration(samples, h, i) = <<dv[1] * span[2], dv[2] * span[1]>>
    <3>1. n # 1
      OBVIOUS
    <3> QED BY <1>3, <1>9, <3>1, Zenon
  <2>2. Acceleration(samples, h, i)[1] = u * w
    BY <1>6, <2>1
  <2> QED BY <1>7, <2>2, Zenon
<1>10. CASE ~(span[1] > 0)
  <2>1. Acceleration(samples, h, i) = fallback \/ Acceleration(samples, h, i) = <<0, 1>>
    BY <1>3, <1>10, Zenon
  <2>2. <<0, 1>>[1] <= 0
    OBVIOUS
  <2> QED BY <1>8, <2>1, <2>2, Zenon
<1> QED BY <1>9, <1>10

\* The samples of the schedule at the points.
Sampled(x, knots, h) == [i \in DOMAIN x |-> SampleSpatial(knots, h, x[i] + kSpeedLead)]

\* What is handed on.
Accepted(r, x) == ReferenceReason(r) = "NONE" /\ r.finite /\ ~(Len(x) < kMinFollowerPoints)

Transcribed(x, knots, h, points) ==
  points = [i \in DOMAIN x |->
              [arc |-> x[i], v |-> Sampled(x, knots, h)[i].v, t |-> Sampled(x, knots, h)[i].t,
               a |-> Acceleration(Sampled(x, knots, h), h, i)]]

\* toReference, once its pieces are named.
LEMMA ConvertIs ==
  ASSUME NEW r, NEW x, x = CumulativeArcLengths(SelectedSteps(Resample(Segments(r)), r.gap)),
         NEW h, h = Clipped(r.horizon), NEW knots, knots = ScheduleKnots(h)
  PROVE  /\ Accepted(r, x) => Convert(r).ok = TRUE /\ Transcribed(x, knots, h, Convert(r).points)
         /\ ~Accepted(r, x) => Convert(r).ok = FALSE
<1> DEFINE pts == [i \in DOMAIN x |->
              [arc |-> x[i], v |-> Sampled(x, knots, h)[i].v, t |-> Sampled(x, knots, h)[i].t,
               a |-> Acceleration(Sampled(x, knots, h), h, i)]]
<1>1. Convert(r) = IF ReferenceReason(r) # "NONE" \/ ~r.finite \/ Len(x) < kMinFollowerPoints
                   THEN [ok |-> FALSE, points |-> <<>>] ELSE [ok |-> TRUE, points |-> pts]
  BY Zenon DEF Convert, Sampled
<1>2. Transcribed(x, knots, h, pts)
  BY Zenon DEF Transcribed
<1> HIDE DEF pts
<1>3. /\ [ok |-> FALSE, points |-> <<>>].ok = FALSE
      /\ [ok |-> TRUE, points |-> pts].ok = TRUE /\ [ok |-> TRUE, points |-> pts].points = pts
  OBVIOUS
<1> QED BY <1>1, <1>2, <1>3, Zenon DEF Accepted

\* What the points say: the place, the speed and the time of a sample, and an acceleration.
PointsSay(x, n, knots, h, points) ==
  /\ DOMAIN points = 1 .. n /\ Len(points) = n /\ DOMAIN x = 1 .. n
  /\ Len(Sampled(x, knots, h)) = n
  /\ \A i \in 1 .. n :
       /\ points[i].arc = x[i]
       /\ points[i].v = Sampled(x, knots, h)[i].v
       /\ points[i].t = Sampled(x, knots, h)[i].t
       /\ points[i].a = Acceleration(Sampled(x, knots, h), h, i)
       /\ Sampled(x, knots, h)[i] = SampleSpatial(knots, h, x[i] + kSpeedLead)

\* vp_reference.hpp: the points that are handed on, one by one.
LEMMA PointsAre ==
  ASSUME NEW x \in Seq(Nat), NEW knots, NEW h, NEW points, Transcribed(x, knots, h, points)
  PROVE  PointsSay(x, Len(x), knots, h, points)
<1>1. PICK n \in Nat : n = Len(x)
  OBVIOUS
<1>2. DOMAIN x = 1 .. n
  BY <1>1
<1>3. PICK y : y = Sampled(x, knots, h)
  OBVIOUS
<1>4. y = [i \in 1 .. n |-> SampleSpatial(knots, h, x[i] + kSpeedLead)]
  BY <1>2, <1>3, Zenon DEF Sampled
<1>5. points = [i \in 1 .. n |-> [arc |-> x[i], v |-> y[i].v, t |-> y[i].t, a |-> Acceleration(y, h, i)]]
  BY <1>2, <1>3, Zenon DEF Transcribed
<1>6. Len(y) = n /\ \A i \in 1 .. n : y[i] = SampleSpatial(knots, h, x[i] + kSpeedLead)
  BY <1>4
<1>7. Len(points) = n /\ DOMAIN points = 1 .. n
  BY <1>5
<1>8. \A i \in 1 .. n : /\ points[i].arc = x[i] /\ points[i].v = y[i].v /\ points[i].t = y[i].t
                         /\ points[i].a = Acceleration(y, h, i)
  BY <1>5
<1>9. PointsSay(x, n, knots, h, points)
  BY <1>2, <1>3, <1>6, <1>7, <1>8, Zenon DEF PointsSay
<1> QED BY <1>1, <1>9, Zenon

\* An accepted reference, as it is converted.
Converted(r, s, p, m, x, n, h, knots) ==
  /\ Placed(r, s, p, m, x) /\ m \in 3 .. kMaxPoints
  /\ x \in Seq(Nat) /\ n = Len(x) /\ n \in kMinFollowerPoints .. kMaxPoints /\ IsIncreasing(x)
  /\ r.gap > kEgoGap => x[2] = r.gap
  /\ h = Clipped(r.horizon) /\ knots = ScheduleKnots(h) /\ Knots(knots, h, Len(h))
  /\ Transcribed(x, knots, h, Convert(r).points)

\* toReference hands on what it placed, and whatever is usable, finite and a metre long.
LEMMA ConvertedIs ==
  ASSUME NEW r, Reference(r)
  PROVE  /\ Convert(r).ok => \E s, p, m, x, n, h, knots : Converted(r, s, p, m, x, n, h, knots)
         /\ (ReferenceReason(r) = "NONE" /\ r.finite /\ r.xMax >= kPathSpacing) => Convert(r).ok
<1>1. PICK h, knots : h = Clipped(r.horizon) /\ knots = ScheduleKnots(h)
  OBVIOUS
<1>2. CASE ReferenceReason(r) = "NONE"
  <2>1. r.xMax > 0 /\ Len(r.horizon) >= 2
    BY <1>2, UsableIs, Zenon
  <2>2. PICK s, p, m, x : /\ Placed(r, s, p, m, x)
                          /\ m \in 3 .. kMaxPoints \/ (m = 1 /\ r.xMax < kPathSpacing)
    BY <2>1, PlacedIs, Zenon
  <2>3. /\ IsIncreasing(x) /\ x \in Seq(Nat)
        /\ Len(x) = IF r.gap > kEgoGap THEN Least(m, kMaxPoints - 1) + 1 ELSE m
        /\ r.gap > kEgoGap => Len(x) >= 2 /\ x[2] = r.gap
    BY <2>2, PointsRun, Zenon
  <2>4. x = CumulativeArcLengths(SelectedSteps(Resample(Segments(r)), r.gap))
    BY <2>2, Zenon DEF Placed
  <2>5. /\ Accepted(r, x) => Convert(r).ok = TRUE /\ Transcribed(x, knots, h, Convert(r).points)
        /\ ~Accepted(r, x) => Convert(r).ok = FALSE
    BY <1>1, <2>4, ConvertIs, Zenon
  <2>6. CASE m \in 3 .. kMaxPoints
    <3>1. PICK n \in kMinFollowerPoints .. kMaxPoints : n = Len(x)
      <4>1. PICK k \in Int : k = Len(x)
        BY <2>3
      <4>2. k \in 3 .. 13
        BY <2>3, <2>6, <4>1 DEF Least, kMaxPoints
      <4>3. k \in kMinFollowerPoints .. kMaxPoints
        BY <4>2 DEF kMinFollowerPoints, kMaxPoints
      <4> QED BY <4>1, <4>3, Zenon
    <3>2. ~(n < kMinFollowerPoints)
      BY DEF kMinFollowerPoints, kMaxPoints
    <3>3. Accepted(r, x) <=> r.finite
      BY <1>2, <3>1, <3>2, Zenon DEF Accepted
    <3>4. Knots(knots, h, Len(h))
      <4>1. r.horizon \in Seq(Int)
        BY Zenon DEF Reference
      <4>2. h \in Seq(Nat) /\ Len(h) = Len(r.horizon)
        BY <1>1, <4>1, ClippedIs, Zenon
      <4>3. Len(h) >= 2
        BY <2>1, <4>2
      <4> QED BY <1>1, <4>2, <4>3, KnotsAre, Zenon
    <3>5. ASSUME Convert(r).ok PROVE Converted(r, s, p, m, x, n, h, knots)
      <4>1. Transcribed(x, knots, h, Convert(r).points)
        BY <2>5, <3>5, Zenon
      <4> QED BY <1>1, <2>2, <2>3, <2>6, <3>1, <3>2, <3>4, <4>1, Zenon DEF Converted
    <3>6. r.finite => Convert(r).ok
      BY <2>5, <3>3, Zenon
    <3> QED BY <3>5, <3>6, Zenon
  <2>7. CASE m = 1 /\ r.xMax < kPathSpacing
    <3>1. Len(x) < kMinFollowerPoints
      BY <2>3, <2>7 DEF Least, kMaxPoints, kMinFollowerPoints
    <3>2. ~Convert(r).ok
      BY <2>5, <3>1, Zenon DEF Accepted
    <3>3. ~(r.xMax >= kPathSpacing)
      BY <2>7 DEF Reference, kPathSpacing
    <3> QED BY <3>2, <3>3, Zenon
  <2> QED BY <2>2, <2>6, <2>7
<1>3. CASE ReferenceReason(r) # "NONE"
  <2>1. PICK x : x = CumulativeArcLengths(SelectedSteps(Resample(Segments(r)), r.gap))
    OBVIOUS
  <2>2. ~Accepted(r, x)
    BY <1>3, Zenon DEF Accepted
  <2>3. ~Convert(r).ok
    BY <1>1, <2>1, <2>2, ConvertIs, Zenon
  <2> QED BY <1>3, <2>3, Zenon
<1> QED BY <1>2, <1>3

\* vp_reference.hpp: an accepted reference is a trajectory the follower can run.
LEMMA ConvertedRuns ==
  ASSUME NEW r, Reference(r)
  PROVE  ReferenceRunnable(r, Convert(r))
<1>1. (ReferenceReason(r) = "NONE" /\ r.finite /\ r.xMax >= kPathSpacing) => Convert(r).ok
  BY ConvertedIs, Zenon
<1>2. ASSUME Convert(r).ok
      PROVE  /\ Len(Convert(r).points) \in kMinFollowerPoints .. kMaxPoints
             /\ \A i \in 1 .. Len(Convert(r).points) - 1 :
                  Convert(r).points[i].arc < Convert(r).points[i + 1].arc
             /\ r.gap > kEgoGap => Convert(r).points[2].arc = r.gap
  <2>1. PICK s, p, m, x, n, h, knots : Converted(r, s, p, m, x, n, h, knots)
    BY <1>2, ConvertedIs, Zenon
  <2>2. PICK points : points = Convert(r).points
    OBVIOUS
  <2>3. /\ x \in Seq(Nat) /\ n = Len(x) /\ n \in kMinFollowerPoints .. kMaxPoints /\ IsIncreasing(x)
        /\ r.gap > kEgoGap => x[2] = r.gap
        /\ Transcribed(x, knots, h, points)
    BY <2>1, <2>2, Zenon DEF Converted
  <2>4. n \in Nat /\ n >= 3
    BY <2>3 DEF kMinFollowerPoints, kMaxPoints
  <2>5. Len(points) = n /\ \A i \in 1 .. n : points[i].arc = x[i]
    <3>1. PointsSay(x, n, knots, h, points)
      BY <2>3, PointsAre, Zenon
    <3> QED BY <3>1, Zenon DEF PointsSay
  <2>6. ASSUME NEW i \in 1 .. n - 1 PROVE points[i].arc < points[i + 1].arc
    <3>1. i \in 1 .. n /\ i + 1 \in 1 .. n
      BY <2>4
    <3>2. x[i] < x[i + 1]
      BY <2>3, Zenon DEF IsIncreasing
    <3> QED BY <2>5, <3>1, <3>2, Zenon
  <2>7. 2 \in 1 .. n
    BY <2>4
  <2> QED BY <2>2, <2>3, <2>5, <2>6, <2>7, Zenon
<1> QED BY <1>1, <1>2, Zenon DEF ReferenceRunnable

\* vp_reference.hpp: the near field survives the budget.
LEMMA ConvertedKeepsNear ==
  ASSUME NEW r, Reference(r)
  PROVE  NearFieldKept(r, Convert(r))
<1>1. SUFFICES ASSUME Convert(r).ok, NEW want \in kNearArcs,
                      want < Last(CumulativeArcLengths(Segments(r)))
               PROVE  \E i \in DOMAIN Convert(r).points :
                        2 * (Convert(r).points[i].arc - (IF r.gap > kEgoGap THEN r.gap ELSE 0) - want)
                          \in -kResampleStep .. kResampleStep
  BY Zenon DEF NearFieldKept
<1>2. PICK s, p, m, x, n, h, knots : Converted(r, s, p, m, x, n, h, knots)
  BY <1>1, ConvertedIs, Zenon
<1>3. PICK points : points = Convert(r).points
  OBVIOUS
<1>4. /\ x \in Seq(Nat) /\ n = Len(x) /\ n \in kMinFollowerPoints .. kMaxPoints
      /\ Placed(r, s, p, m, x) /\ Transcribed(x, knots, h, points)
  BY <1>2, <1>3, Zenon DEF Converted
<1>5. n \in Nat
  BY <1>4 DEF kMinFollowerPoints, kMaxPoints
<1>6. DOMAIN points = 1 .. n /\ DOMAIN x = 1 .. n /\ \A i \in 1 .. n : points[i].arc = x[i]
  <2>1. PointsSay(x, n, knots, h, points)
    BY <1>4, PointsAre, Zenon
  <2> QED BY <2>1, Zenon DEF PointsSay
<1>7. \E i \in DOMAIN x :
           2 * (x[i] - (IF r.gap > kEgoGap THEN r.gap ELSE 0) - want) \in -kResampleStep .. kResampleStep
  BY <1>1, <1>4, PointsNear, Zenon
<1> QED BY <1>3, <1>6, <1>7, Zenon

\* vp_reference.hpp: the speeds and times of the points say what the schedule says.
LEMMA ConvertedSays ==
  ASSUME NEW r, Reference(r)
  PROVE  ScheduleTranscribed(r, Convert(r))
<1>1. SUFFICES ASSUME Convert(r).ok PROVE ScheduleTranscribed(r, Convert(r))
  BY Zenon DEF ScheduleTranscribed
<1>2. PICK s, p, m, x, n, h, knots : Converted(r, s, p, m, x, n, h, knots)
  BY <1>1, ConvertedIs, Zenon
<1>3. PICK points : points = Convert(r).points
  OBVIOUS
<1>4. /\ x \in Seq(Nat) /\ n = Len(x) /\ n \in kMinFollowerPoints .. kMaxPoints /\ IsIncreasing(x)
      /\ h = Clipped(r.horizon) /\ knots = ScheduleKnots(h) /\ Knots(knots, h, Len(h))
      /\ Transcribed(x, knots, h, points)
  BY <1>2, <1>3, Zenon DEF Converted
<1>5. n \in Nat /\ n >= 3
  BY <1>4 DEF kMinFollowerPoints, kMaxPoints
<1> DEFINE at(i) == x[i] + kSpeedLead
           y == Sampled(x, knots, h)
<1>6. /\ DOMAIN points = 1 .. n /\ Len(points) = n /\ Len(y) = n
      /\ \A i \in 1 .. n : /\ points[i].arc = x[i] /\ y[i] = SampleSpatial(knots, h, at(i))
                           /\ points[i].v = y[i].v /\ points[i].t = y[i].t
                           /\ points[i].a = Acceleration(y, h, i)
  <2>1. PointsSay(x, n, knots, h, points)
    BY <1>4, PointsAre, Zenon
  <2> QED BY <2>1, Zenon DEF PointsSay
<1>7. \A i \in 1 .. n : at(i) \in Nat \ {0}
  <2>1. \A i \in 1 .. n : x[i] \in Nat
    BY <1>4
  <2> QED BY <2>1 DEF kSpeedLead
<1>8. ASSUME NEW i \in 1 .. n, NEW j \in 1 .. n, i < j PROVE Follow(y[i], y[j], h)
  <2>1. x[i] < x[j] /\ x[i] \in Nat /\ x[j] \in Nat
    <3>1. x \in Seq(Int)
      BY <1>4
    <3>2. x[i] < x[j]
      BY <1>4, <1>8, <3>1, IncreasesLater, Zenon
    <3>3. x[i] \in Nat /\ x[j] \in Nat
      BY <1>4
    <3> QED BY <3>2, <3>3
  <2>2. at(i) < at(j)
    BY <2>1 DEF kSpeedLead
  <2> HIDE DEF at, y
  <2>3. Follow(SampleSpatial(knots, h, at(i)), SampleSpatial(knots, h, at(j)), h)
    BY <1>4, <1>7, <2>2, LaterFollows, Zenon
  <2> QED BY <1>6, <2>3, Zenon
<1>9. ASSUME NEW i \in 1 .. n PROVE Says(y[i], knots, h, at(i))
  <2> HIDE DEF at, y
  <2>1. Says(SampleSpatial(knots, h, at(i)), knots, h, at(i))
    BY <1>4, <1>7, SampleSays, Zenon
  <2> QED BY <1>6, <2>1, Zenon
<1>10. ASSUME NEW i \in 1 .. n
       PROVE  /\ \E lo, hi \in Range(h) : AtMost(<<lo, 1>>, points[i].v) /\ AtMost(points[i].v, <<hi, 1>>)
              /\ (Last(h) = 0 /\ points[i].arc + kSpeedLead >= Last(knots)) => points[i].v[1] = 0
  <2> HIDE DEF y
  <2> QED BY <1>6, <1>9, Zenon DEF Says
<1>11. ASSUME Brakes(h), NEW i \in 1 .. n PROVE points[i].a[1] <= 0
  <2> HIDE DEF at, y
  <2>1. \A k \in 1 .. n : Positive(y[k].v) /\ Positive(y[k].t)
    BY <1>9, Zenon DEF Says
  <2>2. \A k, j \in 1 .. n : k < j => AtMost(y[j].v, y[k].v)
    BY <1>8, <1>11, Zenon DEF Follow
  <2>3. h \in Seq(Nat) /\ Len(h) >= 2 /\ n >= 2
    BY <1>4, <1>5 DEF Knots
  <2>4. Acceleration(y, h, i)[1] <= 0
    BY <1>5, <1>6, <1>11, <2>1, <2>2, <2>3, Slowing, Zenon
  <2> QED BY <1>6, <2>4, Zenon
<1>12. ASSUME NEW i \in 1 .. n - 1 PROVE AtMost(points[i].t, points[i + 1].t)
  <2>1. i \in 1 .. n /\ i + 1 \in 1 .. n /\ i < i + 1
    BY <1>5
  <2> HIDE DEF at, y
  <2> QED BY <1>6, <1>8, <2>1, Zenon DEF Follow
<1> HIDE DEF at, y
<1> QED BY <1>3, <1>4, <1>6, <1>10, <1>11, <1>12, Zenon DEF ScheduleTranscribed, Brakes

-----------------------------------------------------------------------------
(* Values: a fraction, and the numbers it is made from.                    *)

\* The fraction p is a / b.
Val(p, a, b) ==
  /\ a \in Int /\ b \in Nat \ {0} /\ p[1] \in Int /\ p[2] \in Nat \ {0}
  /\ p[1] * b = a * p[2]

\* Factors may change places.
LEMMA Swapped ==
  /\ \A a, b \in Int : a * b \in Int /\ a * b = b * a
  /\ \A a, b, c \in Int : (a * b) * c = a * (b * c)
OBVIOUS

\* A factor that is not zero cancels.
LEMMA CancelEqual ==
  ASSUME NEW k \in Nat \ {0}, NEW a \in Int, NEW b \in Int, k * a = k * b
  PROVE  a = b
<1>1. k * a <= k * b /\ k * b <= k * a
  OBVIOUS
<1>2. a <= b /\ b <= a
  BY <1>1, Cancel
<1> QED BY <1>2

\* Two names of one value.
LEMMA ValTrans ==
  ASSUME NEW p, NEW x, NEW y, Val(p, x, y), NEW a \in Int, NEW b \in Nat \ {0}, x * b = a * y
  PROVE  Val(p, a, b)
<1>1. PICK n \in Int, m \in Nat \ {0} : n = p[1] /\ m = p[2] /\ n * y = x * m
  BY DEF Val
<1>2. x \in Int /\ y \in Nat \ {0} /\ y \in Int /\ b \in Int /\ m \in Int
  BY DEF Val
<1>3. y * (n * b) = y * (a * m)
  <2>1. y * (n * b) = (n * y) * b
    BY <1>2
  <2>2. (x * m) * b = (x * b) * m
    BY <1>2
  <2>3. (a * y) * m = y * (a * m)
    BY <1>2
  <2> QED BY <1>1, <2>1, <2>2, <2>3, Zenon
<1>4. n * b = a * m
  <2>1. n * b \in Int /\ a * m \in Int
    BY <1>2
  <2> QED BY <1>2, <1>3, <2>1, CancelEqual, Zenon
<1> QED BY <1>1, <1>4 DEF Val

\* A fraction in lowest terms has the value it is made from.
LEMMA ValFrac ==
  ASSUME NEW a \in Int, NEW b \in Nat \ {0}
  PROVE  Val(Frac(a, b), a, b)
<1>1. PICK n \in Int, d \in Nat \ {0}, k \in Int :
        Frac(a, b) = <<n, d>> /\ a = k * n /\ b = k * d /\ k # 0 /\ (k > 0 <=> b > 0)
  <2>1. b \in Int /\ b # 0
    OBVIOUS
  <2> QED BY <2>1, FracIs, Zenon
<1>2. n * (k * d) = (k * n) * d
  OBVIOUS
<1>3. n * b = a * d
  BY <1>1, <1>2, Zenon
<1> QED BY <1>1, <1>3 DEF Val

\* The value of a sum.
LEMMA ValPlus ==
  ASSUME NEW p, NEW a, NEW b, Val(p, a, b), NEW q, NEW c, NEW d, Val(q, c, d)
  PROVE  Val(Plus(p, q), a * d + c * b, b * d)
<1>1. PICK p1 \in Int, p2 \in Nat \ {0}, q1 \in Int, q2 \in Nat \ {0} :
        /\ p1 = p[1] /\ p2 = p[2] /\ q1 = q[1] /\ q2 = q[2]
        /\ p1 * b = a * p2 /\ q1 * d = c * q2
  BY DEF Val
<1>2. a \in Int /\ b \in Nat \ {0} /\ c \in Int /\ d \in Nat \ {0}
  BY DEF Val
<1>3. PICK x \in Int, y \in Nat \ {0} : x = p1 * q2 + q1 * p2 /\ y = p2 * q2
  BY <1>1
<1>4. Plus(p, q) = Frac(x, y)
  BY <1>1, <1>3, Zenon DEF Plus
<1>5. Val(Plus(p, q), x, y)
  BY <1>3, <1>4, ValFrac, Zenon
<1>6. a * d + c * b \in Int /\ b * d \in Nat \ {0}
  BY <1>2
<1>7. x * (b * d) = (a * d + c * b) * y
  <2>1. x * (b * d) = (p1 * b) * (q2 * d) + (q1 * d) * (p2 * b)
    BY <1>2, <1>3
  <2>2. (a * p2) * (q2 * d) + (c * q2) * (p2 * b) = (a * d + c * b) * y
    BY <1>2, <1>3
  <2> QED BY <1>1, <2>1, <2>2, Zenon
<1> QED BY <1>5, <1>6, <1>7, ValTrans, Zenon

\* The value of a difference.
LEMMA ValLess ==
  ASSUME NEW p, NEW a, NEW b, Val(p, a, b), NEW q, NEW c, NEW d, Val(q, c, d)
  PROVE  Val(Less(p, q), a * d - c * b, b * d)
<1>1. PICK p1 \in Int, p2 \in Nat \ {0}, q1 \in Int, q2 \in Nat \ {0} :
        /\ p1 = p[1] /\ p2 = p[2] /\ q1 = q[1] /\ q2 = q[2]
        /\ p1 * b = a * p2 /\ q1 * d = c * q2
  BY DEF Val
<1>2. a \in Int /\ b \in Nat \ {0} /\ c \in Int /\ d \in Nat \ {0}
  BY DEF Val
<1>3. PICK x \in Int, y \in Nat \ {0} : x = p1 * q2 - q1 * p2 /\ y = p2 * q2
  BY <1>1
<1>4. Less(p, q) = Frac(x, y)
  BY <1>1, <1>3, Zenon DEF Less
<1>5. Val(Less(p, q), x, y)
  BY <1>3, <1>4, ValFrac, Zenon
<1>6. a * d - c * b \in Int /\ b * d \in Nat \ {0}
  BY <1>2
<1>7. x * (b * d) = (a * d - c * b) * y
  <2>1. x * (b * d) = (p1 * b) * (q2 * d) - (q1 * d) * (p2 * b)
    BY <1>2, <1>3
  <2>2. (a * p2) * (q2 * d) - (c * q2) * (p2 * b) = (a * d - c * b) * y
    BY <1>2, <1>3
  <2> QED BY <1>1, <2>1, <2>2, Zenon
<1> QED BY <1>5, <1>6, <1>7, ValTrans, Zenon

\* The value of a product.
LEMMA ValTimes ==
  ASSUME NEW p, NEW a, NEW b, Val(p, a, b), NEW q, NEW c, NEW d, Val(q, c, d)
  PROVE  Val(Times(p, q), a * c, b * d)
<1>1. PICK p1 \in Int, p2 \in Nat \ {0}, q1 \in Int, q2 \in Nat \ {0} :
        /\ p1 = p[1] /\ p2 = p[2] /\ q1 = q[1] /\ q2 = q[2]
        /\ p1 * b = a * p2 /\ q1 * d = c * q2
  BY DEF Val
<1>2. a \in Int /\ b \in Nat \ {0} /\ c \in Int /\ d \in Nat \ {0}
  BY DEF Val
<1>3. PICK x \in Int, y \in Nat \ {0} : x = p1 * q1 /\ y = p2 * q2
  BY <1>1
<1>4. Times(p, q) = Frac(x, y)
  BY <1>1, <1>3, Zenon DEF Times
<1>5. Val(Times(p, q), x, y)
  BY <1>3, <1>4, ValFrac, Zenon
<1>6. a * c \in Int /\ b * d \in Nat \ {0}
  BY <1>2
<1>7. x * (b * d) = (a * c) * y
  <2>1. x * (b * d) = (p1 * b) * (q1 * d)
    BY <1>2, <1>3
  <2>2. (a * p2) * (c * q2) = (a * c) * y
    BY <1>2, <1>3
  <2> QED BY <1>1, <2>1, <2>2, Zenon
<1> QED BY <1>5, <1>6, <1>7, ValTrans, Zenon

\* The value of a quotient by what is positive.
LEMMA ValOver ==
  ASSUME NEW p, NEW a, NEW b, Val(p, a, b), NEW q, NEW c \in Nat \ {0}, NEW d, Val(q, c, d)
  PROVE  Val(Over(p, q), a * d, b * c)
<1>1. PICK p1 \in Int, p2 \in Nat \ {0}, q1 \in Int, q2 \in Nat \ {0} :
        /\ p1 = p[1] /\ p2 = p[2] /\ q1 = q[1] /\ q2 = q[2]
        /\ p1 * b = a * p2 /\ q1 * d = c * q2
  BY DEF Val
<1>2. a \in Int /\ b \in Nat \ {0} /\ c \in Nat \ {0} /\ d \in Nat \ {0}
  BY DEF Val
<1>3. q1 \in Nat \ {0}
  <2>1. c * q2 > 0
    BY <1>2
  <2>2. ASSUME q1 <= 0 PROVE FALSE
    <3>1. PICK e \in Nat : q1 = -e
      <4>1. -q1 \in Nat /\ q1 = -(-q1)
        BY <2>2
      <4> QED BY <4>1, Zenon
    <3>2. e * d >= 0 /\ q1 * d = -(e * d)
      BY <1>2, <3>1
    <3>3. q1 * d \in Int /\ e * d \in Int
      BY <1>2
    <3> QED BY <1>1, <2>1, <3>2, <3>3
  <2> QED BY <2>2
<1>4. PICK x \in Int, y \in Nat \ {0} : x = p1 * q2 /\ y = p2 * q1
  BY <1>1, <1>3
<1>5. Over(p, q) = Frac(x, y)
  BY <1>1, <1>4, Zenon DEF Over
<1>6. Val(Over(p, q), x, y)
  BY <1>4, <1>5, ValFrac, Zenon
<1>7. a * d \in Int /\ b * c \in Nat \ {0}
  BY <1>2
<1>8. x * (b * c) = (a * d) * y
  <2>1. x * (b * c) = (p1 * b) * (c * q2)
    BY <1>2, <1>4
  <2>2. (a * p2) * (q1 * d) = (a * d) * y
    BY <1>2, <1>4
  <2> QED BY <1>1, <2>1, <2>2, Zenon
<1> QED BY <1>6, <1>7, <1>8, ValTrans, Zenon

\* The value of a multiple.
LEMMA ValScale ==
  ASSUME NEW p, NEW a, NEW b, Val(p, a, b), NEW n \in Int
  PROVE  Val(Scale(n, p), n * a, b)
<1>1. PICK p1 \in Int, p2 \in Nat \ {0} : p1 = p[1] /\ p2 = p[2] /\ p1 * b = a * p2
  BY DEF Val
<1>2. a \in Int /\ b \in Nat \ {0}
  BY DEF Val
<1>3. PICK x \in Int : x = n * p1
  BY <1>1
<1>4. Val(Scale(n, p), x, p2)
  <2>1. Scale(n, p) = Frac(x, p2)
    BY <1>1, <1>3, Zenon DEF Scale
  <2> QED BY <2>1, ValFrac, Zenon
<1>5. x * b = (n * a) * p2
  <2>1. x * b = n * (p1 * b) /\ n * (a * p2) = (n * a) * p2
    BY <1>2, <1>3
  <2> QED BY <1>1, <2>1, Zenon
<1>6. n * a \in Int
  BY <1>2
<1> QED BY <1>2, <1>4, <1>5, <1>6, ValTrans, Zenon

\* Whole numbers.
LEMMA ValWhole ==
  ASSUME NEW c \in Int
  PROVE  Val(Int2Frac(c), c, 1)
BY DEF Val, Int2Frac

\* A value and its fraction have one sign.
LEMMA ValSign ==
  ASSUME NEW p, NEW a, NEW b, Val(p, a, b)
  PROVE  /\ p[1] > 0 <=> a > 0
         /\ p[1] < 0 <=> a < 0
         /\ p[1] \in Int /\ a \in Int
<1>1. PICK n \in Int, m \in Nat \ {0} : n = p[1] /\ m = p[2] /\ n * b = a * m
  BY DEF Val
<1>2. a \in Int /\ b \in Nat \ {0}
  BY DEF Val
<1>3. ASSUME NEW x \in Int, NEW k \in Nat \ {0}
      PROVE  x * k \in Int /\ (x > 0 <=> x * k > 0) /\ (x < 0 <=> x * k < 0)
  <2>1. CASE x > 0
    <3>1. x * k > 0
      BY <2>1
    <3> QED BY <2>1, <3>1
  <2>2. CASE x < 0
    <3>1. PICK e \in Nat \ {0} : e = -x
      BY <2>2
    <3>2. e * k > 0 /\ x * k = -(e * k)
      BY <3>1
    <3> QED BY <2>2, <3>2
  <2>3. CASE x = 0
    BY <2>3
  <2> QED BY <2>1, <2>2, <2>3
<1>4. /\ n * b \in Int /\ (n > 0 <=> n * b > 0) /\ (n < 0 <=> n * b < 0)
      /\ a * m \in Int /\ (a > 0 <=> a * m > 0) /\ (a < 0 <=> a * m < 0)
  BY <1>2, <1>3
<1> QED BY <1>1, <1>2, <1>4

\* The size of a value.
LEMMA ValAbs ==
  ASSUME NEW p, NEW a, NEW b, Val(p, a, b)
  PROVE  Val(AbsF(p), Abs(a), b)
<1>1. PICK n \in Int, m \in Nat \ {0} : n = p[1] /\ m = p[2] /\ n * b = a * m
  BY DEF Val
<1>2. a \in Int /\ b \in Nat \ {0}
  BY DEF Val
<1>3. (n > 0 <=> a > 0) /\ (n < 0 <=> a < 0)
  BY <1>1, ValSign
<1>4. Abs(n) * b = Abs(a) * m
  <2>1. CASE n >= 0
    <3>1. Abs(n) = n /\ Abs(a) = a
      BY <1>2, <1>3, <2>1 DEF Abs
    <3> QED BY <1>1, <3>1, Zenon
  <2>2. CASE n < 0
    <3>1. Abs(n) = -n /\ Abs(a) = -a
      BY <1>2, <1>3, <2>2 DEF Abs
    <3>2. (-n) * b = -(n * b) /\ (-a) * m = -(a * m)
      BY <1>2
    <3> QED BY <1>1, <3>1, <3>2, Zenon
  <2> QED BY <2>1, <2>2
<1>5. Abs(n) \in Int /\ Abs(a) \in Int
  BY <1>2 DEF Abs
<1>6. AbsF(p) = <<Abs(n), m>>
  BY <1>1, Zenon DEF AbsF
<1>7. AbsF(p)[1] = Abs(n) /\ AbsF(p)[2] = m
  BY <1>6
<1> QED BY <1>1, <1>2, <1>4, <1>5, <1>7 DEF Val

-----------------------------------------------------------------------------
(* The filtered speeds of a trajectory.                                    *)

\* out is v and a change x / y.
Changed(out, v, w, d, x, y) == Val(v, w, d) /\ x \in Int /\ y \in Nat \ {0} /\ Val(out, w * y + x * d, d * y)

\* Taking v away again leaves the change.
LEMMA ChangeIs ==
  ASSUME NEW out, NEW v, NEW w, NEW d, NEW x, NEW y, Changed(out, v, w, d, x, y)
  PROVE  Val(Less(out, v), x, y)
<1>1. w \in Int /\ d \in Nat \ {0} /\ x \in Int /\ y \in Nat \ {0}
  BY DEF Changed, Val
<1>2. Val(Less(out, v), (w * y + x * d) * d - w * (d * y), (d * y) * d)
  BY ValLess, Zenon DEF Changed
<1>3. ((w * y + x * d) * d - w * (d * y)) * y = x * ((d * y) * d)
  BY <1>1
<1> QED BY <1>1, <1>2, <1>3, ValTrans, Zenon

\* What is left of the way to a target t.
LEMMA LeftIs ==
  ASSUME NEW out, NEW v, NEW w, NEW d, NEW x, NEW y, Changed(out, v, w, d, x, y), NEW t \in Int
  PROVE  Val(Less(Int2Frac(t), out), (t * d - w) * y - x * d, d * y)
<1>1. w \in Int /\ d \in Nat \ {0} /\ x \in Int /\ y \in Nat \ {0}
  BY DEF Changed, Val
<1>2. Val(Less(Int2Frac(t), out), t * (d * y) - (w * y + x * d) * 1, 1 * (d * y))
  BY ValWhole, ValLess, Zenon DEF Changed
<1>3. t * (d * y) - (w * y + x * d) * 1 = (t * d - w) * y - x * d /\ 1 * (d * y) = d * y
  BY <1>1
<1> QED BY <1>2, <1>3, Zenon

\* A step towards t, x / y, of no more than most: it does not pass t, and from
\* anything but a stand it is no faster than most / |v|.
Towards(w, d, x, y, t, most) ==
  /\ \/ x >= 0 /\ (t * d - w) * y - x * d >= 0
     \/ x <= 0 /\ (t * d - w) * y - x * d <= 0
  /\ w # 0 => Abs(x) * Abs(w) <= most * (y * d)

\* What FilterFollowsReference says of one speed.
Follows1(out, v, t, most) ==
  LET dv  == Less(out, v)
      gap == Less(Int2Frac(t), out)
  IN  /\ dv[1] * gap[1] >= 0
      /\ v[1] # 0 => Less(Times(AbsF(dv), AbsF(v)), Int2Frac(most))[1] <= 0

\* A step towards the target is one that FilterFollowsReference allows.
LEMMA TowardsFollows ==
  ASSUME NEW out, NEW v, NEW w, NEW d, NEW x, NEW y, Changed(out, v, w, d, x, y), NEW t \in Int,
         NEW most \in Nat, Towards(w, d, x, y, t, most)
  PROVE  Follows1(out, v, t, most)
<1>1. w \in Int /\ d \in Nat \ {0} /\ x \in Int /\ y \in Nat \ {0} /\ Val(v, w, d)
  BY DEF Changed, Val
<1>2. PICK dv : dv = Less(out, v) /\ Val(dv, x, y)
  BY ChangeIs, Zenon
<1>3. PICK gap, h : gap = Less(Int2Frac(t), out) /\ h = (t * d - w) * y - x * d /\ Val(gap, h, d * y)
  BY LeftIs, Zenon
<1>4. dv[1] * gap[1] >= 0
  <2>1. /\ dv[1] > 0 <=> x > 0
        /\ dv[1] < 0 <=> x < 0
        /\ gap[1] > 0 <=> h > 0
        /\ gap[1] < 0 <=> h < 0
        /\ dv[1] \in Int /\ gap[1] \in Int /\ h \in Int
    BY <1>2, <1>3, ValSign, Zenon
  <2>2. (x >= 0 /\ h >= 0) \/ (x <= 0 /\ h <= 0)
    BY <1>3, Zenon DEF Towards
  <2>3. PICK a \in Int, b \in Int : a = dv[1] /\ b = gap[1] /\ ((a >= 0 /\ b >= 0) \/ (a <= 0 /\ b <= 0))
    BY <1>1, <2>1, <2>2
  <2>4. a * b >= 0
    <3>1. CASE a >= 0 /\ b >= 0
      <4>1. a \in Nat /\ b \in Nat
        BY <3>1
      <4> QED BY <4>1
    <3>2. CASE a <= 0 /\ b <= 0
      <4>1. PICK e \in Nat, f \in Nat : e = -a /\ f = -b
        BY <3>2
      <4>2. a * b = e * f /\ e * f \in Nat
        BY <4>1
      <4> QED BY <4>2
    <3> QED BY <2>3, <3>1, <3>2
  <2> QED BY <2>3, <2>4, Zenon
<1>5. ASSUME v[1] # 0 PROVE Less(Times(AbsF(dv), AbsF(v)), Int2Frac(most))[1] <= 0
  <2>1. w # 0
    <3>1. v[1] \in Int /\ (v[1] > 0 <=> w > 0) /\ (v[1] < 0 <=> w < 0)
      BY <1>1, ValSign, Zenon
    <3> QED BY <1>1, <1>5, <3>1
  <2>2. PICK a \in Nat, b \in Nat : a = Abs(x) /\ b = Abs(w)
    BY <1>1 DEF Abs
  <2>3. Val(AbsF(dv), a, y) /\ Val(AbsF(v), b, d)
    BY <1>1, <1>2, <2>2, ValAbs, Zenon
  <2>4. Val(Times(AbsF(dv), AbsF(v)), a * b, y * d)
    BY <2>3, ValTimes, Zenon
  <2>5. PICK z : z = Less(Times(AbsF(dv), AbsF(v)), Int2Frac(most))
                 /\ Val(z, a * b * 1 - most * (y * d), (y * d) * 1)
    <3>1. most \in Int
      OBVIOUS
    <3>2. Val(Int2Frac(most), most, 1)
      BY <3>1, ValWhole, Zenon
    <3> QED BY <2>4, <3>2, ValLess, Zenon
  <2>6. z[1] \in Int /\ (z[1] > 0 <=> a * b * 1 - most * (y * d) > 0)
    BY <2>5, ValSign, Zenon
  <2>7. a * b <= most * (y * d)
    BY <2>1, <2>2, Zenon DEF Towards
  <2>8. PICK k \in Int, l \in Int : k = a * b /\ l = most * (y * d)
    BY <1>1
  <2>9. a * b * 1 = k
    BY <2>8
  <2> QED BY <2>5, <2>6, <2>7, <2>8, <2>9
<1> QED BY <1>2, <1>3, <1>4, <1>5, Zenon DEF Follows1

\* The parts of a filtered speed from v = w / d, not zero: the time dt to the next
\* point, the lagging step and the most the limit allows, with n = ds * d and
\* m = tau * |w| + n.
Parts(v, target, ds, acc, tau, w, d, n, m, g, step, most) ==
  /\ step = Times(Over(Over(Int2Frac(ds), AbsF(v)),
                       Plus(Int2Frac(tau), Over(Int2Frac(ds), AbsF(v)))),
                  Less(Int2Frac(target), v))
  /\ most = Scale(acc, Over(Int2Frac(ds), AbsF(v)))
  /\ n \in Nat \ {0} /\ m \in Nat \ {0} /\ g \in Int
  /\ n = ds * d /\ m = tau * Abs(w) + n /\ g = target * d - w
  /\ Val(step, n * g, m * d) /\ Val(most, acc * n, Abs(w))

\* mpc_utils.cpp, dynamicSmoothingVelocity: what the parts are.
LEMMA PartsAre ==
  ASSUME NEW v, NEW w, NEW d, Val(v, w, d), w # 0, NEW target \in Int, NEW ds \in Nat \ {0},
         NEW acc \in Nat, NEW tau \in Nat
  PROVE  \E n, m, g, step, most : Parts(v, target, ds, acc, tau, w, d, n, m, g, step, most)
<1>1. w \in Int /\ d \in Nat \ {0}
  BY DEF Val
<1>2. PICK a \in Nat \ {0} : a = Abs(w)
  BY <1>1 DEF Abs
<1>3. PICK n \in Nat \ {0} : n = ds * d
  BY <1>1
<1>4. PICK m \in Nat \ {0} : m = tau * a + n
  <2>1. tau * a \in Nat
    OBVIOUS
  <2> QED BY <2>1
<1>5. PICK g \in Int : g = target * d - w
  BY <1>1
<1>6. PICK dt : dt = Over(Int2Frac(ds), AbsF(v)) /\ Val(dt, n, a)
  <2>1. ds \in Int
    OBVIOUS
  <2>2. Val(Int2Frac(ds), ds, 1) /\ Val(AbsF(v), a, d)
    BY <1>2, <2>1, ValWhole, ValAbs, Zenon
  <2>3. Val(Over(Int2Frac(ds), AbsF(v)), ds * d, 1 * a)
    BY <2>2, ValOver, Zenon
  <2>4. 1 * a = a
    OBVIOUS
  <2> QED BY <1>3, <2>3, <2>4, Zenon
<1>7. PICK sum : sum = Plus(Int2Frac(tau), dt) /\ Val(sum, m, a)
  <2>1. tau \in Int
    OBVIOUS
  <2>2. Val(Plus(Int2Frac(tau), dt), tau * a + n * 1, 1 * a)
    BY <1>6, <2>1, ValWhole, ValPlus, Zenon
  <2>3. tau * a + n * 1 = tau * a + n /\ 1 * a = a
    OBVIOUS
  <2> QED BY <1>4, <2>2, <2>3, Zenon
<1>8. PICK ratio : ratio = Over(dt, sum) /\ Val(ratio, n, m)
  <2>1. Val(Over(dt, sum), n * a, a * m)
    BY <1>6, <1>7, ValOver, Zenon
  <2>2. (n * a) * m = n * (a * m) /\ n \in Int
    OBVIOUS
  <2>3. Val(Over(dt, sum), n, m)
    BY <2>1, <2>2, ValTrans, Zenon
  <2> QED BY <2>3, Zenon
<1>9. Val(Less(Int2Frac(target), v), g, d)
  <2>1. Val(Less(Int2Frac(target), v), target * d - w * 1, 1 * d)
    BY ValWhole, ValLess, Zenon
  <2>2. target * d - w * 1 = target * d - w /\ 1 * d = d
    BY <1>1
  <2> QED BY <1>5, <2>1, <2>2, Zenon
<1>10. PICK step : step = Times(ratio, Less(Int2Frac(target), v)) /\ Val(step, n * g, m * d)
  BY <1>8, <1>9, ValTimes, Zenon
<1>11. PICK most : most = Scale(acc, dt) /\ Val(most, acc * n, a)
  <2>1. acc \in Int
    OBVIOUS
  <2> QED BY <1>6, <2>1, ValScale, Zenon
<1>12. Parts(v, target, ds, acc, tau, w, d, n, m, g, step, most)
  BY <1>2, <1>3, <1>4, <1>5, <1>6, <1>7, <1>8, <1>10, <1>11, Zenon DEF Parts
<1> QED BY <1>12, Zenon

\* Adding a value is a change by it.
LEMMA PlusChanges ==
  ASSUME NEW v, NEW w, NEW d, Val(v, w, d), NEW q, NEW x, NEW y, Val(q, x, y)
  PROVE  Changed(Plus(v, q), v, w, d, x, y)
<1>1. x \in Int /\ y \in Nat \ {0}
  BY DEF Val
<1>2. Val(Plus(v, q), w * y + x * d, d * y)
  BY ValPlus, Zenon
<1> QED BY <1>1, <1>2, Zenon DEF Changed

\* Taking a value away is a change by its negative.
LEMMA LessChanges ==
  ASSUME NEW v, NEW w, NEW d, Val(v, w, d), NEW q, NEW x, NEW y, Val(q, x, y)
  PROVE  Changed(Less(v, q), v, w, d, -x, y)
<1>1. w \in Int /\ d \in Nat \ {0} /\ x \in Int /\ y \in Nat \ {0}
  BY DEF Val
<1>2. Val(Less(v, q), w * y - x * d, d * y)
  BY ValLess, Zenon
<1>3. w * y - x * d = w * y + (-x) * d /\ -x \in Int
  BY <1>1
<1> QED BY <1>1, <1>2, <1>3, Zenon DEF Changed

\* The whole step, where it is not more than the limit allows.
LEMMA StepTowards ==
  ASSUME NEW w \in Int, NEW d \in Nat \ {0}, NEW t \in Int, NEW ds \in Nat, NEW acc \in Nat,
         NEW n \in Nat \ {0}, n = ds * d, NEW tau \in Nat, NEW m \in Nat \ {0}, m = tau * Abs(w) + n,
         NEW g \in Int, g = t * d - w,
         Abs(n * g) * Abs(w) <= (acc * n) * (m * d)
  PROVE  Towards(w, d, n * g, m * d, t, acc * ds)
<1>1. PICK a \in Nat : a = Abs(w)
  BY DEF Abs
<1>2. PICK r \in Nat : r = tau * a /\ m = r + n
  BY <1>1
<1>3. (t * d - w) * (m * d) - (n * g) * d = g * (d * r)
  <2>1. g * (m * d) - (n * g) * d = g * (d * (m - n))
    OBVIOUS
  <2>2. m - n = r
    BY <1>2
  <2> QED BY <2>1, <2>2, Zenon
<1>4. PICK k \in Nat : k = d * r
  BY <1>2
<1>5. \/ n * g >= 0 /\ g * k >= 0
      \/ n * g <= 0 /\ g * k <= 0
  <2>1. CASE g >= 0
    <3>1. PICK e \in Nat : e = g
      BY <2>1
    <3>2. n * e >= 0 /\ e * k >= 0
      OBVIOUS
    <3> QED BY <3>1, <3>2, Zenon
  <2>2. CASE g <= 0
    <3>1. PICK e \in Nat : e = -g /\ g = -e
      BY <2>2
    <3>2. n * (-e) = -(n * e) /\ (-e) * k = -(e * k) /\ n * e \in Nat /\ e * k \in Nat
      OBVIOUS
    <3>3. n * (-e) <= 0 /\ (-e) * k <= 0
      BY <3>2
    <3> QED BY <3>1, <3>3, Zenon
  <2> QED BY <2>1, <2>2
<1>6. (acc * n) * (m * d) = (acc * ds) * ((m * d) * d)
  <2>1. (acc * (ds * d)) * (m * d) = (acc * ds) * ((m * d) * d)
    OBVIOUS
  <2> QED BY <2>1
<1>7. /\ \/ n * g >= 0 /\ (t * d - w) * (m * d) - (n * g) * d >= 0
         \/ n * g <= 0 /\ (t * d - w) * (m * d) - (n * g) * d <= 0
      /\ w # 0 => Abs(n * g) * Abs(w) <= (acc * ds) * ((m * d) * d)
  BY <1>3, <1>4, <1>5, <1>6, Zenon
<1> QED BY <1>7, Zenon DEF Towards

\* The limit, where the step would be more.
LEMMA MostTowards ==
  ASSUME NEW w \in Int, w # 0, NEW d \in Nat \ {0}, NEW t \in Int, NEW ds \in Nat, NEW acc \in Nat,
         NEW n \in Nat \ {0}, n = ds * d, NEW tau \in Nat, NEW m \in Nat \ {0}, m = tau * Abs(w) + n,
         NEW g \in Int, g = t * d - w,
         Abs(n * g) * Abs(w) > (acc * n) * (m * d)
  PROVE  /\ n * g > 0 => Towards(w, d, acc * n, Abs(w), t, acc * ds)
         /\ ~(n * g > 0) => Towards(w, d, -(acc * n), Abs(w), t, acc * ds)
<1>1. PICK a \in Nat \ {0} : a = Abs(w)
  BY DEF Abs
<1>2. PICK r \in Nat : r = tau * a /\ m = r + n
  BY <1>1
<1>3. PICK b \in Nat : b = Abs(g) /\ Abs(n * g) = n * b
  <2>1. CASE g >= 0
    <3>1. n * g >= 0
      BY <2>1
    <3> QED BY <2>1, <3>1 DEF Abs
  <2>2. CASE g < 0
    <3>1. PICK e \in Nat \ {0} : e = -g /\ g = -e
      BY <2>2
    <3>2. n * (-e) = -(n * e) /\ n * e > 0
      OBVIOUS
    <3>3. Abs(n * g) = n * e /\ Abs(g) = e
      BY <3>1, <3>2 DEF Abs
    <3> QED BY <3>3
  <2> QED BY <2>1, <2>2
<1>4. (acc * n) * d <= b * a
  <2>1. (n * b) * a > (acc * n) * (m * d)
    BY <1>1, <1>3, Zenon
  <2>2. (n * b) * a = n * (b * a) /\ (acc * n) * (m * d) = n * ((acc * d) * m)
    OBVIOUS
  <2>3. PICK p \in Nat, q \in Nat, k \in Nat : p = b * a /\ q = (acc * d) * m /\ k = acc * d
    <3>1. b * a \in Nat
      OBVIOUS
    <3>2. acc * d \in Nat
      OBVIOUS
    <3>3. (acc * d) * m \in Nat
      BY <3>2
    <3> QED BY <3>1, <3>2, <3>3, Zenon
  <2>4. n * q <= n * p
    <3>1. n * p > n * q
      BY <2>1, <2>2, <2>3
    <3>2. n * p \in Int /\ n * q \in Int
      OBVIOUS
    <3> QED BY <3>1, <3>2
  <2>5. q <= p
    <3>1. p \in Int /\ q \in Int
      OBVIOUS
    <3> QED BY <2>4, <3>1, Cancel, Zenon
  <2>6. k * n <= k * m
    <3>1. n <= m /\ n \in Int /\ m \in Int
      BY <1>2
    <3> QED BY <3>1, TimesMonotone, Zenon
  <2>7. (acc * n) * d = k * n
    BY <2>3
  <2>8. k * m = q /\ k * n \in Int
    BY <2>3
  <2> QED BY <2>3, <2>5, <2>6, <2>7, <2>8
<1>5. PICK x \in Nat : x = acc * n /\ x * a = (acc * ds) * (a * d)
  <2>1. (acc * (ds * d)) * a = (acc * ds) * (a * d)
    BY <1>1
  <2> QED BY <2>1
<1>6. PICK xd \in Nat, ba \in Nat : xd = x * d /\ ba = b * a /\ xd <= ba
  BY <1>4, <1>5
<1>7. ASSUME n * g > 0 PROVE Towards(w, d, x, a, t, acc * ds)
  <2>1. g = b
    <3>1. g >= 0
      <4>1. SUFFICES ASSUME g < 0 PROVE FALSE
        OBVIOUS
      <4>2. PICK e \in Nat \ {0} : g = -e
        <5>1. -g \in Nat \ {0} /\ g = -(-g)
          BY <4>1
        <5> QED BY <5>1, Zenon
      <4>3. n * (-e) = -(n * e) /\ n * e > 0 /\ n * e \in Int
        OBVIOUS
      <4> QED BY <1>7, <4>2, <4>3
    <3> QED BY <1>3, <3>1 DEF Abs
  <2>2. (t * d - w) * a - x * d >= 0
    <3>1. (t * d - w) * a = ba
      BY <1>6, <2>1, Zenon
    <3> QED BY <1>6, <3>1
  <2>3. x >= 0 /\ Abs(x) = x
    BY DEF Abs
  <2>4. Abs(x) * Abs(w) <= (acc * ds) * (a * d)
    <3>1. Abs(x) * Abs(w) = (acc * ds) * (a * d)
      BY <1>1, <1>5, <2>3, Zenon
    <3>2. (acc * ds) * (a * d) \in Int
      OBVIOUS
    <3> QED BY <3>1, <3>2
  <2> QED BY <2>2, <2>3, <2>4, Zenon DEF Towards
<1>8. ASSUME ~(n * g > 0) PROVE Towards(w, d, -x, a, t, acc * ds)
  <2>1. g = -b
    <3>1. g <= 0
      <4>1. SUFFICES ASSUME g > 0 PROVE FALSE
        OBVIOUS
      <4>2. n * g > 0
        BY <4>1
      <4> QED BY <1>8, <4>2
    <3> QED BY <1>3, <3>1 DEF Abs
  <2>2. (t * d - w) * a - (-x) * d <= 0
    <3>1. (-b) * a = -(b * a) /\ (-x) * d = -(x * d)
      OBVIOUS
    <3>2. (t * d - w) * a = -ba
      BY <1>6, <2>1, <3>1, Zenon
    <3>3. (-x) * d = -xd
      BY <1>6, <3>1, Zenon
    <3> QED BY <1>6, <3>2, <3>3
  <2>3. -x <= 0 /\ Abs(-x) = x
    BY DEF Abs
  <2>4. Abs(-x) * Abs(w) <= (acc * ds) * (a * d)
    <3>1. Abs(-x) * Abs(w) = (acc * ds) * (a * d)
      BY <1>1, <1>5, <2>3, Zenon
    <3>2. (acc * ds) * (a * d) \in Int
      OBVIOUS
    <3> QED BY <3>1, <3>2
  <2> QED BY <2>2, <2>3, <2>4, Zenon DEF Towards
<1> QED BY <1>1, <1>5, <1>7, <1>8, Zenon

\* What a point of the filter does to the speed of the point before.
SpeedMoves(out, v, w, d, t, most) ==
  \E x, y : Changed(out, v, w, d, x, y) /\ Towards(w, d, x, y, t, most)

\* No way to the next point: the speed stays.
LEMMA StaysMoves ==
  ASSUME NEW v, NEW w, NEW d, Val(v, w, d), NEW target \in Int, NEW acc \in Nat
  PROVE  SpeedMoves(v, v, w, d, target, acc * 0)
<1>1. w \in Int /\ d \in Nat \ {0}
  BY DEF Val
<1>2. Changed(v, v, w, d, 0, 1)
  <2>1. w * 1 + 0 * d = w /\ d * 1 = d /\ 0 \in Int /\ 1 \in Nat \ {0}
    BY <1>1
  <2> QED BY <2>1, Zenon DEF Changed
<1>3. Towards(w, d, 0, 1, target, acc * 0)
  <2>1. PICK h \in Int : h = (target * d - w) * 1 - 0 * d
    BY <1>1
  <2>2. (0 >= 0 /\ h >= 0) \/ (0 <= 0 /\ h <= 0)
    OBVIOUS
  <2>3. Abs(0) * Abs(w) <= (acc * 0) * (1 * d)
    <3>1. PICK a \in Nat : a = Abs(w)
      BY <1>1 DEF Abs
    <3>2. Abs(0) = 0
      BY DEF Abs
    <3>3. 0 * a <= (acc * 0) * (1 * d)
      BY <1>1
    <3> QED BY <3>1, <3>2, <3>3, Zenon
  <2> QED BY <2>1, <2>2, <2>3, Zenon DEF Towards
<1> QED BY <1>2, <1>3, Zenon DEF SpeedMoves

\* From a stand the reference speed is taken at once.
LEMMA StandMoves ==
  ASSUME NEW v, NEW w, NEW d, Val(v, w, d), w = 0, NEW target \in Int, NEW most \in Nat
  PROVE  SpeedMoves(Int2Frac(target), v, w, d, target, most)
<1>1. w \in Int /\ d \in Nat \ {0}
  BY DEF Val
<1>2. Changed(Int2Frac(target), v, w, d, target, 1)
  <2>1. PICK e \in Int : e = w * 1 + target * d /\ target * (d * 1) = e * 1 /\ d * 1 \in Nat \ {0}
    <3>1. PICK e \in Int : e = target * d
      BY <1>1
    <3>2. e = w * 1 + target * d
      BY <1>1, <3>1
    <3>3. target * (d * 1) = e * 1 /\ d * 1 \in Nat \ {0}
      BY <1>1, <3>1
    <3> QED BY <3>2, <3>3
  <2>2. Val(Int2Frac(target), e, d * 1)
    BY <2>1, ValWhole, ValTrans, Zenon
  <2>3. 1 \in Nat \ {0}
    OBVIOUS
  <2> QED BY <2>1, <2>2, <2>3, Zenon DEF Changed
<1>3. Towards(w, d, target, 1, target, most)
  <2>1. (target * d - w) * 1 - target * d = 0
    BY <1>1
  <2>2. /\ (target >= 0 /\ 0 >= 0) \/ (target <= 0 /\ 0 <= 0)
    OBVIOUS
  <2> QED BY <2>1, <2>2, Zenon DEF Towards
<1> QED BY <1>2, <1>3, Zenon DEF SpeedMoves

\* mpc_utils.cpp, dynamicSmoothingVelocity: one point moves the speed towards
\* its own, within the limit.
LEMMA FilteredMoves ==
  ASSUME NEW v, NEW w, NEW d, Val(v, w, d), NEW target \in Int, NEW ds \in Nat,
         NEW acc \in Nat, NEW tau \in Nat
  PROVE  SpeedMoves(FilteredSpeed(v, target, ds, acc, tau), v, w, d, target, acc * ds)
<1>1. w \in Int /\ d \in Nat \ {0}
  BY DEF Val
<1>2. acc * ds \in Nat
  OBVIOUS
<1>3. v[1] = 0 <=> w = 0
  <2>1. v[1] \in Int /\ w \in Int /\ (v[1] > 0 <=> w > 0) /\ (v[1] < 0 <=> w < 0)
    BY ValSign, Zenon
  <2> QED BY <2>1
<1>4. CASE ds = 0
  <2>1. FilteredSpeed(v, target, ds, acc, tau) = v
    BY <1>4, Zenon DEF FilteredSpeed
  <2> QED BY <1>4, <2>1, StaysMoves, Zenon
<1>5. CASE ds # 0 /\ w = 0
  <2>1. FilteredSpeed(v, target, ds, acc, tau) = Int2Frac(target)
    BY <1>3, <1>5, Zenon DEF FilteredSpeed
  <2> QED BY <1>2, <1>5, <2>1, StandMoves, Zenon
<1>6. CASE ds # 0 /\ w # 0
  <2>1. ds \in Nat \ {0} /\ v[1] # 0
    BY <1>3, <1>6
  <2>2. PICK n, m, g, step, most : Parts(v, target, ds, acc, tau, w, d, n, m, g, step, most)
    BY <1>6, <2>1, PartsAre, Zenon
  <2>3. /\ n \in Nat \ {0} /\ m \in Nat \ {0} /\ g \in Int
        /\ n = ds * d /\ m = tau * Abs(w) + n /\ g = target * d - w
        /\ Val(step, n * g, m * d) /\ Val(most, acc * n, Abs(w))
    BY <2>2, Zenon DEF Parts
  <2>4. FilteredSpeed(v, target, ds, acc, tau)
          = IF Less(AbsF(step), most)[1] <= 0 THEN Plus(v, step)
            ELSE IF step[1] > 0 THEN Plus(v, most) ELSE Less(v, most)
    BY <2>1, <2>2, Zenon DEF FilteredSpeed, Parts
  <2>5. PICK p, q, z :
          /\ p \in Int /\ q \in Int
          /\ z = Less(AbsF(step), most) /\ p = Abs(n * g) * Abs(w) /\ q = (acc * n) * (m * d)
          /\ z[1] \in Int /\ (z[1] > 0 <=> p - q > 0)
    <3>1. Val(AbsF(step), Abs(n * g), m * d)
      BY <2>3, ValAbs, Zenon
    <3>2. Val(Less(AbsF(step), most), Abs(n * g) * Abs(w) - (acc * n) * (m * d), (m * d) * Abs(w))
      BY <2>3, <3>1, ValLess, Zenon
    <3>3. PICK p \in Int, q \in Int : p = Abs(n * g) * Abs(w) /\ q = (acc * n) * (m * d)
      <4>1. Abs(n * g) \in Int /\ Abs(w) \in Int
        <5>1. n * g \in Int
          BY <2>3
        <5> QED BY <1>1, <5>1 DEF Abs
      <4>2. Abs(n * g) * Abs(w) \in Int
        BY <4>1
      <4>3. acc * n \in Int /\ m * d \in Int
        BY <1>1, <2>3
      <4>4. (acc * n) * (m * d) \in Int
        BY <4>3
      <4> QED BY <4>2, <4>4, Zenon
    <3>4. Val(Less(AbsF(step), most), p - q, (m * d) * Abs(w))
      BY <3>2, <3>3, Zenon
    <3> QED BY <3>3, <3>4, ValSign, Zenon
  <2>6. CASE z[1] <= 0
    <3>1. p <= q
      BY <2>5, <2>6
    <3>2. Towards(w, d, n * g, m * d, target, acc * ds)
      BY <1>1, <2>3, <2>5, <3>1, StepTowards, Zenon
    <3>3. Changed(Plus(v, step), v, w, d, n * g, m * d)
      BY <2>3, PlusChanges, Zenon
    <3>4. FilteredSpeed(v, target, ds, acc, tau) = Plus(v, step)
      BY <2>4, <2>5, <2>6, Zenon
    <3> QED BY <3>2, <3>3, <3>4, Zenon DEF SpeedMoves
  <2>7. CASE ~(z[1] <= 0)
    <3>1. p > q
      BY <2>5, <2>7
    <3>2. /\ n * g > 0 => Towards(w, d, acc * n, Abs(w), target, acc * ds)
          /\ ~(n * g > 0) => Towards(w, d, -(acc * n), Abs(w), target, acc * ds)
      BY <1>1, <1>6, <2>3, <2>5, <3>1, MostTowards, Zenon
    <3>3. Changed(Plus(v, most), v, w, d, acc * n, Abs(w))
      BY <2>3, PlusChanges, Zenon
    <3>4. Changed(Less(v, most), v, w, d, -(acc * n), Abs(w))
      BY <2>3, LessChanges, Zenon
    <3>5. step[1] > 0 <=> n * g > 0
      BY <2>3, ValSign, Zenon
    <3>6. FilteredSpeed(v, target, ds, acc, tau)
            = IF n * g > 0 THEN Plus(v, most) ELSE Less(v, most)
      BY <2>4, <2>5, <2>7, <3>5, Zenon
    <3> QED BY <3>2, <3>3, <3>4, <3>6, Zenon DEF SpeedMoves
  <2> QED BY <2>6, <2>7
<1> QED BY <1>4, <1>5, <1>6

\* What moves follows, and is a fraction again.
LEMMA MovesFollows ==
  ASSUME NEW out, NEW v, NEW w, NEW d, NEW t \in Int, NEW most \in Nat, SpeedMoves(out, v, w, d, t, most)
  PROVE  Follows1(out, v, t, most) /\ \E e, f : Val(out, e, f)
<1>1. PICK x, y : Changed(out, v, w, d, x, y) /\ Towards(w, d, x, y, t, most)
  BY Zenon DEF SpeedMoves
<1>2. Follows1(out, v, t, most)
  BY <1>1, TowardsFollows, Zenon
<1>3. Val(out, w * y + x * d, d * y)
  BY <1>1, Zenon DEF Changed
<1> QED BY <1>2, <1>3, Zenon

\* A fraction is its own value.
LEMMA FracsVal ==
  ASSUME NEW v \in Fractions
  PROVE  Val(v, v[1], v[2])
BY DEF Fractions, Val

\* Whole numbers, sums and differences are fractions.
LEMMA MadeFracs ==
  /\ \A c \in Int : Int2Frac(c) \in Fractions
  /\ \A p, a, b, q, c, d : Val(p, a, b) /\ Val(q, c, d) => Plus(p, q) \in Fractions /\ Less(p, q) \in Fractions
<1>1. ASSUME NEW c \in Int PROVE Int2Frac(c) \in Fractions
  BY DEF Int2Frac, Fractions
<1>2. ASSUME NEW x \in Int, NEW y \in Nat \ {0} PROVE Frac(x, y) \in Fractions
  BY FracCompares
<1>3. ASSUME NEW p, NEW a, NEW b, NEW q, NEW c, NEW d, Val(p, a, b), Val(q, c, d)
      PROVE  Plus(p, q) \in Fractions /\ Less(p, q) \in Fractions
  <2>1. p[1] \in Int /\ p[2] \in Nat \ {0} /\ q[1] \in Int /\ q[2] \in Nat \ {0}
    BY <1>3, Zenon DEF Val
  <2>2. PICK x \in Int, u \in Int, y \in Nat \ {0} :
          x = p[1] * q[2] + q[1] * p[2] /\ u = p[1] * q[2] - q[1] * p[2] /\ y = p[2] * q[2]
    BY <2>1
  <2>3. Plus(p, q) = Frac(x, y) /\ Less(p, q) = Frac(u, y)
    BY <2>2, Zenon DEF Plus, Less
  <2> QED BY <1>2, <2>2, <2>3, Zenon
<1> QED BY <1>1, <1>3, Zenon

\* So are the filtered speeds.
LEMMA FilteredFracs ==
  ASSUME NEW v \in Fractions, NEW target \in Int, NEW ds \in Nat, NEW acc \in Nat, NEW tau \in Nat
  PROVE  FilteredSpeed(v, target, ds, acc, tau) \in Fractions
<1>1. PICK w, d : Val(v, w, d)
  BY FracsVal, Zenon
<1>2. CASE ds = 0 \/ v[1] = 0
  <2>1. FilteredSpeed(v, target, ds, acc, tau) \in {v, Int2Frac(target)}
    BY <1>2, Zenon DEF FilteredSpeed
  <2> QED BY <2>1, MadeFracs, Zenon
<1>3. CASE ds # 0 /\ v[1] # 0
  <2>1. ds \in Nat \ {0} /\ w # 0
    <3>1. v[1] \in Int /\ w \in Int /\ (v[1] > 0 <=> w > 0) /\ (v[1] < 0 <=> w < 0)
      BY <1>1, ValSign, Zenon
    <3> QED BY <1>3, <3>1
  <2>2. PICK n, m, g, step, most : Parts(v, target, ds, acc, tau, w, d, n, m, g, step, most)
    BY <1>1, <2>1, PartsAre, Zenon
  <2>3. Val(step, n * g, m * d) /\ Val(most, acc * n, Abs(w))
    BY <2>2, Zenon DEF Parts
  <2>4. FilteredSpeed(v, target, ds, acc, tau)
          = IF Less(AbsF(step), most)[1] <= 0 THEN Plus(v, step)
            ELSE IF step[1] > 0 THEN Plus(v, most) ELSE Less(v, most)
    BY <1>3, <2>2, Zenon DEF FilteredSpeed, Parts
  <2>5. Plus(v, step) \in Fractions /\ Plus(v, most) \in Fractions /\ Less(v, most) \in Fractions
    BY <1>1, <2>3, MadeFracs, Zenon
  <2> QED BY <2>4, <2>5, Zenon
<1> QED BY <1>2, <1>3

\* One point of the filter, from the point before.
FilterStep(seg, start, steps, vx, acc, tau, i, v) ==
  IF i < seg THEN Int2Frac(vx[i])
  ELSE IF i <= seg + 1 THEN Int2Frac(start)
  ELSE FilteredSpeed(v, vx[i], steps[i - 1], acc, tau)

\* The filter goes from point to point.
FilterRuns(out, seg, start, steps, vx, acc, tau) ==
  out = [i \in 1 .. Len(vx) |-> FilterStep(seg, start, steps, vx, acc, tau, i, out[i - 1])]

\* A point of the filter is a fraction where the point before is one.
LEMMA StepFracs ==
  ASSUME NEW seg \in Nat \ {0}, NEW start \in Int, NEW steps \in Seq(Nat), NEW vx \in Seq(Int),
         Len(vx) <= Len(steps) + 1, NEW acc \in Nat, NEW tau \in Nat,
         NEW i \in 1 .. Len(vx), NEW v, v \in Fractions \/ i <= seg + 1
  PROVE  FilterStep(seg, start, steps, vx, acc, tau, i, v) \in Fractions
<1>1. vx[i] \in Int
  OBVIOUS
<1>2. CASE i <= seg + 1
  <2>1. FilterStep(seg, start, steps, vx, acc, tau, i, v) \in {Int2Frac(vx[i]), Int2Frac(start)}
    BY <1>2, Zenon DEF FilterStep
  <2> QED BY <1>1, <2>1, MadeFracs, Zenon
<1>3. CASE ~(i <= seg + 1)
  <2>1. steps[i - 1] \in Nat
    BY <1>3
  <2>2. ~(i < seg)
    BY <1>3
  <2>3. FilterStep(seg, start, steps, vx, acc, tau, i, v)
          = FilteredSpeed(v, vx[i], steps[i - 1], acc, tau)
    BY <1>3, <2>2, Zenon DEF FilterStep
  <2> QED BY <1>1, <1>3, <2>1, <2>3, FilteredFracs, ZenonT(60)
<1> QED BY <1>2, <1>3

\* mpc_utils.cpp, dynamicSmoothingVelocity: the speeds are those of the steps.
LEMMA FilterIs ==
  ASSUME NEW seg \in Nat \ {0}, NEW start \in Int, NEW steps \in Seq(Nat), NEW vx \in Seq(Int),
         Len(vx) <= Len(steps) + 1, NEW acc \in Nat, NEW tau \in Nat
  PROVE  FilterRuns(DynamicSmoothingVelocity(seg, start, steps, vx, acc, tau),
                    seg, start, steps, vx, acc, tau)
<1>1. PICK n \in Nat : n = Len(vx)
  OBVIOUS
<1> DEFINE to(i, v) == FilterStep(seg, start, steps, vx, acc, tau, i, v)
           move == [i \in 1 .. n |-> [v \in Fractions |-> to(i, v)]]
<1>2. ASSUME NEW i \in 1 .. n, NEW v \in Fractions PROVE to(i, v) \in Fractions
  BY <1>1, StepFracs, Zenon
<1>3. <<0, 1>> \in Fractions
  BY DEF Fractions
<1>4. move \in [1 .. n -> [Fractions -> Fractions]]
  <2> HIDE DEF to
  <2> QED BY <1>2
<1>5. PICK f \in [0 .. n -> Fractions] : Iterates(f, n, <<0, 1>>, move)
  <2> HIDE DEF move
  <2> QED BY <1>3, <1>4, Recursion, Zenon
<1> DEFINE g == [i \in 1 .. n |-> f[i]]
<1>6. ASSUME NEW i \in 1 .. n PROVE f[i] = to(i, g[i - 1])
  <2>1. f[i] = move[i][f[i - 1]] /\ f[i - 1] \in Fractions
    <3>1. i \in 0 .. n /\ i # 0 /\ i - 1 \in 0 .. n
      OBVIOUS
    <3> HIDE DEF move
    <3> QED BY <1>5, <3>1, Zenon DEF Iterates
  <2>2. f[i] = to(i, f[i - 1])
    <3> HIDE DEF to
    <3> QED BY <2>1
  <2>3. CASE i = 1
    <3>1. i <= seg + 1
      BY <2>3
    <3> QED BY <2>2, <3>1, Zenon DEF FilterStep
  <2>4. CASE i # 1
    <3>1. i - 1 \in 1 .. n
      BY <2>4
    <3>2. g[i - 1] = f[i - 1]
      BY <3>1, Zenon
    <3> QED BY <2>2, <3>2, Zenon
  <2> QED BY <2>3, <2>4
<1>7. g = [i \in 1 .. n |-> to(i, g[i - 1])]
  <2>1. \A i \in 1 .. n : f[i] = to(i, g[i - 1])
    BY <1>6, Zenon
  <2> HIDE DEF to
  <2> QED BY <2>1, Zenon
<1>8. \E h : h = [i \in 1 .. Len(vx) |-> IF i < seg THEN Int2Frac(vx[i])
                                   ELSE IF i <= seg + 1 THEN Int2Frac(start)
                                   ELSE FilteredSpeed(h[i - 1], vx[i], steps[i - 1], acc, tau)]
  <2>1. FilterRuns(g, seg, start, steps, vx, acc, tau)
    BY <1>1, <1>7, Zenon DEF FilterRuns
  <2>2. \E h : FilterRuns(h, seg, start, steps, vx, acc, tau)
    BY <2>1, Zenon
  <2> QED BY <2>2, Zenon DEF FilterRuns, FilterStep
<1> HIDE DEF g
<1> QED BY <1>8, Zenon DEF DynamicSmoothingVelocity, FilterRuns, FilterStep

\* The speeds of the filter are fractions, each a step from the one before.
FilterSteps(out, seg, start, steps, vx, acc, tau) ==
  /\ DOMAIN out = 1 .. Len(vx)
  /\ \A i \in 1 .. Len(vx) :
       out[i] \in Fractions /\ out[i] = FilterStep(seg, start, steps, vx, acc, tau, i, out[i - 1])

\* So are the speeds of the whole filter.
LEMMA FilterFracs ==
  ASSUME NEW seg \in Nat \ {0}, NEW start \in Int, NEW steps \in Seq(Nat), NEW vx \in Seq(Int),
         Len(vx) <= Len(steps) + 1, NEW acc \in Nat, NEW tau \in Nat,
         NEW out, FilterRuns(out, seg, start, steps, vx, acc, tau)
  PROVE  FilterSteps(out, seg, start, steps, vx, acc, tau)
<1>1. PICK n \in Nat : n = Len(vx)
  OBVIOUS
<1> DEFINE to(i, v) == FilterStep(seg, start, steps, vx, acc, tau, i, v)
<1>2. out = [i \in 1 .. n |-> to(i, out[i - 1])]
  BY <1>1, Zenon DEF FilterRuns
<1>3. DOMAIN out = 1 .. n /\ \A i \in 1 .. n : out[i] = to(i, out[i - 1])
  <2> HIDE DEF to
  <2> QED BY <1>2, Zenon
<1> DEFINE S == {i \in 0 .. n : i = 0 \/ out[i] \in Fractions}
<1>4. ASSUME NEW k \in 0 .. n - 1, k \in S PROVE k + 1 \in S
  <2>1. k + 1 \in 1 .. n /\ (k + 1) - 1 = k /\ (k = 0 => k + 1 <= seg + 1)
    OBVIOUS
  <2>2. out[k + 1] = to(k + 1, out[k])
    <3> HIDE DEF to
    <3> QED BY <1>3, <2>1, Zenon
  <2>3. out[k] \in Fractions \/ k + 1 <= seg + 1
    BY <1>4, <2>1
  <2>4. out[k + 1] \in Fractions
    <3>1. PICK i, v : i = k + 1 /\ v = out[k]
      OBVIOUS
    <3>2. i \in 1 .. Len(vx) /\ (v \in Fractions \/ i <= seg + 1)
      BY <1>1, <2>1, <2>3, <3>1, Zenon
    <3>3. FilterStep(seg, start, steps, vx, acc, tau, i, v) \in Fractions
      BY <3>2, StepFracs, Zenon
    <3> QED BY <2>2, <3>1, <3>3, Zenon
  <2>5. k + 1 \in 0 .. n
    OBVIOUS
  <2> QED BY <2>4, <2>5, Zenon
<1>5. 0 \in S
  OBVIOUS
<1> HIDE DEF S
<1>6. \A i \in 0 .. n : i \in S
  BY <1>4, <1>5, InductionTo
<1>7. \A i \in 1 .. n : out[i] \in Fractions
  BY <1>6 DEF S
<1> QED BY <1>1, <1>3, <1>7, Zenon DEF FilterSteps

\* What FilterFollowsReference says.
FilterMeans(seg, start, steps, vx, acc, out) ==
  \A i \in DOMAIN out :
    IF i < seg THEN out[i] = Int2Frac(vx[i])
    ELSE i > seg + 1 => Follows1(out[i], out[i - 1], vx[i], acc * steps[i - 1])

\* mpc_utils.cpp, dynamicSmoothingVelocity: the speeds follow the reference.
LEMMA FilterFollows ==
  ASSUME NEW seg \in Nat \ {0}, NEW start \in Int, NEW steps \in Seq(Nat), NEW vx \in Seq(Int),
         Len(vx) <= Len(steps) + 1, NEW acc \in Nat, NEW tau \in Nat
  PROVE  FilterMeans(seg, start, steps, vx, acc, DynamicSmoothingVelocity(seg, start, steps, vx, acc, tau))
<1>1. PICK out : /\ out = DynamicSmoothingVelocity(seg, start, steps, vx, acc, tau)
                 /\ FilterRuns(out, seg, start, steps, vx, acc, tau)
  BY FilterIs, Zenon
<1>2. /\ DOMAIN out = 1 .. Len(vx)
      /\ \A i \in 1 .. Len(vx) :
           out[i] \in Fractions /\ out[i] = FilterStep(seg, start, steps, vx, acc, tau, i, out[i - 1])
  <2>1. FilterSteps(out, seg, start, steps, vx, acc, tau)
    BY <1>1, FilterFracs, Zenon
  <2> QED BY <2>1, Zenon DEF FilterSteps
<1>3. ASSUME NEW i \in 1 .. Len(vx), i < seg PROVE out[i] = Int2Frac(vx[i])
  BY <1>2, <1>3, Zenon DEF FilterStep
<1>4. ASSUME NEW i \in 1 .. Len(vx), ~(i < seg), i > seg + 1
      PROVE  Follows1(out[i], out[i - 1], vx[i], acc * steps[i - 1])
  <2>1. i - 1 \in 1 .. Len(vx) /\ steps[i - 1] \in Nat /\ vx[i] \in Int /\ ~(i <= seg + 1)
    BY <1>4
  <2>2. PICK v, w, d : v = out[i - 1] /\ Val(v, w, d)
    BY <1>2, <2>1, FracsVal, Zenon
  <2>3. out[i] = FilteredSpeed(v, vx[i], steps[i - 1], acc, tau)
    BY <1>2, <1>4, <2>1, <2>2, Zenon DEF FilterStep
  <2>4. SpeedMoves(out[i], v, w, d, vx[i], acc * steps[i - 1])
    BY <2>1, <2>2, <2>3, FilteredMoves, ZenonT(60)
  <2>5. acc * steps[i - 1] \in Nat
    BY <2>1
  <2> QED BY <2>1, <2>2, <2>4, <2>5, MovesFollows, Zenon
<1>5. FilterMeans(seg, start, steps, vx, acc, out)
  BY <1>2, <1>3, <1>4, Zenon DEF FilterMeans
<1> QED BY <1>1, <1>5, Zenon

-----------------------------------------------------------------------------
(* The limits of the steering rate, and the solver's constraint rows.      *)

\* A table of limits over increasing places.
Table(map) ==
  /\ map \in Seq([at : Int, limit : Nat]) /\ Len(map) >= 1
  /\ \A i \in 1 .. Len(map) - 1 : map[i].at < map[i + 1].at

\* The entries of a table are numbers.
LEMMA TableEntries ==
  ASSUME NEW map, Table(map)
  PROVE  \E n \in Nat : /\ n = Len(map) /\ n >= 1
                       /\ \A k \in 1 .. n : map[k].at \in Int /\ map[k].limit \in Nat
<1>1. map \in Seq([at : Int, limit : Nat]) /\ Len(map) >= 1
  BY Zenon DEF Table
<1>2. PICK n \in Nat : n = Len(map) /\ n >= 1
  BY <1>1
<1>3. ASSUME NEW k \in 1 .. n PROVE map[k].at \in Int /\ map[k].limit \in Nat
  <2>1. PICK R : R = [at : Int, limit : Nat]
    OBVIOUS
  <2>2. map \in Seq(R)
    BY <1>1, <2>1, Zenon
  <2>3. map[k] \in R
    BY <1>2, <2>2
  <2>4. map[k] \in [at : Int, limit : Nat]
    BY <2>1, <2>3, Zenon
  <2> QED BY <2>4
<1> QED BY <1>2, <1>3, Zenon

\* The places increase.
LEMMA TableIncreases ==
  ASSUME NEW map, Table(map), NEW i \in 1 .. Len(map), NEW j \in 1 .. Len(map), i < j
  PROVE  map[i].at < map[j].at
<1>1. PICK n \in Nat : /\ n = Len(map) /\ n >= 1
                     /\ \A k \in 1 .. n : map[k].at \in Int /\ map[k].limit \in Nat
  BY TableEntries, Zenon
<1> DEFINE S == {k \in 0 .. n : k > i => map[i].at < map[k].at}
<1>2. ASSUME NEW k \in 0 .. n - 1, k \in S PROVE k + 1 \in S
  <2>1. SUFFICES ASSUME k + 1 > i PROVE map[i].at < map[k + 1].at
    BY <1>2
  <2>2. k \in 1 .. Len(map) - 1 /\ k + 1 \in 1 .. n /\ k \in 1 .. n /\ i \in 1 .. n
    BY <1>1, <2>1
  <2>3. map[k].at < map[k + 1].at
    BY <2>2, Zenon DEF Table
  <2>4. PICK a \in Int, b \in Int, c \in Int : a = map[i].at /\ b = map[k].at /\ c = map[k + 1].at
    BY <1>1, <2>2, Zenon
  <2>5. i = k \/ a < b
    BY <1>2, <2>1, <2>4
  <2>6. a < c
    BY <2>3, <2>4, <2>5
  <2> QED BY <2>4, <2>6, Zenon
<1>3. 0 \in S
  BY <1>1
<1> HIDE DEF S
<1>4. \A k \in 0 .. n : k \in S
  BY <1>2, <1>3, InductionTo
<1>5. j \in S
  BY <1>1, <1>4
<1> QED BY <1>5 DEF S

\* Division with a positive divisor.
LEMMA DivBelow ==
  ASSUME NEW p \in Int, NEW q \in Nat \ {0}, NEW c \in Int, p <= c * q
  PROVE  p \div q \in Int /\ p \div q <= c
<1>1. PICK e \in Int, r \in 0 .. q - 1 : e = p \div q /\ p = e * q + r
  <2>1. p \div q \in Int /\ p % q \in 0 .. q - 1 /\ p = (p \div q) * q + (p % q)
    OBVIOUS
  <2> QED BY <2>1, Zenon
<1>2. q * e <= q * c
  <2>1. e * q \in Int /\ c * q \in Int /\ q * e = e * q /\ q * c = c * q
    OBVIOUS
  <2> QED BY <1>1, <2>1
<1>3. e <= c
  BY <1>2, Cancel
<1> QED BY <1>1, <1>3

\* Where x lies between two places, the table has a first such segment.
LEMMA FirstSegment ==
  ASSUME NEW map, Table(map), NEW x \in Int, map[1].at < x, x < map[Len(map)].at
  PROVE  \E i \in 1 .. Len(map) - 1 :
           /\ map[i].at <= x /\ x <= map[i + 1].at
           /\ \A j \in 1 .. i - 1 : ~(map[j].at <= x /\ x <= map[j + 1].at)
<1>1. PICK n \in Nat : /\ n = Len(map) /\ n >= 1
                     /\ \A k \in 1 .. n : map[k].at \in Int /\ map[k].limit \in Nat
  BY TableEntries, Zenon
<1> DEFINE on(i) == map[i].at <= x /\ x <= map[i + 1].at
           T == {i \in Nat : i \in 1 .. n - 1 /\ on(i)}
<1>2. T # {}
  <2>1. SUFFICES ASSUME T = {} PROVE FALSE
    OBVIOUS
  <2> DEFINE S == {k \in 0 .. n : k >= 1 => map[k].at < x}
  <2>2. ASSUME NEW k \in 0 .. n - 1, k \in S PROVE k + 1 \in S
    <3>1. CASE k = 0
      BY <1>1, <3>1
    <3>2. CASE k # 0
      <4>1. k \in 1 .. n - 1 /\ k \in 1 .. n /\ k + 1 \in 1 .. n
        BY <3>2
      <4>2. map[k].at < x /\ map[k].at \in Int /\ map[k + 1].at \in Int
        BY <1>1, <2>2, <4>1
      <4>3. ~on(k)
        BY <2>1, <4>1
      <4> QED BY <4>1, <4>2, <4>3
    <3> QED BY <3>1, <3>2
  <2>3. 0 \in S
    OBVIOUS
  <2>4. n \in S
    <3> HIDE DEF S
    <3>1. \A k \in 0 .. n : k \in S
      BY <2>2, <2>3, InductionTo
    <3> QED BY <3>1
  <2> QED BY <1>1, <2>4
<1>3. PICK i \in T : \A y \in T : i <= y
  <2>1. T \subseteq Nat
    OBVIOUS
  <2> HIDE DEF T
  <2> QED BY <1>2, <2>1, LeastNat
<1>4. i \in 1 .. Len(map) - 1 /\ on(i)
  BY <1>1, <1>3
<1>5. ASSUME NEW j \in 1 .. i - 1 PROVE ~on(j)
  <2>1. j \in Nat /\ j \in 1 .. n - 1 /\ ~(i <= j)
    BY <1>1, <1>4
  <2> QED BY <1>3, <2>1
<1> QED BY <1>4, <1>5, Zenon

\* An entry that no place separates from x.
Around(map, n, e, x) ==
  /\ e \in 1 .. n
  /\ \A j \in 1 .. n : /\ map[j].at <= x => ~(map[e].at < map[j].at)
                       /\ x <= map[j].at => ~(map[j].at < map[e].at)

\* No entry separates x from an entry at its own place.
LEMMA AroundExactly ==
  ASSUME NEW map, Table(map), NEW n \in Nat, n = Len(map), NEW e \in 1 .. n, NEW x \in Int,
         map[e].at = x
  PROVE  Around(map, n, e, x)
<1>1. ASSUME NEW j \in 1 .. n PROVE map[j].at \in Int
  BY TableEntries
<1> QED BY <1>1 DEF Around

\* No entry separates x from the ends of the segment it lies within.
LEMMA AroundWithin ==
  ASSUME NEW map, Table(map), NEW n \in Nat, n = Len(map), NEW i \in 1 .. n - 1, NEW x \in Int,
         map[i].at < x, x < map[i + 1].at
  PROVE  Around(map, n, i, x) /\ Around(map, n, i + 1, x)
<1>1. ASSUME NEW j \in 1 .. n PROVE map[j].at \in Int
  BY TableEntries
<1>2. i \in 1 .. n /\ i + 1 \in 1 .. n /\ map[i].at \in Int /\ map[i + 1].at \in Int
  BY <1>1
<1>3. ASSUME NEW j \in 1 .. n
      PROVE  \/ map[j].at <= map[i].at
             \/ map[j].at >= map[i + 1].at
  <2>1. CASE j < i
    <3>1. map[j].at < map[i].at
      BY <1>2, <2>1, TableIncreases
    <3> QED BY <1>1, <1>2, <3>1
  <2>2. CASE j = i \/ j = i + 1
    BY <1>2, <2>2
  <2>3. CASE j > i + 1
    <3>1. map[i + 1].at < map[j].at
      BY <1>2, <2>3, TableIncreases
    <3> QED BY <1>1, <1>2, <3>1
  <2> QED BY <2>1, <2>2, <2>3
<1>4. ASSUME NEW j \in 1 .. n
      PROVE  /\ map[j].at <= x => ~(map[i].at < map[j].at) /\ ~(map[i + 1].at < map[j].at)
             /\ x <= map[j].at => ~(map[j].at < map[i].at) /\ ~(map[j].at < map[i + 1].at)
  <2>1. PICK a \in Int, b \in Int, c \in Int :
          a = map[i].at /\ b = map[j].at /\ c = map[i + 1].at /\ a < x /\ x < c /\ (b <= a \/ b >= c)
    BY <1>1, <1>2, <1>3, Zenon
  <2>2. (b <= x => ~(a < b) /\ ~(c < b)) /\ (x <= b => ~(b < a) /\ ~(b < c))
    BY <2>1
  <2> QED BY <2>1, <2>2, Zenon
<1> QED BY <1>2, <1>4, Zenon DEF Around

\* Before the first place and behind the last.
LEMMA AroundOutside ==
  ASSUME NEW map, Table(map), NEW n \in Nat, n = Len(map), NEW x \in Int
  PROVE  /\ x <= map[1].at => Around(map, n, 1, x)
         /\ x >= map[n].at => Around(map, n, n, x)
<1>1. n >= 1 /\ 1 \in 1 .. n /\ n \in 1 .. n
  BY TableEntries
<1>2. ASSUME NEW j \in 1 .. n PROVE map[j].at \in Int
  BY TableEntries
<1>3. ASSUME NEW j \in 1 .. n PROVE map[1].at <= map[j].at /\ map[j].at <= map[n].at
  <2>1. j = 1 \/ map[1].at < map[j].at
    BY <1>1, TableIncreases
  <2>2. j = n \/ map[j].at < map[n].at
    BY <1>1, TableIncreases
  <2> QED BY <1>1, <1>2, <2>1, <2>2
<1>4. ASSUME NEW j \in 1 .. n, x <= map[1].at
      PROVE  /\ map[j].at <= x => ~(map[1].at < map[j].at)
             /\ x <= map[j].at => ~(map[j].at < map[1].at)
  BY <1>1, <1>2, <1>3, <1>4
<1>5. ASSUME NEW j \in 1 .. n, x >= map[n].at
      PROVE  /\ map[j].at <= x => ~(map[n].at < map[j].at)
             /\ x <= map[j].at => ~(map[j].at < map[n].at)
  BY <1>1, <1>2, <1>3, <1>5
<1> QED BY <1>1, <1>4, <1>5, Zenon DEF Around

\* mpc.cpp, calcSteerRateLimitOnTrajectory: what lies between two limits is no
\* more than one of them.
LimitBetween(m, l, h, a, b, x) ==
  /\ m = l + ((h - l) * (x - a)) \div (b - a)
  /\ (x = a => m <= l) /\ (x = b => m <= h) /\ (m <= l \/ m <= h)

\* The value on a segment is such.
LEMMA BetweenLimits ==
  ASSUME NEW l \in Nat, NEW h \in Nat, NEW a \in Int, NEW b \in Int, NEW x \in Int,
         a <= x, x <= b, a < b
  PROVE  \E m \in Int : LimitBetween(m, l, h, a, b, x)
<1>1. PICK u \in Nat, q \in Nat \ {0} :
        u = x - a /\ q = b - a /\ u <= q /\ (x = b <=> u = q) /\ (x = a <=> u = 0)
  <2>1. x - a \in Nat /\ b - a \in Nat \ {0}
    OBVIOUS
  <2> QED BY <2>1
<1>2. PICK k \in Int : k = h - l
  OBVIOUS
<1>3. PICK p \in Int : p = k * u
  OBVIOUS
<1>4. ASSUME k <= 0 \/ u = 0 PROVE p \div q \in Int /\ p \div q <= 0
  <2>1. p <= 0
    <3>1. CASE u = 0
      BY <1>3, <3>1
    <3>2. CASE k <= 0
      <4>1. PICK e \in Nat : k = -e
        <5>1. -k \in Nat /\ k = -(-k)
          BY <3>2
        <5> QED BY <5>1, Zenon
      <4>2. (-e) * u = -(e * u) /\ e * u \in Nat
        OBVIOUS
      <4> QED BY <1>3, <4>1, <4>2
    <3> QED BY <1>4, <3>1, <3>2
  <2>2. 0 * q = 0
    OBVIOUS
  <2>3. 0 \in Int /\ p <= 0 * q
    BY <2>1, <2>2
  <2> QED BY <2>3, DivBelow, Zenon
<1>5. ASSUME k >= 0 \/ u = q PROVE p \div q \in Int /\ p \div q <= k
  <2>1. p <= k * q
    <3>1. CASE u = q
      BY <1>3, <3>1
    <3>2. CASE k >= 0
      <4>1. k \in Nat /\ u \in Int /\ q \in Int
        BY <3>2
      <4> QED BY <1>1, <1>3, <4>1, TimesMonotone, Zenon
    <3> QED BY <1>5, <3>1, <3>2
  <2> QED BY <2>1, DivBelow, Zenon
<1>6. PICK m \in Int : m = l + p \div q /\ ((k <= 0 \/ u = 0) => m <= l) /\ ((k >= 0 \/ u = q) => m <= h)
  <2>1. p \div q \in Int
    BY <1>4, <1>5
  <2>2. PICK d \in Int : d = p \div q
    BY <2>1
  <2>3. ((k <= 0 \/ u = 0) => d <= 0) /\ ((k >= 0 \/ u = q) => d <= k)
    BY <1>4, <1>5, <2>2
  <2> QED BY <1>2, <2>2, <2>3
<1>7. m = l + ((h - l) * (x - a)) \div (b - a)
  BY <1>1, <1>2, <1>3, <1>6, Zenon
<1>8. k <= 0 \/ k >= 0
  OBVIOUS
<1>9. /\ m \in Int
      /\ (x = a => m <= l) /\ (x = b => m <= h) /\ (m <= l \/ m <= h)
  BY <1>1, <1>6, <1>8, Zenon
<1> QED BY <1>7, <1>9, Zenon DEF LimitBetween

\* x is a limit that some entry next to the place `at' allows.
Bounded(map, n, at, x) == \E e \in 1 .. n : Around(map, n, e, at) /\ x <= map[e].limit

\* The limit the table gives is one its entries next to x allow.
LEMMA LimitNear ==
  ASSUME NEW map, Table(map), NEW n \in Nat, n = Len(map), NEW x \in Int
  PROVE  RateLimitAt(map, x) \in Int /\ Bounded(map, n, x, RateLimitAt(map, x))
<1>1. /\ n >= 1 /\ 1 \in 1 .. n /\ n \in 1 .. n
      /\ \A k \in 1 .. n : map[k].at \in Int /\ map[k].limit \in Nat
  BY TableEntries
<1>2. ASSUME NEW e \in 1 .. n, NEW m \in Int, m <= map[e].limit, Around(map, n, e, x),
             RateLimitAt(map, x) = m
      PROVE  RateLimitAt(map, x) \in Int /\ Bounded(map, n, x, RateLimitAt(map, x))
  BY <1>2, Zenon DEF Bounded
<1>3. ASSUME NEW e \in 1 .. n PROVE map[e].limit \in Int /\ map[e].limit <= map[e].limit
  BY <1>1
<1>4. CASE x <= map[1].at
  <2>1. RateLimitAt(map, x) = map[1].limit
    BY <1>4, Zenon DEF RateLimitAt
  <2>2. Around(map, n, 1, x)
    BY <1>4, AroundOutside, Zenon
  <2> QED BY <1>1, <1>2, <1>3, <2>1, <2>2, Zenon
<1>5. CASE ~(x <= map[1].at) /\ x >= map[n].at
  <2>1. RateLimitAt(map, x) = map[n].limit
    BY <1>5, Zenon DEF RateLimitAt
  <2>2. Around(map, n, n, x)
    BY <1>5, AroundOutside, Zenon
  <2> QED BY <1>1, <1>2, <1>3, <2>1, <2>2, Zenon
<1>6. CASE ~(x <= map[1].at) /\ ~(x >= map[n].at)
  <2> DEFINE first(i) == /\ map[i].at <= x /\ x <= map[i + 1].at
                         /\ \A j \in 1 .. i - 1 : ~(map[j].at <= x /\ x <= map[j + 1].at)
  <2>1. \E i \in 1 .. n - 1 : first(i)
    <3>1. map[1].at < x /\ x < map[Len(map)].at
      BY <1>1, <1>6
    <3> QED BY <3>1, FirstSegment, Zenon
  <2>2. PICK i \in 1 .. n - 1 : i = (CHOOSE k \in 1 .. n - 1 : first(k)) /\ first(i)
    <3> HIDE DEF first
    <3> QED BY <2>1, Zenon
  <2>3. PICK l \in Nat, h \in Nat, a \in Int, b \in Int :
          l = map[i].limit /\ h = map[i + 1].limit /\ a = map[i].at /\ b = map[i + 1].at /\ a < b
    <3>1. i \in 1 .. n /\ i + 1 \in 1 .. n
      OBVIOUS
    <3>2. map[i].at < map[i + 1].at
      BY Zenon DEF Table
    <3> QED BY <1>1, <3>1, <3>2, Zenon
  <2>4. PICK m \in Int :
          /\ m = l + ((h - l) * (x - a)) \div (b - a)
          /\ (x = a => m <= l) /\ (x = b => m <= h) /\ (m <= l \/ m <= h)
    <3>1. a <= x /\ x <= b
      BY <2>2, <2>3, Zenon
    <3>2. \E m \in Int : LimitBetween(m, l, h, a, b, x)
      BY <2>3, <3>1, BetweenLimits, Zenon
    <3> QED BY <3>2, Zenon DEF LimitBetween
  <2>5. RateLimitAt(map, x) = m
    BY <1>6, <2>2, <2>3, <2>4, Zenon DEF RateLimitAt
  <2>6. i \in 1 .. n /\ i + 1 \in 1 .. n
    OBVIOUS
  <2>7. CASE x = a
    <3>1. Around(map, n, i, x)
      BY <2>3, <2>6, <2>7, AroundExactly, Zenon
    <3> QED BY <1>2, <2>3, <2>4, <2>5, <2>6, <2>7, <3>1, Zenon
  <2>8. CASE x = b
    <3>1. Around(map, n, i + 1, x)
      BY <2>3, <2>6, <2>8, AroundExactly, Zenon
    <3> QED BY <1>2, <2>3, <2>4, <2>5, <2>6, <2>8, <3>1, Zenon
  <2>9. CASE x # a /\ x # b
    <3>1. a < x /\ x < b
      <4>1. a <= x /\ x <= b
        BY <2>2, <2>3, Zenon
      <4> QED BY <2>9, <4>1
    <3>2. Around(map, n, i, x) /\ Around(map, n, i + 1, x)
      BY <2>3, <3>1, AroundWithin, Zenon
    <3> QED BY <1>2, <2>3, <2>4, <2>5, <2>6, <3>2, Zenon
  <2> QED BY <2>7, <2>8, <2>9
<1> QED BY <1>4, <1>5, <1>6

\* The entries next to x, as ConstraintsAreRates has them.
LEMMA AroundIs ==
  ASSUME NEW map, Table(map), NEW n \in Nat, n = Len(map), NEW e, NEW x, Around(map, n, e, x)
  PROVE  e \in EntriesAround(map, x)
<1>1. DOMAIN map = 1 .. n
  <2>1. PICK R : R = [at : Int, limit : Nat] /\ map \in Seq(R)
    BY Zenon DEF Table
  <2> QED BY <2>1
<1> QED BY <1>1, Zenon DEF Around, EntriesAround

\* Running sums of t.
RowSums(s, t, n) == s = [k \in 0 .. n |-> IF k = 0 THEN 0 ELSE s[k - 1] + t[k]]

\* f adds t up.
Adds(f, t, n) ==
  /\ f \in [0 .. n -> Int] /\ f[0] = 0
  /\ \A k \in 1 .. n : f[k] = f[k - 1] + t[k]

\* A running sum is what one knows of it.
LEMMA RowSumsAre ==
  ASSUME NEW n \in Nat, NEW t, NEW s, RowSums(s, t, n), NEW f, Adds(f, t, n)
  PROVE  s[n] = f[n]
<1> DEFINE S == {k \in 0 .. n : s[k] = f[k]}
<1>1. s[0] = 0 /\ \A k \in 1 .. n : s[k] = s[k - 1] + t[k]
  <2>1. \A k \in 0 .. n : s[k] = IF k = 0 THEN 0 ELSE s[k - 1] + t[k]
    BY Zenon DEF RowSums
  <2>2. 0 \in 0 .. n /\ \A k \in 1 .. n : k \in 0 .. n /\ k # 0
    OBVIOUS
  <2> QED BY <2>1, <2>2, Zenon
<1>2. 0 \in S
  BY <1>1 DEF Adds
<1>3. ASSUME NEW k \in 0 .. n - 1, k \in S PROVE k + 1 \in S
  <2>1. k + 1 \in 1 .. n /\ (k + 1) - 1 = k /\ k + 1 \in 0 .. n
    OBVIOUS
  <2>2. s[k + 1] = s[k] + t[k + 1] /\ f[k + 1] = f[k] + t[k + 1]
    BY <1>1, <2>1, Zenon DEF Adds
  <2> QED BY <1>3, <2>1, <2>2
<1> HIDE DEF S
<1>4. \A k \in 0 .. n : k \in S
  BY <1>2, <1>3, InductionTo
<1>5. n \in S
  BY <1>4
<1> QED BY <1>5 DEF S

\* There is one.
LEMMA RowSumsExist ==
  ASSUME NEW n \in Nat, NEW t, NEW f, Adds(f, t, n)
  PROVE  RowSums(f, t, n)
<1>1. \A k \in 0 .. n : f[k] = IF k = 0 THEN 0 ELSE f[k - 1] + t[k]
  <2>1. \A k \in 0 .. n : k = 0 \/ k \in 1 .. n
    OBVIOUS
  <2> QED BY <2>1, Zenon DEF Adds
<1>2. f = [k \in 0 .. n |-> f[k]]
  BY Zenon DEF Adds
<1> QED BY <1>1, <1>2, Zenon DEF RowSums

\* The row i of the constraints, times u.
RowSum(a, u, i) == SumTo(Len(u), LAMBDA j : a[i][j] * u[j][1])

\* A row with a one at i and a minus one before it is a difference.
LEMMA RowIs ==
  ASSUME NEW n \in Nat, NEW u \in [1 .. n -> [1 .. 1 -> Int]], Len(u) = n, NEW i \in 1 .. n, NEW a,
         \A j \in 1 .. n : a[i][j] = IF i = j THEN 1 ELSE IF j = i - 1 THEN -1 ELSE 0
  PROVE  RowSum(a, u, i) = IF i = 1 THEN u[i][1] ELSE u[i][1] - u[i - 1][1]
<1>1. ASSUME NEW k \in 1 .. n PROVE u[k][1] \in Int
  BY <1>1
<1>2. PICK p \in Int, q \in Int : /\ q = u[i][1] /\ p = IF i = 1 THEN 0 ELSE u[i - 1][1]
  <2>1. i = 1 \/ i - 1 \in 1 .. n
    OBVIOUS
  <2>2. 0 \in Int
    OBVIOUS
  <2> QED BY <1>1, <2>1, <2>2, Zenon
<1> DEFINE t == [k \in 1 .. n |-> a[i][k] * u[k][1]]
           f == [k \in 0 .. n |-> IF k < i - 1 THEN 0 ELSE IF k = i - 1 THEN -p ELSE q - p]
<1>3. f \in [0 .. n -> Int]
  OBVIOUS
<1>4. f[0] = 0
  <2>1. f[0] = IF 0 < i - 1 THEN 0 ELSE IF 0 = i - 1 THEN -p ELSE q - p
    OBVIOUS
  <2>2. i = 1 => p = 0
    BY <1>2, Zenon
  <2> QED BY <2>1, <2>2
<1>5. ASSUME NEW k \in 1 .. n PROVE f[k] = f[k - 1] + t[k]
  <2>1. PICK x \in Int : x = u[k][1]
    BY <1>1
  <2>2. /\ f[k] = IF k < i - 1 THEN 0 ELSE IF k = i - 1 THEN -p ELSE q - p
        /\ f[k - 1] = IF k - 1 < i - 1 THEN 0 ELSE IF k - 1 = i - 1 THEN -p ELSE q - p
    OBVIOUS
  <2>3. t[k] = (IF i = k THEN 1 ELSE IF k = i - 1 THEN -1 ELSE 0) * x
    BY <2>1
  <2> HIDE DEF f, t
  <2>4. CASE k < i - 1
    BY <2>2, <2>3, <2>4
  <2>5. CASE k = i - 1
    <3>1. x = p
      <4>1. i # 1
        BY <2>5
      <4> QED BY <1>2, <2>1, <2>5, <4>1, Zenon
    <3>2. f[k] = -p /\ f[k - 1] = 0
      BY <2>2, <2>5
    <3>3. t[k] = (-1) * x
      BY <2>3, <2>5
    <3> QED BY <3>1, <3>2, <3>3
  <2>6. CASE k = i
    <3>1. x = q
      BY <1>2, <2>1, <2>6, Zenon
    <3>2. f[k] = q - p /\ f[k - 1] = -p
      BY <2>2, <2>6
    <3>3. t[k] = 1 * x
      BY <2>3, <2>6
    <3> QED BY <3>1, <3>2, <3>3
  <2>7. CASE k > i
    BY <2>2, <2>3, <2>7
  <2> QED BY <2>4, <2>5, <2>6, <2>7
<1>6. f[n] = q - p
  OBVIOUS
<1> HIDE DEF f
<1>7. Adds(f, t, n)
  <2> HIDE DEF t
  <2> QED BY <1>3, <1>4, <1>5, Zenon DEF Adds
<1>8. \E s : RowSums(s, t, n)
  <2> HIDE DEF t
  <2> QED BY <1>7, RowSumsExist, Zenon
<1>9. PICK s : s = (CHOOSE z : RowSums(z, t, n)) /\ RowSums(s, t, n)
  <2> HIDE DEF t
  <2> QED BY <1>8, Zenon
<1>10. s[n] = q - p
  <2> HIDE DEF t
  <2>1. s[n] = f[n]
    BY <1>9, <1>7, RowSumsAre, ZenonT(60)
  <2> QED BY <1>6, <2>1, Zenon
<1>11. RowSum(a, u, i) = s[n]
  <2>1. ~(n < 1)
    OBVIOUS
  <2>2. RowSum(a, u, i)
          = (CHOOSE z : z = [k \in 0 .. n |-> IF k = 0 THEN 0 ELSE z[k - 1] + a[i][k] * u[k][1]])[n]
    BY <2>1, Zenon DEF RowSum, SumTo
  <2>3. \A z : RowSums(z, t, n) <=> z = [k \in 0 .. n |-> IF k = 0 THEN 0 ELSE z[k - 1] + a[i][k] * u[k][1]]
    <3>1. \A k \in 0 .. n : k # 0 => t[k] = a[i][k] * u[k][1]
      OBVIOUS
    <3> HIDE DEF t
    <3>2. ASSUME NEW z PROVE [k \in 0 .. n |-> IF k = 0 THEN 0 ELSE z[k - 1] + t[k]]
                             = [k \in 0 .. n |-> IF k = 0 THEN 0 ELSE z[k - 1] + a[i][k] * u[k][1]]
      BY <3>1
    <3> QED BY <3>2, Zenon DEF RowSums
  <2> HIDE DEF t
  <2>4. (CHOOSE z : RowSums(z, t, n))
          = (CHOOSE z : z = [k \in 0 .. n |-> IF k = 0 THEN 0 ELSE z[k - 1] + a[i][k] * u[k][1]])
    BY <2>3, Zenon
  <2> QED BY <1>9, <2>2, <2>4, Zenon
<1>12. q - p = IF i = 1 THEN u[i][1] ELSE u[i][1] - u[i - 1][1]
  <2>1. CASE i = 1
    BY <1>2, <2>1
  <2>2. CASE i # 1
    <3>1. p = u[i - 1][1]
      BY <1>2, <2>2, Zenon
    <3> QED BY <1>2, <2>2, <3>1, Zenon
  <2> QED BY <2>1, <2>2
<1> QED BY <1>10, <1>11, <1>12, Zenon

\* A function over 1 .. n is a sequence of length n.
LEMMA FunctionLen ==
  ASSUME NEW n \in Nat, NEW A, NEW s \in [1 .. n -> A]
  PROVE  Len(s) = n /\ DOMAIN s = 1 .. n
<1>1. s \in Seq(A)
  OBVIOUS
<1> QED BY <1>1

\* A step of no more than x is one of no more than a higher limit.
LEMMA WithinMore ==
  ASSUME NEW x \in Int, NEW l \in Nat, x <= l, NEW k \in Nat, NEW s \in Int, -x * k <= s, s <= x * k
  PROVE  -(l * k) <= s /\ s <= l * k
<1>1. k * x <= k * l
  <2>1. l \in Int
    OBVIOUS
  <2> QED BY <2>1, TimesMonotone, Zenon
<1>2. PICK p \in Int, q \in Int : p = k * x /\ q = k * l /\ p <= q
  BY <1>1
<1>3. -x * k = -p /\ x * k = p /\ l * k = q
  BY <1>2
<1> QED BY <1>2, <1>3

\* Every limit is one that both tables allow next to its point.
LimitsBounded(limits, n, bc, bv, ks, vs) ==
  /\ limits = SteerRateLimits(bc, bv, ks, vs, FALSE) /\ Len(limits) = n
  /\ \A i \in 1 .. n : Bounded(bc, Len(bc), ks[i], limits[i]) /\ Bounded(bv, Len(bv), vs[i], limits[i])

\* mpc.cpp, calcSteerRateLimitOnTrajectory: the limits are such.
LEMMA SteerLimitsAre ==
  ASSUME NEW bc, Table(bc), NEW bv, Table(bv), NEW n \in Nat, NEW ks \in Seq(Int), Len(ks) = n,
         NEW vs \in Seq(Int), Len(vs) = n
  PROVE  \E limits \in [1 .. n -> Int] : LimitsBounded(limits, n, bc, bv, ks, vs)
<1> DEFINE A(i) == RateLimitAt(bc, ks[i])
           B(i) == RateLimitAt(bv, vs[i])
           least(i) == IF A(i) < B(i) THEN A(i) ELSE B(i)
<1>1. DOMAIN ks = 1 .. n /\ \A i \in 1 .. n : ks[i] \in Int /\ vs[i] \in Int
  OBVIOUS
<1>2. ASSUME NEW map, Table(map), NEW x \in Int
      PROVE  RateLimitAt(map, x) \in Int /\ Bounded(map, Len(map), x, RateLimitAt(map, x))
  <2>1. PICK m \in Nat : m = Len(map)
    BY <1>2, TableEntries, Zenon
  <2>2. RateLimitAt(map, x) \in Int /\ Bounded(map, m, x, RateLimitAt(map, x))
    BY <1>2, <2>1, LimitNear, Zenon
  <2> QED BY <2>1, <2>2, Zenon
<1>3. ASSUME NEW i \in 1 .. n
      PROVE  /\ A(i) \in Int /\ B(i) \in Int
             /\ Bounded(bc, Len(bc), ks[i], A(i)) /\ Bounded(bv, Len(bv), vs[i], B(i))
  BY <1>1, <1>2, Zenon
<1>4. ASSUME NEW map, Table(map), NEW at, NEW x \in Int, NEW y \in Int, y <= x, Bounded(map, Len(map), at, x)
      PROVE  Bounded(map, Len(map), at, y)
  <2>1. PICK m \in Nat : m = Len(map) /\ \A k \in 1 .. m : map[k].limit \in Nat
    BY <1>4, TableEntries, Zenon
  <2>2. PICK e \in 1 .. m : Around(map, m, e, at) /\ x <= map[e].limit
    BY <1>4, <2>1, Zenon DEF Bounded
  <2>3. PICK l \in Nat : l = map[e].limit /\ x <= l
    BY <2>1, <2>2, Zenon
  <2>4. y <= l
    BY <1>4, <2>3
  <2> QED BY <2>1, <2>2, <2>3, <2>4, Zenon DEF Bounded
<1> DEFINE limits == [i \in 1 .. n |-> least(i)]
<1>5. ASSUME NEW i \in 1 .. n
      PROVE  /\ least(i) \in Int
             /\ Bounded(bc, Len(bc), ks[i], least(i)) /\ Bounded(bv, Len(bv), vs[i], least(i))
  <2>1. PICK a \in Int, b \in Int, m \in Int :
          a = A(i) /\ b = B(i) /\ m = least(i) /\ m <= a /\ m <= b
    <3>1. PICK a \in Int, b \in Int : a = A(i) /\ b = B(i)
      BY <1>3, Zenon
    <3>2. PICK m \in Int : m = IF a < b THEN a ELSE b
      BY <3>1, Zenon
    <3>3. m <= a /\ m <= b
      BY <3>2
    <3>4. m = least(i)
      BY <3>1, <3>2, Zenon
    <3> QED BY <3>1, <3>3, <3>4, Zenon
  <2> HIDE DEF A, B, least
  <2> QED BY <1>3, <1>4, <2>1, Zenon
<1>6. limits = SteerRateLimits(bc, bv, ks, vs, FALSE)
  BY <1>1, Zenon DEF SteerRateLimits
<1> HIDE DEF least
<1>7. limits \in [1 .. n -> Int]
  BY <1>5
<1>8. \A i \in 1 .. n : limits[i] = least(i)
  OBVIOUS
<1> HIDE DEF limits
<1>9. Len(limits) = n
  BY <1>7, FunctionLen, Zenon
<1> QED BY <1>5, <1>6, <1>7, <1>8, <1>9, Zenon DEF LimitsBounded

\* The step to input i keeps a limit.
StepKept(u, prev, i, limit, dt, cp) ==
  IF i = 1 THEN -(limit * cp) <= u[1][1] - prev /\ u[1][1] - prev <= limit * cp
  ELSE -(limit * dt) <= u[i][1] - u[i - 1][1] /\ u[i][1] - u[i - 1][1] <= limit * dt

\* Row i of the constraints holds.
RowHolds(c, u, i) == c.lb[i] <= RowSum(c.a, u, i) /\ RowSum(c.a, u, i) <= c.ub[i]

\* mpc.cpp, executeOptimization: a row that holds keeps the limit of its point.
LEMMA RowKeeps ==
  ASSUME NEW n \in Nat, NEW limits \in [1 .. n -> Int], Len(limits) = n, NEW prev \in Int,
         NEW dt \in Nat, NEW cp \in Nat, NEW u \in [1 .. n -> [1 .. 1 -> Int]], NEW i \in 1 .. n,
         RowHolds(RateConstraints(limits, prev, dt, cp), u, i),
         NEW limit \in Nat, limits[i] <= limit
  PROVE  StepKept(u, prev, i, limit, dt, cp)
<1>1. PICK c : c = RateConstraints(limits, prev, dt, cp)
  OBVIOUS
<1>2. Len(u) = n
  BY FunctionLen, Zenon
<1>3. PICK l \in Int : l = limits[i] /\ l <= limit
  OBVIOUS
<1>4. /\ \A j \in 1 .. n : c.a[i][j] = IF i = j THEN 1 ELSE IF j = i - 1 THEN -1 ELSE 0
      /\ c.ub[i] = IF i = 1 THEN prev + limits[1] * cp ELSE limits[i] * dt
      /\ c.lb[i] = IF i = 1 THEN prev - limits[1] * cp ELSE -limits[i] * dt
  BY <1>1 DEF RateConstraints
<1>5. RowSum(c.a, u, i) = IF i = 1 THEN u[i][1] ELSE u[i][1] - u[i - 1][1]
  BY <1>2, <1>4, RowIs, Zenon
<1>6. c.lb[i] <= RowSum(c.a, u, i) /\ RowSum(c.a, u, i) <= c.ub[i]
  BY <1>1, Zenon DEF RowHolds
<1>7. ASSUME NEW k \in 1 .. n PROVE u[k][1] \in Int
  OBVIOUS
<1>8. CASE i = 1
  <2>1. PICK s \in Int, p \in Int : s = u[1][1] - prev /\ p = l * cp /\ u[1][1] \in Int
    BY <1>7, <1>8
  <2>2. prev - p <= u[1][1] /\ u[1][1] <= prev + p
    BY <1>3, <1>4, <1>5, <1>6, <1>8, <2>1, Zenon
  <2>3. -l * cp <= s /\ s <= l * cp
    <3>1. -l * cp = -p
      BY <2>1
    <3> QED BY <2>1, <2>2, <3>1
  <2>4. -(limit * cp) <= s /\ s <= limit * cp
    BY <1>3, <2>3, WithinMore, Zenon
  <2> QED BY <1>8, <2>1, <2>4, Zenon DEF StepKept
<1>9. CASE i # 1
  <2>1. i - 1 \in 1 .. n
    BY <1>9
  <2>2. PICK s \in Int : s = u[i][1] - u[i - 1][1]
    BY <1>7, <2>1
  <2>3. -l * dt <= s /\ s <= l * dt
    BY <1>3, <1>4, <1>5, <1>6, <1>9, <2>2, Zenon
  <2>4. -(limit * dt) <= s /\ s <= limit * dt
    BY <1>3, <2>3, WithinMore, Zenon
  <2> QED BY <1>9, <2>2, <2>4, Zenon DEF StepKept
<1> QED BY <1>8, <1>9

\* What ConstraintsAreRates says of one sequence of inputs.
InputKept(c, bc, bv, a, dt, cp, u) ==
  ((\A i \in DOMAIN u : RowHolds(c, u, i)) /\ ~a.stopped) =>
    \A i \in DOMAIN u :
      /\ \E e \in EntriesAround(bc, a.ks[i]) : StepKept(u, a.prev, i, bc[e].limit, dt, cp)
      /\ \E e \in EntriesAround(bv, a.vs[i]) : StepKept(u, a.prev, i, bv[e].limit, dt, cp)

\* Together that is what ConstraintsAreRates says.
LEMMA KeptIsRates ==
  ASSUME NEW c, NEW bc, NEW bv, NEW a, NEW dt, NEW cp, NEW inputs,
         \A u \in inputs : InputKept(c, bc, bv, a, dt, cp, u)
  PROVE  ConstraintsAreRates(c, bc, bv, a, dt, cp, inputs)
BY Zenon DEF ConstraintsAreRates, InputKept, StepKept, RowHolds, RowSum

\* mpc.cpp: the constraints keep the limits of both tables.
LEMMA LimitsAlwaysRates ==
  ASSUME NEW bc, Table(bc), NEW bv, Table(bv), NEW a, a.ks \in Seq(Int), a.vs \in Seq(Int),
         Len(a.vs) = Len(a.ks), a.stopped \in BOOLEAN, a.prev \in Int, NEW dt \in Nat, NEW cp \in Nat,
         NEW inputs, \A u \in inputs : u \in [1 .. Len(a.ks) -> [1 .. 1 -> Int]]
  PROVE  ConstraintsAreRates(RateConstraints(SteerRateLimits(bc, bv, a.ks, a.vs, a.stopped), a.prev, dt, cp),
                             bc, bv, a, dt, cp, inputs)
<1>1. PICK c : c = RateConstraints(SteerRateLimits(bc, bv, a.ks, a.vs, a.stopped), a.prev, dt, cp)
  OBVIOUS
<1>2. ASSUME NEW u \in inputs PROVE InputKept(c, bc, bv, a, dt, cp, u)
  <2>1. SUFFICES ASSUME \A i \in DOMAIN u : RowHolds(c, u, i), ~a.stopped, NEW i \in DOMAIN u
        PROVE  /\ \E e \in EntriesAround(bc, a.ks[i]) : StepKept(u, a.prev, i, bc[e].limit, dt, cp)
               /\ \E e \in EntriesAround(bv, a.vs[i]) : StepKept(u, a.prev, i, bv[e].limit, dt, cp)
    BY Zenon DEF InputKept
  <2>2. PICK n \in Nat : n = Len(a.ks)
    OBVIOUS
  <2>3. u \in [1 .. n -> [1 .. 1 -> Int]] /\ DOMAIN u = 1 .. n
    BY <2>2
  <2>4. PICK limits \in [1 .. n -> Int] :
          /\ limits = SteerRateLimits(bc, bv, a.ks, a.vs, FALSE) /\ Len(limits) = n
          /\ \A k \in 1 .. n : /\ Bounded(bc, Len(bc), a.ks[k], limits[k])
                               /\ Bounded(bv, Len(bv), a.vs[k], limits[k])
    <3>1. PICK limits \in [1 .. n -> Int] : LimitsBounded(limits, n, bc, bv, a.ks, a.vs)
      BY <2>2, SteerLimitsAre, Zenon
    <3> QED BY <3>1, Zenon DEF LimitsBounded
  <2>5. a.stopped = FALSE
    BY <2>1
  <2>6. i \in 1 .. n /\ RowHolds(RateConstraints(limits, a.prev, dt, cp), u, i)
    BY <1>1, <2>1, <2>3, <2>4, <2>5, Zenon
  <2>7. ASSUME NEW map, Table(map), NEW x, Bounded(map, Len(map), x, limits[i])
        PROVE  \E e \in EntriesAround(map, x) : StepKept(u, a.prev, i, map[e].limit, dt, cp)
    <3>1. PICK m \in Nat : m = Len(map) /\ \A k \in 1 .. m : map[k].limit \in Nat
      BY <2>7, TableEntries, Zenon
    <3>2. PICK e \in 1 .. m : Around(map, m, e, x) /\ limits[i] <= map[e].limit
      BY <2>7, <3>1, Zenon DEF Bounded
    <3>3. e \in EntriesAround(map, x)
      BY <2>7, <3>1, <3>2, AroundIs, Zenon
    <3>4. StepKept(u, a.prev, i, map[e].limit, dt, cp)
      BY <2>3, <2>4, <2>6, <3>1, <3>2, RowKeeps, Zenon
    <3> QED BY <3>3, <3>4, Zenon
  <2> QED BY <2>4, <2>6, <2>7, Zenon
<1>3. ConstraintsAreRates(c, bc, bv, a, dt, cp, inputs)
  BY <1>2, KeptIsRates, Zenon
<1> QED BY <1>1, <1>3, Zenon

-----------------------------------------------------------------------------
(* What the calls return.                                                  *)

\* The call that makes the state say what it says.
LEMMA CallOfName ==
  ASSUME NumericsNext
  PROVE  /\ fn' = "convert" => CallConvert
         /\ fn' = "lerp" => CallLerp
         /\ fn' = "resample" => CallResample
         /\ fn' = "cycle" => CallCycle
         /\ fn' = "steer" => CallSteer
         /\ fn' = "pid" => CallPid
         /\ fn' = "delay" => CallDelay
         /\ fn' = "limits" => CallLimits
         /\ fn' = "filter" => CallFilter
<1>1. CallSpline \/ CallSmooth \/ CallMatrix \/ CallStop \/ CallCsc \/ Return
        => fn' \in {"spline", "smooth", "matrix", "stop", "csc", "idle"}
  BY DEF CallSpline, CallSmooth, CallMatrix, CallStop, CallCsc, Return, fn
<1>2. /\ CallConvert => fn' = "convert"
      /\ CallLerp => fn' = "lerp"
      /\ CallResample => fn' = "resample"
      /\ CallCycle => fn' = "cycle"
      /\ CallSteer => fn' = "steer"
      /\ CallPid => fn' = "pid"
      /\ CallDelay => fn' = "delay"
      /\ CallLimits => fn' = "limits"
      /\ CallFilter => fn' = "filter"
  BY DEF CallConvert, CallLerp, CallResample, CallCycle, CallSteer, CallPid, CallDelay,
         CallLimits, CallFilter, fn
<1>3. \/ CallConvert \/ CallSpline \/ CallSmooth \/ CallMatrix \/ CallLimits \/ CallFilter
      \/ CallStop \/ CallCsc \/ Return \/ CallLerp \/ CallResample \/ CallCycle \/ CallSteer
      \/ CallPid \/ CallDelay
  BY Zenon DEF NumericsNext
<1> QED BY <1>1, <1>2, <1>3

\* lerp returns what LerpAlwaysInside says.
LEMMA LerpReturns ==
  ASSUME CallLerp, fn' = "lerp"
  PROVE  LerpInside(arg.base, arg.values, arg.query, ret)'
<1>1. PICK a \in LerpArgs : call' = <<"lerp", a, Lerp(a.base, a.values, a.query)>>
  BY Zenon DEF CallLerp
<1>2. arg' = a /\ ret' = Lerp(a.base, a.values, a.query)
  BY <1>1 DEF arg, ret
<1>3. LerpInside(a.base, a.values, a.query, Lerp(a.base, a.values, a.query))
  BY LerpAssumption, LerpAlwaysInside, Zenon
<1> QED BY <1>2, <1>3, Zenon

\* The resampling returns what ResampleAlwaysValid says.
LEMMA ResampleReturns ==
  ASSUME CallResample
  PROVE  ResampleKeysValid(arg, ret)'
<1>1. PICK a \in ResampleArgs :
        call' = <<"resample", a, ResampleKeys(a.arcs, a.ego, a.interval, a.eps)>>
  BY Zenon DEF CallResample
<1>2. arg' = a /\ ret' = ResampleKeys(a.arcs, a.ego, a.interval, a.eps)
  BY <1>1 DEF arg, ret
<1>3. ResampleKeysValid(a, ResampleKeys(a.arcs, a.ego, a.interval, a.eps))
  BY ResampleAssumption, ResampleAlwaysValid, Zenon
<1> QED BY <1>2, <1>3, Zenon

\* A cycle returns what CycleAlwaysInside says.
LEMMA CycleReturns ==
  ASSUME CallCycle
  PROVE  CycleStaysInside(ret)'
<1>1. PICK a \in CycleArgs : call' = <<"cycle", a, CycleKeys(a.steps, a.vx, a.ego, a)>>
  BY Zenon DEF CallCycle
<1>2. ret' = CycleKeys(a.steps, a.vx, a.ego, a)
  BY <1>1 DEF ret
<1>3. CycleStaysInside(CycleKeys(a.steps, a.vx, a.ego, a))
  BY CycleAssumption, CycleAlwaysInside, Zenon DEF CycleParameters
<1> QED BY <1>2, <1>3, Zenon

\* linear_interpolation.cpp, mpc_utils.cpp, mpc.cpp: whatever the reference, the
\* ego's place and the parameters, no interpolation or resampling of the follower
\* leaves the data it was given.
THEOREM KeysAlwaysInside == NumericsSpec => []KeysInside
<1>1. Idle => KeysInside
  BY DEF Idle, KeysInside, LerpBetweenNeighbours, ResampledKeysAccepted, HorizonInsideReference, fn
<1>2. ASSUME KeysInside, [NumericsNext]_call PROVE KeysInside'
  <2>1. CASE NumericsNext
    <3>1. LerpBetweenNeighbours'
      BY <2>1, CallOfName, LerpReturns, Zenon DEF LerpBetweenNeighbours
    <3>2. ResampledKeysAccepted'
      BY <2>1, CallOfName, ResampleReturns, Zenon DEF ResampledKeysAccepted
    <3>3. HorizonInsideReference'
      BY <2>1, CallOfName, CycleReturns, Zenon DEF HorizonInsideReference
    <3> QED BY <3>1, <3>2, <3>3, Zenon DEF KeysInside
  <2>2. CASE UNCHANGED call
    BY <1>2, <2>2 DEF KeysInside, LerpBetweenNeighbours, ResampledKeysAccepted,
                      HorizonInsideReference, fn, arg, ret
  <2> QED BY <1>2, <2>1, <2>2
<1> QED BY <1>1, <1>2, PTL DEF NumericsSpec

\* The conversion returns what ConvertedRuns, ConvertedKeepsNear and ConvertedSays say.
LEMMA ConvertReturns ==
  ASSUME CallConvert, fn' = "convert"
  PROVE  ConvertedRunnable' /\ ConvertedNear' /\ ConvertedSchedule'
<1>1. PICK r \in References : call' = <<"convert", r, Convert(r)>>
  BY Zenon DEF CallConvert
<1>2. arg' = r /\ ret' = Convert(r)
  BY <1>1 DEF arg, ret
<1>3. Reference(r)
  BY ReferenceAssumption, Zenon DEF Reference
<1>4. ReferenceRunnable(r, Convert(r)) /\ NearFieldKept(r, Convert(r)) /\ ScheduleTranscribed(r, Convert(r))
  BY <1>3, ConvertedRuns, ConvertedKeepsNear, ConvertedSays, Zenon
<1> QED BY <1>2, <1>4, Zenon DEF ConvertedRunnable, ConvertedNear, ConvertedSchedule

\* vp_reference.hpp: a conversion hands the follower a trajectory it can run,
\* whose near field survived the budget and whose speeds and times are those of
\* the schedule, whatever the shape of the path, the gap and the speeds.
THEOREM ConversionAlwaysFaithful == NumericsSpec => []ConversionFaithful
<1>1. Idle => ConversionFaithful
  BY DEF Idle, ConversionFaithful, ConvertedRunnable, ConvertedNear, ConvertedSchedule, fn
<1>2. ASSUME ConversionFaithful, [NumericsNext]_call PROVE ConversionFaithful'
  <2>1. CASE NumericsNext
    <3>1. CASE fn' = "convert"
      <4>1. ConvertedRunnable' /\ ConvertedNear' /\ ConvertedSchedule'
        BY <2>1, <3>1, CallOfName, ConvertReturns, Zenon
      <4> QED BY <4>1, Zenon DEF ConversionFaithful
    <3>2. CASE ~(fn' = "convert")
      BY <3>2, Zenon DEF ConversionFaithful, ConvertedRunnable, ConvertedNear, ConvertedSchedule
    <3> QED BY <3>1, <3>2
  <2>2. CASE UNCHANGED call
    BY <1>2, <2>2 DEF ConversionFaithful, ConvertedRunnable, ConvertedNear, ConvertedSchedule,
                      fn, arg, ret
  <2> QED BY <1>2, <2>1, <2>2
<1> QED BY <1>1, <1>2, PTL DEF NumericsSpec

\* The steering predictor covers its interval and remembers its window.
LEMMA SteerReturns ==
  ASSUME CallSteer, fn' = "steer"
  PROVE  PredictorCoversInterval' /\ PredictorRemembersWindow'
<1>1. PICK a \in SteerArgs :
        call' = <<"steer", a,
                  [kept |-> KeptAfter(a)[Len(a.calls)],
                   stretches |-> SteerStretches(KeptAfter(a)[Len(a.calls)], a.tStart, a.tStart + a.gap)]>>
  BY Zenon DEF CallSteer
<1>2. PICK kept : kept = KeptAfter(a)[Len(a.calls)]
  OBVIOUS
<1>3. /\ a.calls \in Seq(Int) /\ a.calls # <<>> /\ IsIncreasing(a.calls)
      /\ a.delay \in Nat /\ a.store \in Nat /\ a.tStart \in Int /\ a.gap \in Nat
  BY SteerAssumption, Zenon
<1>4. PICK n \in Nat \ {0} : n = Len(a.calls)
  BY <1>3
<1>5. PICK d \in Nat : Dropped(kept, a.calls, n, d, a.delay, a.store)
  <2>1. n \in Nat
    OBVIOUS
  <2> QED BY <1>2, <1>3, <1>4, <2>1, KeptIs, Zenon
<1>6. kept \in Seq(Int) /\ IsIncreasing(kept)
  <2>1. n \in Nat /\ n <= Len(a.calls)
    BY <1>4
  <2> QED BY <1>3, <1>5, <2>1, KeptIncreases, Zenon
<1>7. PredictorRemembers([i \in DOMAIN a.calls |-> a.calls[i] + a.delay], kept,
                         Last(a.calls), a.store)
  BY <1>3, <1>4, <1>5, HistoryRemembers, Zenon
<1>8. StretchesPartition([stamps |-> kept, tStart |-> a.tStart, tEnd |-> a.tStart + a.gap],
                         SteerStretches(kept, a.tStart, a.tStart + a.gap))
  BY <1>3, <1>6, StretchesAlwaysPartition, Zenon
<1>9. arg' = a /\ ret' = [kept |-> kept, stretches |-> SteerStretches(kept, a.tStart, a.tStart + a.gap)]
  BY <1>1, <1>2 DEF arg, ret
<1>10. ret'.kept = kept /\ ret'.stretches = SteerStretches(kept, a.tStart, a.tStart + a.gap)
  BY <1>9
<1> QED BY <1>7, <1>8, <1>9, <1>10, Zenon DEF PredictorCoversInterval, PredictorRemembersWindow

\* The PID returns what PidNeverWinds says.
LEMMA PidReturns ==
  ASSUME CallPid
  PROVE  IntegralUnwinds'
<1>1. PICK a \in PidArgs : call' = <<"pid", a, PidRun(a)>>
  BY Zenon DEF CallPid
<1>2. arg' = a /\ ret' = PidRun(a)
  BY <1>1 DEF arg, ret
<1>3. a \in Seq(PidError) /\ PidLimits(PidParams)
  BY PidAssumption, Zenon DEF PidError, PidLimits
<1>4. PICK n \in Nat : n = Len(a)
  BY <1>3
<1>5. PidAnswers(PidRun(a), a, n, PidParams)
  BY <1>3, <1>4, PidRunAnswers, Zenon
<1>6. PidDoesNotWindUp(a, PidRun(a), PidParams)
  BY <1>3, <1>4, <1>5, PidNeverWinds, Zenon
<1> QED BY <1>2, <1>6, Zenon DEF IntegralUnwinds

\* The prediction over the delay returns what DelayAlwaysFits says.
LEMMA DelayReturns ==
  ASSUME CallDelay
  PROVE  DelayNeverReverses'
<1>1. PICK a \in DelayArgs :
        call' = <<"delay", a, StateAfterDelay(a.v, a.a, a.cmds, a.autonomous, a.delay)>>
  BY Zenon DEF CallDelay
<1>2. arg' = a /\ ret' = StateAfterDelay(a.v, a.a, a.cmds, a.autonomous, a.delay)
  BY <1>1 DEF arg, ret
<1>3. a.v \in Int /\ a.a \in Int /\ a.delay \in Nat /\ Aged(a.cmds)
  BY DelayAssumption, Zenon DEF Aged, Commands
<1>4. PredictionNeverReverses(a, StateAfterDelay(a.v, a.a, a.cmds, a.autonomous, a.delay))
  BY <1>3, DelayAlwaysFits, Zenon
<1> QED BY <1>2, <1>4, Zenon DEF DelayNeverReverses

\* steering_predictor.cpp, pid.cpp, pid_longitudinal_controller.cpp: whatever the
\* commands, the errors and the delay, the steering response covers its interval
\* and forgets no command in force, the PID does not wind up and the state after
\* the delay never reverses.
THEOREM PredictionsAlwaysFit == NumericsSpec => []PredictionsFit
<1>1. Idle => PredictionsFit
  BY DEF Idle, PredictionsFit, PredictorCoversInterval, PredictorRemembersWindow,
         IntegralUnwinds, DelayNeverReverses, fn
<1>2. ASSUME PredictionsFit, [NumericsNext]_call PROVE PredictionsFit'
  <2>1. CASE NumericsNext
    <3>1. PredictorCoversInterval' /\ PredictorRemembersWindow'
      <4>1. CASE fn' = "steer"
        BY <2>1, <4>1, CallOfName, SteerReturns, Zenon
      <4>2. CASE fn' # "steer"
        BY <4>2, Zenon DEF PredictorCoversInterval, PredictorRemembersWindow
      <4> QED BY <4>1, <4>2
    <3>2. IntegralUnwinds'
      BY <2>1, CallOfName, PidReturns, Zenon DEF IntegralUnwinds
    <3>3. DelayNeverReverses'
      BY <2>1, CallOfName, DelayReturns, Zenon DEF DelayNeverReverses
    <3> QED BY <3>1, <3>2, <3>3, Zenon DEF PredictionsFit
  <2>2. CASE UNCHANGED call
    BY <1>2, <2>2 DEF PredictionsFit, PredictorCoversInterval, PredictorRemembersWindow,
                      IntegralUnwinds, DelayNeverReverses, fn, arg, ret
  <2> QED BY <1>2, <2>1, <2>2
<1> QED BY <1>1, <1>2, PTL DEF NumericsSpec

\* The filter returns what FilterFollows says.
LEMMA FilterReturns ==
  ASSUME CallFilter
  PROVE  FilteredSpeedsFollow'
<1>1. PICK a \in FilterArgs :
        call' = <<"filter", a, DynamicSmoothingVelocity(a.seg, a.start, a.steps, a.vx, a.acc, a.tau)>>
  BY Zenon DEF CallFilter
<1>2. arg' = a /\ ret' = DynamicSmoothingVelocity(a.seg, a.start, a.steps, a.vx, a.acc, a.tau)
  BY <1>1 DEF arg, ret
<1>3. FilterMeans(a.seg, a.start, a.steps, a.vx, a.acc,
                  DynamicSmoothingVelocity(a.seg, a.start, a.steps, a.vx, a.acc, a.tau))
  BY FilterAssumption, FilterFollows, Zenon
<1>4. FilterFollowsReference(a, DynamicSmoothingVelocity(a.seg, a.start, a.steps, a.vx, a.acc, a.tau))
  BY <1>3, Zenon DEF FilterMeans, Follows1, FilterFollowsReference
<1> QED BY <1>2, <1>4, Zenon DEF FilteredSpeedsFollow

\* The limits and the constraint rows return what LimitsAlwaysRates says.
LEMMA LimitsReturns ==
  ASSUME CallLimits
  PROVE  ConstraintRowsAreRates'
<1>1. PICK a, limits :
        /\ a \in LimitArgs
        /\ limits = SteerRateLimits(CurvatureLimits, SpeedLimits, a.ks, a.vs, a.stopped)
        /\ call' = <<"limits", a, [limits |-> limits, c |-> RateConstraints(limits, a.prev, 2, 1)]>>
  BY Zenon DEF CallLimits
<1>2. arg' = a /\ ret'.c = RateConstraints(limits, a.prev, 2, 1)
  BY <1>1 DEF arg, ret
<1>3. Table(CurvatureLimits) /\ Table(SpeedLimits)
  BY LimitAssumption, Zenon DEF Table
<1>4. /\ a.ks \in Seq(Int) /\ a.vs \in Seq(Int) /\ Len(a.vs) = Len(a.ks)
      /\ a.stopped \in BOOLEAN /\ a.prev \in Int
      /\ \A u \in RateInputs : u \in [1 .. Len(a.ks) -> [1 .. 1 -> Int]]
  BY <1>1, LimitAssumption, Zenon
<1>5. 2 \in Nat /\ 1 \in Nat
  OBVIOUS
<1>6. ConstraintsAreRates(RateConstraints(limits, a.prev, 2, 1), CurvatureLimits, SpeedLimits,
                          a, 2, 1, RateInputs)
  BY <1>1, <1>3, <1>4, <1>5, LimitsAlwaysRates, Zenon
<1> QED BY <1>2, <1>6, Zenon DEF ConstraintRowsAreRates

\* mpc_utils.cpp, mpc.cpp: whatever the trajectory, the tables and the inputs, the
\* filtered speeds follow the reference within the acceleration limit, and inputs
\* that satisfy the solver's rows steer no faster than the tables allow.
THEOREM LimitsAlwaysKept == NumericsSpec => []LimitsKept
<1>1. Idle => LimitsKept
  BY DEF Idle, LimitsKept, FilteredSpeedsFollow, ConstraintRowsAreRates, fn
<1>2. ASSUME LimitsKept, [NumericsNext]_call PROVE LimitsKept'
  <2>1. CASE NumericsNext
    <3>1. FilteredSpeedsFollow'
      BY <2>1, CallOfName, FilterReturns, Zenon DEF FilteredSpeedsFollow
    <3>2. ConstraintRowsAreRates'
      BY <2>1, CallOfName, LimitsReturns, Zenon DEF ConstraintRowsAreRates
    <3> QED BY <3>1, <3>2, Zenon DEF LimitsKept
  <2>2. CASE UNCHANGED call
    BY <1>2, <2>2 DEF LimitsKept, FilteredSpeedsFollow, ConstraintRowsAreRates, fn, arg, ret
  <2> QED BY <1>2, <2>1, <2>2
<1> QED BY <1>1, <1>2, PTL DEF NumericsSpec

\* steering_predictor.cpp, pid.cpp, pid_longitudinal_controller.cpp, mpc_utils.cpp,
\* mpc.cpp: both at every call.
THEOREM PredictionsAndLimitsHold == NumericsSpec => []PredictionsAndLimits
<1>1. PredictionsFit /\ LimitsKept => PredictionsAndLimits
  BY Zenon DEF PredictionsAndLimits
<1> QED BY <1>1, PredictionsAlwaysFit, LimitsAlwaysKept, PTL
=============================================================================
