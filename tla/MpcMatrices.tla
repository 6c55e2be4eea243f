---------------------------- MODULE MpcMatrices ----------------------------
(***************************************************************************)
(* The optimisation problem of MPC::calculateMPC, in exact integers: the   *)
(* batch prediction matrices of generateMPCMatrix, the cost that           *)
(* executeOptimization hands to the solver, the steering weights and the   *)
(* limits, and the sparse form of csc_matrix_conv.cpp.  A matrix is a      *)
(* sequence of rows.  The discrete model of a step (ad, bd, wd, cd), the   *)
(* weights (q, r, jerk) and the reference input are arguments, a step of   *)
(* the horizon each; there is one input.                                   *)
(***************************************************************************)
EXTENDS Integers, Sequences, SequencesExt

Rows(m) == Len(m)

Cols(m) == Len(m[1])

\* The sum of f(1) .. f(n).
SumTo(n, f(_)) ==
  LET sum[k \in 0 .. n] == IF k = 0 THEN 0 ELSE sum[k - 1] + f(k)
  IN  IF n < 1 THEN 0 ELSE sum[n]

\* The sequence f(1) .. f(n), and the matrix of f(i, j).
Tabulate(n, f(_)) == FoldLeft(LAMBDA s, k : Append(s, f(k)), <<>>, [k \in 1 .. n |-> k])

Matrix(n, m, f(_, _)) == Tabulate(n, LAMBDA i : Tabulate(m, LAMBDA j : f(i, j)))

MatMul(a, b) ==
  Matrix(Rows(a), Cols(b), LAMBDA i, j : SumTo(Cols(a), LAMBDA k : a[i][k] * b[k][j]))

MatAdd(a, b) == Matrix(Rows(a), Cols(a), LAMBDA i, j : a[i][j] + b[i][j])

MatSub(a, b) == Matrix(Rows(a), Cols(a), LAMBDA i, j : a[i][j] - b[i][j])

Transpose(a) == Matrix(Cols(a), Rows(a), LAMBDA i, j : a[j][i])

Stack(blocks) == FoldLeft(LAMBDA rows, b : rows \o b, <<>>, blocks)

\* A block diagonal matrix of equal blocks.
Diagonal(blocks) ==
  LET n == Len(blocks)
      p == Rows(blocks[1])
      q == Cols(blocks[1])
  IN  [i \in 1 .. n * p |-> [j \in 1 .. n * q |->
         LET bi == (i - 1) \div p + 1
             bj == (j - 1) \div q + 1
         IN  IF bi = bj THEN blocks[bi][((i - 1) % p) + 1][((j - 1) % q) + 1] ELSE 0]]

-----------------------------------------------------------------------------

\* The blocks of Aex, Bex and Wex: row i from row i - 1, times ad of step i.
BlockA(steps) ==
  FoldLeft(LAMBDA b, s : Append(b, IF b = <<>> THEN s.ad ELSE MatMul(s.ad, Last(b))), <<>>, steps)

BlockW(steps) ==
  FoldLeft(LAMBDA b, s : Append(b, IF b = <<>> THEN s.wd ELSE MatAdd(MatMul(s.ad, Last(b)), s.wd)),
           <<>>, steps)

\* Mutant: the inputs of earlier steps pass through the first step's dynamics.
BlockBFirst(steps) ==
  LET n    == Len(steps)
      zero == [k \in 1 .. Rows(steps[1].bd) |-> <<0>>]
  IN  FoldLeft(
        LAMBDA b, s :
          LET i == Len(b) + 1
          IN  Append(b, [j \in 1 .. n |-> IF j = i THEN s.bd
                                          ELSE IF j < i THEN MatMul(steps[1].ad, b[i - 1][j]) ELSE zero]),
        <<>>, steps)

\* The row of blocks i of Bex, one column per step of the horizon.
BlockB(steps) ==
  LET n    == Len(steps)
      zero == [k \in 1 .. Rows(steps[1].bd) |-> <<0>>]
  IN  FoldLeft(
        LAMBDA b, s :
          LET i == Len(b) + 1
          IN  Append(b, [j \in 1 .. n |-> IF j = i THEN s.bd
                                          ELSE IF j < i THEN MatMul(s.ad, b[i - 1][j]) ELSE zero]),
        <<>>, steps)

\* R2ex: the lateral jerk, a two by two block at every step but the last.
JerkMatrix(steps) ==
  LET n == Len(steps)
  IN  [i \in 1 .. n |-> [j \in 1 .. n |->
         IF i = j THEN (IF i < n THEN steps[i].jerk ELSE 0) + (IF i > 1 THEN steps[i - 1].jerk ELSE 0)
         ELSE IF j = i + 1 THEN -steps[i].jerk
         ELSE IF i = j + 1 THEN -steps[j].jerk ELSE 0]]

\* Mutant: the first acceleration leaves out the control period.
SteerWeightRNoPeriod(n, w, dt, cp) ==
  LET rate == w.rate \div (dt * dt)
      acc  == w.acc \div (dt * dt * dt * dt)
      pair == <<<<1, -1>>, <<-1, 1>>>>
      bend == <<<<1, -2, 1>>, <<-2, 4, -2>>, <<1, -2, 1>>>>
      at(block, size, first, i, j) ==
        IF {i, j} \subseteq first .. first + size - 1 THEN block[i - first + 1][j - first + 1] ELSE 0
  IN  [i \in 1 .. n |-> [j \in 1 .. n |->
         SumTo(n - 1, LAMBDA k : rate * at(pair, 2, k, i, j))
         + SumTo(n - 2, LAMBDA k : acc * at(bend, 3, k, i, j))
         + (IF n > 1 /\ i = 1 /\ j = 1 THEN w.rate \div (cp * cp) + acc ELSE 0)]]

\* addSteerWeightR for the weights w of rate and acceleration, the prediction
\* step dt and the control period cp; the weights are multiples of the powers
\* of both they are divided by.
SteerWeightR(n, w, dt, cp) ==
  LET rate == w.rate \div (dt * dt)
      acc  == w.acc \div (dt * dt * dt * dt)
      cp1  == w.acc \div (dt * dt * dt * cp)
      cp2  == w.acc \div (dt * dt * cp * cp)
      cp4  == w.acc \div (cp * cp * cp * cp)
      pair == <<<<1, -1>>, <<-1, 1>>>>
      bend == <<<<1, -2, 1>>, <<-2, 4, -2>>, <<1, -2, 1>>>>
      at(block, size, first, i, j) ==
        IF {i, j} \subseteq first .. first + size - 1 THEN block[i - first + 1][j - first + 1] ELSE 0
      head(i, j) ==
        IF n = 1 THEN 0
        ELSE CASE i = 1 /\ j = 1 -> w.rate \div (cp * cp) + acc + cp2 + 2 * cp1 + cp4
               [] {i, j} = {1, 2} -> -acc - cp1
               [] i = 2 /\ j = 2 -> acc
               [] OTHER -> 0
  IN  [i \in 1 .. n |-> [j \in 1 .. n |->
         SumTo(n - 1, LAMBDA k : rate * at(pair, 2, k, i, j))
         + SumTo(n - 2, LAMBDA k : acc * at(bend, 3, k, i, j))
         + head(i, j)]]

\* generateMPCMatrix.
GenerateMPCMatrix(steps, w, dt, cp) ==
  LET n == Len(steps)
      b == BlockB(steps)
  IN  [aex |-> Stack(BlockA(steps)),
       bex |-> Stack([i \in 1 .. n |->
                 [k \in 1 .. Rows(steps[1].bd) |-> [j \in 1 .. n |-> b[i][j][k][1]]]]),
       wex |-> Stack(BlockW(steps)),
       cex |-> Diagonal([i \in 1 .. n |-> steps[i].cd]),
       qex |-> Diagonal([i \in 1 .. n |-> steps[i].q]),
       r1ex |-> MatAdd(Diagonal([i \in 1 .. n |-> <<<<steps[i].r>>>>]), SteerWeightR(n, w, dt, cp)),
       r2ex |-> JerkMatrix(steps),
       uref |-> [i \in 1 .. n |-> <<steps[i].uref>>]]

\* executeOptimization: the quadratic and the linear part of the cost.
\* addSteerWeightF returns at once for a matrix of one row, which f always is.
HessianOf(m) ==
  LET cb == MatMul(m.cex, m.bex)
      h  == MatAdd(MatMul(Transpose(cb), MatMul(m.qex, cb)), MatAdd(m.r1ex, m.r2ex))
  IN  [i \in 1 .. Rows(h) |-> [j \in 1 .. Rows(h) |-> IF i <= j THEN h[i][j] ELSE h[j][i]]]

\* Mutant: the reference input enters with the wrong sign.
GradientOfPlus(m, x0) ==
  LET free == MatMul(m.cex, MatAdd(MatMul(m.aex, x0), m.wex))
  IN  MatAdd(MatMul(Transpose(free), MatMul(m.qex, MatMul(m.cex, m.bex))),
             MatMul(Transpose(m.uref), m.r1ex))

GradientOf(m, x0) ==
  LET free == MatMul(m.cex, MatAdd(MatMul(m.aex, x0), m.wex))
  IN  MatSub(MatMul(Transpose(free), MatMul(m.qex, MatMul(m.cex, m.bex))),
             MatMul(Transpose(m.uref), m.r1ex))

\* calcSteerRateLimitOnTrajectory: a map of limits, held outside its range.
RateLimitAt(map, x) ==
  LET n == Len(map)
      i == CHOOSE i \in 1 .. n - 1 : map[i].at <= x /\ x <= map[i + 1].at
               /\ \A j \in 1 .. i - 1 : ~(map[j].at <= x /\ x <= map[j + 1].at)
  IN  IF x <= map[1].at THEN map[1].limit
      ELSE IF x >= map[n].at THEN map[n].limit
      ELSE map[i].limit + ((map[i + 1].limit - map[i].limit) * (x - map[i].at))
                            \div (map[i + 1].at - map[i].at)

kDrySteerRate == 100

SteerRateLimits(byCurvature, byVelocity, ks, vs, stopped) ==
  [i \in DOMAIN ks |->
     LET a == RateLimitAt(byCurvature, ks[i])
         b == RateLimitAt(byVelocity, vs[i])
     IN  IF stopped THEN kDrySteerRate ELSE IF a < b THEN a ELSE b]

\* Mutant: the first input may use up a whole prediction step.
RateConstraintsStep(limits, prev, dt, cp) ==
  LET n == Len(limits)
  IN  [a |-> [i \in 1 .. n |-> [j \in 1 .. n |-> IF i = j THEN 1 ELSE IF j = i - 1 THEN -1 ELSE 0]],
       ub |-> [i \in 1 .. n |-> IF i = 1 THEN prev + limits[1] * dt ELSE limits[i] * dt],
       lb |-> [i \in 1 .. n |-> IF i = 1 THEN prev - limits[1] * dt ELSE -limits[i] * dt]]

\* The constraints of executeOptimization: rows of A with their bounds.
RateConstraints(limits, prev, dt, cp) ==
  LET n == Len(limits)
  IN  [a |-> [i \in 1 .. n |-> [j \in 1 .. n |-> IF i = j THEN 1 ELSE IF j = i - 1 THEN -1 ELSE 0]],
       ub |-> [i \in 1 .. n |-> IF i = 1 THEN prev + limits[1] * cp ELSE limits[i] * dt],
       lb |-> [i \in 1 .. n |-> IF i = 1 THEN prev - limits[1] * cp ELSE -limits[i] * dt]]

\* calcDesiredSteeringRate of the kinematic model, times the prediction step:
\* the change of the predicted state `idx' over the first step.
SteerChange(m, x0, u, idx) ==
  MatAdd(MatAdd(MatMul(m.aex, x0), MatMul(m.bex, u)), m.wex)[idx][1] - x0[idx][1]

-----------------------------------------------------------------------------

\* calCSCMatrix and calCSCMatrixTrapezoidal: column by column, the values that
\* are not zero, their rows, and where each column starts (rows from zero).
CscColumns(mat, lastRow) ==
  FoldLeft(
    LAMBDA c, j :
      LET rows == SelectSeq([i \in 1 .. lastRow[j] |-> i], LAMBDA i : mat[i][j] # 0)
      IN  [vals |-> c.vals \o [k \in DOMAIN rows |-> mat[rows[k]][j]],
           rows |-> c.rows \o [k \in DOMAIN rows |-> rows[k] - 1],
           cols |-> Append(c.cols, Last(c.cols) + Len(rows))],
    [vals |-> <<>>, rows |-> <<>>, cols |-> <<0>>], [j \in 1 .. Cols(mat) |-> j])

CalCSCMatrix(mat) == CscColumns(mat, [j \in 1 .. Cols(mat) |-> Rows(mat)])

\* Mutant: the diagonal is left out.
CalCSCMatrixStrict(mat) == CscColumns(mat, [j \in 1 .. Cols(mat) |-> j - 1])

CalCSCMatrixTrapezoidal(mat) == CscColumns(mat, [j \in 1 .. Cols(mat) |-> j])

-----------------------------------------------------------------------------

\* The states one gets by applying the steps one after the other.
Simulated(steps, x0, u) ==
  Stack(Tail(FoldLeft(
    LAMBDA xs, i :
      Append(xs, MatAdd(MatAdd(MatMul(steps[i].ad, Last(xs)), MatMul(steps[i].bd, <<u[i]>>)),
                        steps[i].wd)),
    <<x0>>, [i \in DOMAIN steps |-> i])))

\* generateMPCMatrix: the batch matrices predict, for every input sequence, the
\* states that the discrete model gives step by step, and the steering rate that
\* is published is the one of the first step.
BatchPredictsSteps(a, m, inputs) ==
  \A u \in inputs :
    LET x == Simulated(a.steps, a.x0, u)
    IN  /\ MatAdd(MatAdd(MatMul(m.aex, a.x0), MatMul(m.bex, u)), m.wex) = x
        /\ \A idx \in 1 .. Rows(a.x0) : SteerChange(m, a.x0, u, idx) = x[idx][1] - a.x0[idx][1]

\* The cost of the comment above executeOptimization.
CostOf(a, m, u) ==
  LET y  == MatMul(m.cex, Simulated(a.steps, a.x0, u))
      du == MatSub(u, m.uref)
  IN  MatMul(Transpose(y), MatMul(m.qex, y))[1][1]
      + MatMul(Transpose(du), MatMul(m.r1ex, du))[1][1]
      + MatMul(Transpose(u), MatMul(m.r2ex, u))[1][1]

\* The problem the solver gets is the stated one: up to a constant, U'HU + 2fU
\* is the cost, so that -H^-1 f minimises it.
SolverMinimisesCost(a, m, inputs) ==
  LET h == HessianOf(m)
      f == GradientOf(m, a.x0)
      zero == [i \in DOMAIN a.steps |-> <<0>>]
  IN  \A u \in inputs :
        MatMul(Transpose(u), MatMul(h, u))[1][1] + 2 * MatMul(f, u)[1][1]
          = CostOf(a, m, u) - CostOf(a, m, zero)

\* The steering weights are the squares of the rates and accelerations of the
\* input sequence, started from a standing steering wheel in the middle.
SteerWeightsAreSquares(n, w, dt, cp, inputs) ==
  \A u \in inputs :
    LET r == SteerWeightR(n, w, dt, cp)
        \* u(i), zero before the start, times dt^2 cp^2 where it is divided
        rate(i) == IF i = 1 THEN dt * u[1][1] ELSE cp * (u[i][1] - u[i - 1][1])
        acc(i)  == IF i = 1 THEN dt * dt * u[1][1]
                   ELSE IF i = 2 THEN cp * cp * (u[2][1] - u[1][1]) - cp * dt * u[1][1]
                   ELSE cp * cp * (u[i][1] - 2 * u[i - 1][1] + u[i - 2][1])
        unit    == dt * dt * cp * cp
    IN  n > 1 =>
          MatMul(Transpose(u), MatMul(r, u))[1][1]
            = (w.rate \div unit) * SumTo(n, LAMBDA i : rate(i) * rate(i))
              + (w.acc \div (unit * unit)) * SumTo(n, LAMBDA i : acc(i) * acc(i))

\* The entries of a map next to x: none is between them and x.
EntriesAround(map, x) ==
  {i \in DOMAIN map :
     \A j \in DOMAIN map : /\ map[j].at <= x => ~(map[i].at < map[j].at)
                           /\ x <= map[j].at => ~(map[j].at < map[i].at)}

\* Inputs that satisfy the constraint rows steer no faster than both maps allow
\* next to the curvature and the speed of every point: the first input measured
\* from the last command, each later one from the one before.
ConstraintsAreRates(c, byCurvature, byVelocity, a, dt, cp, inputs) ==
  LET within(x, b) == -b <= x /\ x <= b
  IN  \A u \in inputs :
        LET row(i)   == SumTo(Len(u), LAMBDA j : c.a[i][j] * u[j][1])
            admitted == \A i \in DOMAIN u : c.lb[i] <= row(i) /\ row(i) <= c.ub[i]
            step(i, limit) == IF i = 1 THEN within(u[1][1] - a.prev, limit * cp)
                              ELSE within(u[i][1] - u[i - 1][1], limit * dt)
        IN  (admitted /\ ~a.stopped) =>
              \A i \in DOMAIN u :
                /\ \E e \in EntriesAround(byCurvature, a.ks[i]) : step(i, byCurvature[e].limit)
                /\ \E e \in EntriesAround(byVelocity, a.vs[i]) : step(i, byVelocity[e].limit)

\* Reading a sparse form back gives the matrix, or its upper triangle, with
\* rows in order inside every column.
CscIsFaithful(mat, csc, upper) ==
  LET entry(i, j) ==
        LET at == {k \in csc.cols[j] + 1 .. csc.cols[j + 1] : csc.rows[k] = i - 1}
        IN  IF at = {} THEN 0 ELSE csc.vals[CHOOSE k \in at : TRUE]
  IN  /\ \A i \in 1 .. Rows(mat) : \A j \in 1 .. Cols(mat) :
           entry(i, j) = IF upper /\ i > j THEN 0 ELSE mat[i][j]
      /\ Len(csc.vals) = Len(csc.rows) /\ csc.cols[Cols(mat) + 1] = Len(csc.vals)
      /\ \A j \in 1 .. Cols(mat) : \A k \in csc.cols[j] + 1 .. csc.cols[j + 1] - 1 :
           csc.rows[k] < csc.rows[k + 1]
=============================================================================
