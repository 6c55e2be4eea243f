--------------------------- MODULE LonPrediction ---------------------------
(***************************************************************************)
(* The calculations the longitudinal controller rests on, over exact       *)
(* fractions: the PID of pid.cpp, the time to stop of smooth_stop.cpp and  *)
(* the state after the actuation delay (predictedStateAfterDelay).  Gains, *)
(* errors, speeds, accelerations and times are whole numbers.              *)
(***************************************************************************)
EXTENDS Integers, Sequences, SequencesExt, Interpolation

Clamp(x, lo, hi) ==
  IF x[1] * lo[2] < lo[1] * x[2] THEN lo ELSE IF x[1] * hi[2] > hi[1] * x[2] THEN hi ELSE x

\* PIDController::reset, and what the constructor leaves.
PidReset == [integral |-> Int2Frac(0), prev |-> 0, first |-> TRUE]

\* Mutant: the contribution is limited instead of the integral.
PidCalculateWound(s, error, dt, integrate, p) ==
  LET sum == IF ~integrate THEN s.integral ELSE Plus(s.integral, Int2Frac(error * dt))
      diff == IF s.first THEN Int2Frac(0) ELSE Frac(error - s.prev, dt)
      retP == Clamp(Int2Frac(p.kp * error), Int2Frac(p.minP), Int2Frac(p.maxP))
      retI == Clamp(Scale(p.ki, sum), Int2Frac(p.minI), Int2Frac(p.maxI))
      retD == Clamp(Scale(p.kd, diff), Int2Frac(p.minD), Int2Frac(p.maxD))
  IN  [state |-> [integral |-> sum, prev |-> error, first |-> FALSE],
       p |-> retP, i |-> retI, d |-> retD,
       ret |-> Clamp(Plus(Plus(retP, retI), retD), Int2Frac(p.min), Int2Frac(p.max))]

\* PIDController::calculate with gains and limits p: the contributions, the
\* result and the state it leaves.  min / max are per contribution.
PidCalculate(s, error, dt, integrate, p) ==
  LET sum == IF ~integrate THEN s.integral
             ELSE Clamp(Plus(s.integral, Int2Frac(error * dt)),
                        Frac(p.minI, p.ki), Frac(p.maxI, p.ki))
      diff == IF s.first THEN Int2Frac(0) ELSE Frac(error - s.prev, dt)
      retP == Clamp(Int2Frac(p.kp * error), Int2Frac(p.minP), Int2Frac(p.maxP))
      retI == Scale(p.ki, sum)
      retD == Clamp(Scale(p.kd, diff), Int2Frac(p.minD), Int2Frac(p.maxD))
  IN  [state |-> [integral |-> sum, prev |-> error, first |-> FALSE],
       p |-> retP, i |-> retI, d |-> retD,
       ret |-> Clamp(Plus(Plus(retP, retI), retD), Int2Frac(p.min), Int2Frac(p.max))]

\* The sum of f over the positions of a sequence.
SumOver(s, f(_)) == FoldLeft(LAMBDA acc, x : acc + f(x), 0, s)

\* Mutant: the line is taken through the mean speed at the present moment.
TimeToStopMean(hist) ==
  LET n   == Len(hist)
      st  == SumOver(hist, LAMBDA x : x.t)
      sv  == SumOver(hist, LAMBDA x : x.v)
      stv == SumOver(hist, LAMBDA x : x.t * x.v)
      stt == SumOver(hist, LAMBDA x : x.t * x.t)
      den == st * st - n * stt
      a   == Frac(st * sv - n * stv, den)
      none == [some |-> FALSE, time |-> Int2Frac(0)]
  IN  IF n = 0 \/ den = 0 THEN none
      ELSE IF a[1] = 0 THEN none
      ELSE LET time == Over(Frac(-sv, n), a)
           IN  IF time[1] > 0 THEN [some |-> TRUE, time |-> time] ELSE none

\* SmoothStop::calcTimeToStop: the line through a history of [t, v], t counted
\* from now, by least squares; none without a slope or when it stops in the past.
\* Numerators and denominators are multiplied by the size of the history.
TimeToStop(hist) ==
  LET n   == Len(hist)
      st  == SumOver(hist, LAMBDA x : x.t)
      sv  == SumOver(hist, LAMBDA x : x.v)
      stv == SumOver(hist, LAMBDA x : x.t * x.v)
      stt == SumOver(hist, LAMBDA x : x.t * x.t)
      den == st * st - n * stt
      a   == Frac(st * sv - n * stv, den)
      b   == Less(Frac(sv, n), Times(a, Frac(st, n)))
      none == [some |-> FALSE, time |-> Int2Frac(0)]
  IN  IF n = 0 \/ den = 0 THEN none
      ELSE IF a[1] = 0 THEN none
      ELSE LET time == Over(<<-b[1], b[2]>>, a)
           IN  IF time[1] > 0 THEN [some |-> TRUE, time |-> time] ELSE none

\* predictedStateAfterDelay without a command history or outside autonomous
\* mode: constant acceleration, up to standing still.  Distances are doubled.
LinearPrediction(v, a, delay) ==
  LET stops == v * a < 0 /\ Abs(v) < delay * Abs(a)
  IN  [vel |-> IF stops THEN 0 ELSE v + a * delay, acc |-> a,
       dist2 |-> IF stops THEN Frac(v * v, Abs(a)) ELSE Int2Frac(Abs(2 * delay * v + a * delay * delay)),
       time |-> delay]

\* The stored commands [age, acc], oldest first, each of them in force until the
\* next; the last one until now.
InForce(cmds, i) == IF i = Len(cmds) THEN cmds[i].age ELSE cmds[i].age - cmds[i + 1].age

\* Mutant: a change of sign does not end the prediction.
HistoryStepOn(v, cmds, delay, s, i) ==
  LET dt  == IF InForce(cmds, i) < delay THEN InForce(cmds, i) ELSE delay
      acc == cmds[i].acc
  IN  IF cmds[i].age >= delay THEN s
      ELSE [s EXCEPT !.vel = s.vel + (IF s.vel < 0 THEN -acc * dt ELSE acc * dt),
                     !.time = @ + dt]

\* One command: those older than the delay are skipped, a change of sign ends
\* the prediction standing.
HistoryStep(v, cmds, delay, s, i) ==
  LET dt    == IF InForce(cmds, i) < delay THEN InForce(cmds, i) ELSE delay
      acc   == cmds[i].acc
      vel   == s.vel + (IF s.vel < 0 THEN -acc * dt ELSE acc * dt)
      flips == v * vel < 0 \/ (v = 0 /\ vel < 0)
  IN  IF s.done \/ cmds[i].age >= delay THEN s
      ELSE [vel |-> IF flips THEN 0 ELSE vel, acc |-> IF s.vel < 0 THEN -acc ELSE acc,
            dist2 |-> Plus(s.dist2, Int2Frac(Abs(2 * Abs(s.vel) * dt + acc * dt * dt))),
            time |-> s.time + dt, done |-> flips]

\* ... and with one: the commands one after the other.
HistoryPrediction(v, a, cmds, delay) ==
  LET start == [vel |-> v, acc |-> a, dist2 |-> Int2Frac(0), time |-> 0, done |-> FALSE]
      s[k \in 0 .. Len(cmds)] ==
        IF k = 0 THEN start ELSE HistoryStep(v, cmds, delay, s[k - 1], k)
  IN  s[Len(cmds)]

StateAfterDelay(v, a, cmds, autonomous, delay) ==
  IF cmds = <<>> \/ ~autonomous THEN LinearPrediction(v, a, delay)
  ELSE HistoryPrediction(v, a, cmds, delay)

-----------------------------------------------------------------------------

\* p is between two whole numbers.
Within(p, lo, hi) == lo * p[2] <= p[1] /\ p[1] <= hi * p[2]

\* The PID does not wind up: after any errors the integral part is inside its
\* limits, and however long it was held at one of them, the first integrated
\* error of the other sign moves it away.
PidDoesNotWindUp(errors, outs, p) ==
  \A k \in DOMAIN errors :
    /\ Within(outs[k].i, p.minI, p.maxI)
    /\ (k > 1 /\ errors[k].integrate) =>
         LET was == outs[k - 1].i IN
         /\ (was = Int2Frac(p.maxI) /\ errors[k].e < 0) => outs[k].i # was
         /\ (was = Int2Frac(p.minI) /\ errors[k].e > 0) => outs[k].i # was

\* The time to stop is where the least-squares line crosses zero: of all lines
\* through zero at that time with a slope, shifting the line or turning it does
\* not bring it nearer to the history (the residuals are orthogonal to both).
StopTimeFits(hist, out) ==
  out.some =>
    LET n   == Len(hist)
        \* The slope k of v = k (t - T) that leaves residuals of sum zero.
        T   == out.time
        den == Less(Int2Frac(SumOver(hist, LAMBDA x : x.t)), Scale(n, T))
        k   == Over(Int2Frac(SumOver(hist, LAMBDA x : x.v)), den)
        r(x) == Less(Int2Frac(x.v), Times(k, Less(Int2Frac(x.t), T)))
    IN  /\ T[1] > 0
        /\ den[1] # 0 =>
             FoldLeft(LAMBDA s, x : Plus(s, Scale(x.t, r(x))), Int2Frac(0), hist) = Int2Frac(0)

\* The prediction over the delay never turns the vehicle around, never runs
\* longer than the delay, and a standing vehicle that brakes stays.
PredictionNeverReverses(a, out) ==
  /\ a.v * out.vel >= 0
  /\ out.time <= a.delay
  /\ (a.autonomous /\ a.cmds # <<>> /\ a.v = 0 /\ \A i \in DOMAIN a.cmds : a.cmds[i].acc <= 0) => out.vel = 0
=============================================================================
