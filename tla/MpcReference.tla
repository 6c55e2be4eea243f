---------------------------- MODULE MpcReference ----------------------------
(***************************************************************************)
(* The reference of the MPC: mpc_utils.cpp, mpc_trajectory.cpp, the moving *)
(* average of lowpass_filter.cpp, the time base of MPC::calculateMPC and   *)
(* the input history of the steering predictor.  A trajectory is a path on *)
(* a line: the distances between its points in decimetres and its speeds   *)
(* in dm/s; times are in hundredths of a second.  What the velocity filter *)
(* makes of the speeds is left open.                                       *)
(***************************************************************************)
EXTENDS Integers, Sequences, SequencesExt, Interpolation

\* The extra time behind the end of a reference (100 s), and the positive step
\* that keeps two points apart in time.
kExtraTime == 10000

kMinDt == 1

Larger(a, b) == IF a < b THEN b ELSE a

Smaller(a, b) == IF a < b THEN a ELSE b

\* calcMPCTrajectoryArcLength.
PathArcs(steps) ==
  LET arc[i \in 1 .. Len(steps) + 1] == IF i = 1 THEN 0 ELSE arc[i - 1] + steps[i - 1]
  IN  arc

\* calcMPCTrajectoryTime: below 0.1 m/s the speed counts as 0.1 m/s.
StepTime(steps, vx, i) == Larger((100 * steps[i]) \div Larger(Abs(vx[i]), 1), kMinDt)

TrajectoryTime(steps, vx) ==
  LET t[i \in 1 .. Len(steps) + 1] == IF i = 1 THEN 0 ELSE t[i - 1] + StepTime(steps, vx, i - 1)
  IN  t

\* Mutant: the ego is not kept in front of the end.
ResampleKeysLoose(arcs, ego, interval, eps) ==
  LET end   == Last(arcs)
      start == Larger(ego, 0)
      back  == [i \in 1 .. start \div interval + 1 |->
                  start - (start \div interval + 1 - i) * interval]
      first == start + interval
      ahead == IF first >= end THEN <<>>
               ELSE [i \in 1 .. (end - 1 - first) \div interval + 1 |-> first + (i - 1) * interval]
  IN  back \o ahead

\* The keys of resampleMPCTrajectoryByDistance: backwards and forwards from the
\* ego, which stays in front of the end by `eps'.
ResampleKeys(arcs, ego, interval, eps) ==
  LET end   == Last(arcs)
      start == Smaller(Larger(ego, 0), end - eps)
      back  == [i \in 1 .. start \div interval + 1 |->
                  start - (start \div interval + 1 - i) * interval]
      first == Larger(ego, 0) + interval
      ahead == IF first >= end THEN <<>>
               ELSE [i \in 1 .. (end - 1 - first) \div interval + 1 |-> first + (i - 1) * interval]
  IN  back \o ahead

\* calcTrajectoryCurvature: the centre of the three points a point's curvature
\* is taken from, and their distance in points.
SmoothingNum(n, num) == Smaller(num, (n - 1) \div 2)

CurvatureCentre(n, num, i) ==
  LET l == SmoothingNum(n, num)
  IN  IF i <= l THEN l + 1 ELSE IF i > n - l THEN n - l ELSE i

\* The sum of u over lo .. hi.
WindowSum(u, lo, hi) ==
  LET s[j \in lo - 1 .. hi] == IF j = lo - 1 THEN 0 ELSE s[j - 1] + u[j]
  IN  s[hi]

\* Mutant: at the ends the window is cut off on one side only.
MovingAverageCut(num, u) ==
  LET n == Len(u)
      lo(i) == Larger(i - num, 1)
      hi(i) == Smaller(i + num, n)
  IN  IF n < num THEN [ok |-> FALSE, u |-> [i \in 1 .. n |-> Int2Frac(u[i])]]
      ELSE [ok |-> TRUE,
            u |-> [i \in 1 .. n |-> Frac(WindowSum(u, lo(i), hi(i)), hi(i) - lo(i) + 1)]]

\* MoveAverageFilter::filt_vector: a window that shrinks towards both ends so
\* that it stays centred; FALSE leaves the sequence alone.
MovingAverage(num, u) ==
  LET n == Len(u)
      half(i) == IF i - 1 - num < 0 \/ i + num > n THEN Smaller(i - 1, n - i) ELSE num
  IN  IF n < num THEN [ok |-> FALSE, u |-> [i \in 1 .. n |-> Int2Frac(u[i])]]
      ELSE [ok |-> TRUE,
            u |-> [i \in 1 .. n |-> Frac(WindowSum(u, i - half(i), i + half(i)), 2 * half(i) + 1)]]

\* Mutant: the acceleration is not limited.
FilteredSpeedFree(v, target, ds, acc, tau) ==
  LET dt == Over(Int2Frac(ds), AbsF(v))
  IN  IF ds = 0 THEN v
      ELSE IF v[1] = 0 THEN Int2Frac(target)
      ELSE Plus(v, Times(Over(dt, Plus(Int2Frac(tau), dt)), Less(Int2Frac(target), v)))

\* dynamicSmoothingVelocity: the speed of the vehicle on its own segment, then a
\* lag of time constant tau with limited acceleration.  At standstill the time
\* to the next point has no bound: the reference speed is taken at once.
FilteredSpeed(v, target, ds, acc, tau) ==
  LET dt   == Over(Int2Frac(ds), AbsF(v))
      step == Times(Over(dt, Plus(Int2Frac(tau), dt)), Less(Int2Frac(target), v))
      most == Scale(acc, dt)
  IN  IF ds = 0 THEN v
      ELSE IF v[1] = 0 THEN Int2Frac(target)
      ELSE IF Less(AbsF(step), most)[1] <= 0 THEN Plus(v, step)
      ELSE IF step[1] > 0 THEN Plus(v, most) ELSE Less(v, most)

DynamicSmoothingVelocity(seg, start, steps, vx, acc, tau) ==
  LET out[i \in 1 .. Len(vx)] ==
        IF i < seg THEN Int2Frac(vx[i])
        ELSE IF i <= seg + 1 THEN Int2Frac(start)
        ELSE FilteredSpeed(out[i - 1], vx[i], steps[i - 1], acc, tau)
  IN  out

-----------------------------------------------------------------------------
\* The time base of one cycle.

\* setReferenceTrajectory repeats the last point; applyVelocityDynamicsFilter
\* computes the times anew and repeats it again, with the extra time.
ReferenceSteps(steps) == steps \o <<0, 0>>

\* Mutant: no extra time behind the end.
ReferenceTimesBare(steps, vx) ==
  LET t == TrajectoryTime(steps \o <<0>>, vx) IN Append(t, Last(t) + kMinDt)

ReferenceTimes(steps, vx) ==
  LET t == TrajectoryTime(steps \o <<0>>, vx) IN Append(t, Last(t) + kExtraTime)

\* findFirstNearestIndexWithSoftConstraints on a line.
FirstNearest(arcs, ego) ==
  CHOOSE i \in DOMAIN arcs :
    /\ \A j \in DOMAIN arcs : Abs(arcs[i] - ego) <= Abs(arcs[j] - ego)
    /\ \A j \in 1 .. i - 1 : Abs(arcs[i] - ego) < Abs(arcs[j] - ego)

\* The time of calcNearestPoseInterp.  The offset on a segment of no length is
\* not a number, which is not below zero: the segment ahead is taken.
NearestTime(arcs, times, ego) ==
  LET i == FirstNearest(arcs, ego)
      n == Len(arcs)
      prev == IF i = 1 THEN 1
              ELSE IF i = n THEN n - 1
              ELSE IF arcs[i + 1] > arcs[i] /\ ego <= arcs[i] THEN i - 1 ELSE i
      seg == arcs[prev + 1] - arcs[prev]
      into == Smaller(Larger(ego - arcs[prev], 0), seg)
  IN  IF seg = 0 THEN times[i]
      ELSE times[prev] + ((times[prev + 1] - times[prev]) * into) \div seg

\* getPredictionDeltaTime, as the time the whole horizon of p.horizon points
\* spans: until p.minLength ahead of the ego, but at least p.dt per step.
PredictionSpan(arcs, times, ego, start, p) ==
  LET n == Len(arcs)
      i0 == FirstNearest(arcs, ego)
      far == {i \in i0 + 1 .. n : arcs[i] - arcs[i0] > p.minLength}
      target ==
        IF far = {} THEN times[n] - kExtraTime
        ELSE LET i == CHOOSE i \in far : \A j \in far : i <= j
                 ti == IF i = n THEN times[n] - kExtraTime ELSE times[i]
             IN  times[i - 1] + ((ti - times[i - 1]) * (p.minLength - (arcs[i - 1] - arcs[i0])))
                                  \div (arcs[i] - arcs[i - 1])
  IN  Larger(target - start, p.dt * (p.horizon - 1))

\* updateStateForDelayCompensation steps through the input buffer ...
DelayKeys(now, p) == [j \in 1 .. p.buffer |-> now + (j - 1) * p.period]

\* ... and resampleMPCTrajectoryByTime spans the horizon.
PredictKeys(start, span, p) ==
  [j \in 1 .. p.horizon |-> start + (span * (j - 1)) \div (p.horizon - 1)]

\* calculateMPC: the keys one cycle interpolates the reference at.  getData
\* refuses a reference that ends too early.
CycleKeys(steps, vx, ego, p) ==
  LET arcs  == PathArcs(ReferenceSteps(steps))
      times == ReferenceTimes(steps, vx)
      now   == NearestTime(arcs, times, ego)
      start == now + p.buffer * p.period
      span  == PredictionSpan(arcs, times, ego, start, p)
  IN  [times   |-> times,
       refused |-> now + p.buffer * p.period + p.period + p.minLength \div (p.horizon - 1) > Last(times),
       delay   |-> DelayKeys(now, p),
       predict |-> PredictKeys(start, span, p)]

-----------------------------------------------------------------------------
\* The steering predictor.

\* Mutant: the first stretch starts at its command, before the interval.
SteerStretchesEarly(stamps, tStart, tEnd) ==
  LET n     == Len(stamps)
      after == {i \in 2 .. n : stamps[i] >= tStart}
      first == CHOOSE i \in after : \A j \in after : i <= j
      stops == {i \in first .. n : \A j \in first .. i : stamps[j] < tEnd}
      last  == first + Cardinality(stops)
  IN  IF n <= 2 \/ after = {} THEN <<>>
      ELSE [k \in 1 .. last - first + 1 |->
              LET i == first + k - 1
              IN  [cmd |-> i - 1,
                   duration |-> (IF i = last THEN tEnd ELSE stamps[i]) - stamps[i - 1]]]

\* getSteerCmdSum: the stretches of time between two calls and the command that
\* acts on each; none when the stored commands all lie before the first call.
SteerStretches(stamps, tStart, tEnd) ==
  LET n     == Len(stamps)
      after == {i \in 2 .. n : stamps[i] >= tStart}
      first == CHOOSE i \in after : \A j \in after : i <= j
      stops == {i \in first .. n : \A j \in first .. i : stamps[j] < tEnd}
      last  == first + Cardinality(stops)
  IN  IF n <= 2 \/ after = {} THEN <<>>
      ELSE [k \in 1 .. last - first + 1 |->
              LET i == first + k - 1
                  from == IF k = 1 THEN tStart ELSE stamps[i - 1]
              IN  [cmd |-> i - 1, duration |-> (IF i = last THEN tEnd ELSE stamps[i]) - from]]

\* Mutant: the oldest command is judged by its own age.
StoreSteerCmdOldest(stamps, now, delay, store) ==
  LET all == Append(stamps, now + delay)
  IN  IF Len(all) > 2 /\ now + delay - all[1] > delay + store THEN Tail(all) ELSE all

\* storeSteerCmd: a new command is effective after the delay; at most one old
\* command is dropped, once the second oldest has left the window.
StoreSteerCmd(stamps, now, delay, store) ==
  LET all == Append(stamps, now + delay)
  IN  IF Len(all) > 2 /\ now + delay - all[2] > delay + store THEN Tail(all) ELSE all

-----------------------------------------------------------------------------

\* resampleMPCTrajectoryByDistance on points that are apart: lerp and spline
\* accept the keys, the ego's own place is one of them, and no hole wider than
\* the interval is left up to the end.
ResampleKeysValid(a, keys) ==
  LET end == Last(a.arcs)
  IN  IsIncreasing(a.arcs) =>
        /\ KeysAccepted(a.arcs, keys)
        /\ Lerp(a.arcs, a.arcs, keys).end = "return"
        /\ Smaller(Larger(a.ego, 0), end - a.eps) \in Range(keys)
        /\ keys[1] < a.interval /\ end - Last(keys) <= a.interval
        /\ \A i \in 1 .. Len(keys) - 1 : keys[i + 1] - keys[i] <= a.interval

\* Every interpolation of a cycle that getData admits stays inside the keys of
\* the reference, wherever the ego is and however slow the path: validateKeys
\* would otherwise end the program, which neither the catch of the delay
\* compensation nor the error path of the resampling can stop.
CycleStaysInside(out) ==
  ~out.refused =>
    /\ IsIncreasing(out.times)
    /\ KeysAccepted(out.times, out.predict)
    /\ \A j \in DOMAIN out.delay : KeysAccepted(out.times, <<out.delay[j]>>)

\* A filtered straight line is the same line (the window stays centred), and
\* the curvature of every point is taken from three points of the trajectory
\* that are apart as soon as there are three and smoothing is on.
SmoothingStaysCentred(a, out) ==
  LET n == Len(a.u)
      l == SmoothingNum(n, a.num)
  IN  /\ (\A i \in 1 .. n - 2 : a.u[i + 2] - a.u[i + 1] = a.u[i + 1] - a.u[i])
           => out.u = [i \in 1 .. n |-> Int2Frac(a.u[i])]
      /\ \A i \in 1 .. n :
           LET c == CurvatureCentre(n, a.num, i)
           IN  /\ {c - l, c, c + l} \subseteq 1 .. n
               /\ (n >= 3 /\ a.num >= 1) => Cardinality({c - l, c, c + l}) = 3

\* The velocity filter runs ahead of nothing: every speed it writes lies between
\* the speed before it and the reference, reached no faster than the limit
\* allows unless the vehicle stands; the points behind the vehicle are kept.
FilterFollowsReference(a, out) ==
  \A i \in DOMAIN out :
    IF i < a.seg THEN out[i] = Int2Frac(a.vx[i])
    ELSE i > a.seg + 1 =>
      LET was == out[i - 1]
          dv  == Less(out[i], was)
          gap == Less(Int2Frac(a.vx[i]), out[i])
      IN  /\ dv[1] * gap[1] >= 0
          /\ was[1] # 0 => Less(Times(AbsF(dv), AbsF(was)), Int2Frac(a.acc * a.steps[i - 1]))[1] <= 0

\* The stretches partition the time between two calls: the response of the
\* model sums over the whole interval and no moment counts twice.
StretchesPartition(a, out) ==
  LET sum[k \in 0 .. Len(out)] == IF k = 0 THEN 0 ELSE sum[k - 1] + out[k].duration
  IN  out # <<>> =>
        /\ \A k \in DOMAIN out : out[k].duration >= 0 /\ out[k].cmd \in 1 .. Len(a.stamps)
        /\ sum[Len(out)] = a.tEnd - a.tStart

\* The commands left after a call still name the one in force at every moment of
\* the window: what storeSteerCmd dropped was overtaken before it.
PredictorRemembers(stamps, kept, now, store) ==
  \A t \in now - store .. now :
    LET past(s) == {s[i] : i \in {j \in DOMAIN s : s[j] <= t}}
    IN  past(stamps) # {} => past(kept) # {} /\ Max(past(kept)) = Max(past(stamps))
=============================================================================
