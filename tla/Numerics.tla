------------------------------ MODULE Numerics ------------------------------
(***************************************************************************)
(* The pure algorithms, each called with any argument of a set; the sets   *)
(* are constants, so that what holds of the calls holds for every argument *)
(* the assumptions admit.  The runs of an algorithm over a sequence of     *)
(* calls (the PID's errors, the predictor's commands) are functions.       *)
(***************************************************************************)
EXTENDS VpReference, MpcReference, MpcMatrices, LonPrediction

CONSTANTS References, LerpArgs, SplineArgs, ResampleArgs, CycleArgs, SmoothArgs, SteerArgs,
          MatrixArgs, LimitArgs, FilterArgs, PidArgs, StopArgs, DelayArgs, CscArgs,
          CurvatureLimits, \* a table of steering rate limits by curvature ...
          SpeedLimits, \* ... and one by speed
          PidParams,   \* the gains and limits of the PID
          MatrixInputs, \* input sequences, by their length
          RateInputs   \* input sequences of the rate constraints

\* References as VisionPilot sends them: a metre of x is at least a metre of
\* path, and the path, a polynomial, is known for as many metres as the follower
\* can use.  The unit of length is fine enough for equal pieces of a segment.
ASSUME ReferenceAssumption ==
  \A r \in References :
    /\ {r.valid, r.stamped, r.pathValid, r.finite, r.stepped} \subseteq BOOLEAN
    /\ r.xMax \in Int /\ r.gap \in Nat /\ r.horizon \in Seq(Int)
    /\ r.shape \in Seq(Nat) /\ Len(r.shape) >= kExtentCap \div kPathSpacing
    /\ \A i \in DOMAIN r.shape :
         /\ r.shape[i] >= kPathSpacing
         /\ r.shape[i] % CeilDiv(r.shape[i], kResampleStep) = 0

\* What lerp is called with: sequences of keys and values of any length.
ASSUME LerpAssumption ==
  \A a \in LerpArgs : a.base \in Seq(Int) /\ a.values \in Seq(Int) /\ a.query \in Seq(Int)

\* The arc lengths of a reference start at zero; `eps' is the smallest length.
ASSUME ResampleAssumption ==
  \A a \in ResampleArgs :
    /\ a.arcs \in Seq(Int) /\ Len(a.arcs) >= 2 /\ a.arcs[1] = 0
    /\ a.ego \in Int /\ a.interval \in Nat \ {0} /\ a.eps = 1

\* A reference of any length, shape and speeds; the input delay and the horizon
\* at its shortest step together last no longer than the extra time behind the
\* end (100 s, where the parameters make it a few seconds).
ASSUME CycleAssumption ==
  \A a \in CycleArgs :
    /\ a.steps \in Seq(Nat) /\ a.vx \in Seq(Int) /\ Len(a.vx) > Len(a.steps)
    /\ a.ego \in Int /\ a.horizon \in Nat /\ a.horizon >= 2
    /\ a.dt \in Nat /\ a.buffer \in Nat /\ a.period \in Nat /\ a.minLength \in Nat
    /\ a.buffer * a.period + a.dt * (a.horizon - 1) <= kExtraTime

\* Commands at moments that follow one another.
ASSUME SteerAssumption ==
  \A a \in SteerArgs :
    /\ a.calls \in Seq(Int) /\ a.calls # <<>> /\ IsIncreasing(a.calls)
    /\ a.delay \in Nat /\ a.store \in Nat /\ a.tStart \in Int /\ a.gap \in Nat

\* Any sequence of errors; the integral limits enclose zero.
ASSUME PidAssumption ==
  /\ \A a \in PidArgs : a \in Seq([e : Int, integrate : BOOLEAN, dt : Nat \ {0}])
  /\ PidParams.ki \in Nat \ {0} /\ PidParams.minI \in Int /\ PidParams.maxI \in Int
  /\ PidParams.minI <= 0 /\ 0 <= PidParams.maxI /\ PidParams.minI < PidParams.maxI

\* A history of commands, oldest first.
ASSUME DelayAssumption ==
  \A a \in DelayArgs :
    /\ a.v \in Int /\ a.a \in Int /\ a.delay \in Nat /\ a.autonomous \in BOOLEAN
    /\ a.cmds \in Seq([age : Nat, acc : Int])
    /\ \A i \in 1 .. Len(a.cmds) - 1 : a.cmds[i].age > a.cmds[i + 1].age

\* Speeds along a trajectory from the first segment on.
ASSUME FilterAssumption ==
  \A a \in FilterArgs :
    /\ a.seg \in Nat \ {0} /\ a.start \in Int /\ a.acc \in Nat /\ a.tau \in Nat
    /\ a.steps \in Seq(Nat) /\ a.vx \in Seq(Int) /\ Len(a.vx) <= Len(a.steps) + 1

\* The tables are sorted; the inputs are those of a horizon.
ASSUME LimitAssumption ==
  /\ \A map \in {CurvatureLimits, SpeedLimits} :
       /\ map \in Seq([at : Int, limit : Nat]) /\ Len(map) >= 1
       /\ \A i \in 1 .. Len(map) - 1 : map[i].at < map[i + 1].at
  /\ \A a \in LimitArgs :
       /\ a.ks \in Seq(Int) /\ a.vs \in Seq(Int) /\ Len(a.vs) = Len(a.ks)
       /\ a.stopped \in BOOLEAN /\ a.prev \in Int
       /\ \A u \in RateInputs : u \in [1 .. Len(a.ks) -> [1 .. 1 -> Int]]

VARIABLE call   \* the name of the algorithm, its argument and what it returned

fn == call[1]

arg == call[2]

ret == call[3]

Idle == call = <<"idle", <<>>, <<>>>>

CallConvert == \E r \in References : call' = <<"convert", r, Convert(r)>>

CallLerp == \E a \in LerpArgs : call' = <<"lerp", a, Lerp(a.base, a.values, a.query)>>

CallSpline ==
  \E a \in SplineArgs :
    call' = <<"spline", a,
              [spline |-> SplineCoefficients(a.x, a.y), akima |-> AkimaCoefficients(a.x, a.y)]>>

CallResample ==
  \E a \in ResampleArgs :
    call' = <<"resample", a, ResampleKeys(a.arcs, a.ego, a.interval, a.eps)>>

CallCycle == \E a \in CycleArgs : call' = <<"cycle", a, CycleKeys(a.steps, a.vx, a.ego, a)>>

CallSmooth ==
  \E a \in SmoothArgs : call' = <<"smooth", a, MovingAverage(a.num, a.u)>>

\* The history of the predictor after each of its commands.
KeptAfter(a) ==
  LET kept[k \in 0 .. Len(a.calls)] ==
        IF k = 0 THEN <<>> ELSE StoreSteerCmd(kept[k - 1], a.calls[k], a.delay, a.store)
  IN  kept

CallSteer ==
  \E a \in SteerArgs :
    LET kept == KeptAfter(a)[Len(a.calls)]
    IN  call' = <<"steer", a,
                  [kept |-> kept, stretches |-> SteerStretches(kept, a.tStart, a.tStart + a.gap)]>>

Weights(dt, cp) ==
  [rate |-> dt * dt * cp * cp, acc |-> 2 * dt * dt * dt * dt * cp * cp * cp * cp]

CallMatrix ==
  \E a \in MatrixArgs :
    call' = <<"matrix", a, GenerateMPCMatrix(a.steps, Weights(a.dt, a.cp), a.dt, a.cp)>>

CallLimits ==
  \E a \in LimitArgs :
    LET limits == SteerRateLimits(CurvatureLimits, SpeedLimits, a.ks, a.vs, a.stopped)
    IN  call' = <<"limits", a,
                  [limits |-> limits, c |-> RateConstraints(limits, a.prev, 2, 1)]>>

CallFilter ==
  \E a \in FilterArgs :
    call' = <<"filter", a,
              DynamicSmoothingVelocity(a.seg, a.start, a.steps, a.vx, a.acc, a.tau)>>

\* What the PID answers to each of a sequence of errors, from its reset on.
PidRun(errors) ==
  LET out[k \in 1 .. Len(errors)] ==
        PidCalculate(IF k = 1 THEN PidReset ELSE out[k - 1].state,
                     errors[k].e, errors[k].dt, errors[k].integrate, PidParams)
  IN  out

CallPid == \E a \in PidArgs : call' = <<"pid", a, PidRun(a)>>

CallStop == \E a \in StopArgs : call' = <<"stop", a, TimeToStop(a)>>

CallDelay ==
  \E a \in DelayArgs :
    call' = <<"delay", a, StateAfterDelay(a.v, a.a, a.cmds, a.autonomous, a.delay)>>

CallCsc ==
  \E a \in CscArgs :
    call' = <<"csc", a,
              [full |-> CalCSCMatrix(a),
               upper |-> IF Rows(a) = Cols(a) THEN CalCSCMatrixTrapezoidal(a) ELSE CalCSCMatrix(a)]>>

Return == call' = <<"idle", <<>>, <<>>>>

NumericsNext ==
  \/ fn = "idle" /\ CallConvert
  \/ fn = "idle" /\ CallLerp
  \/ fn = "idle" /\ CallSpline
  \/ fn = "idle" /\ CallResample
  \/ fn = "idle" /\ CallCycle
  \/ fn = "idle" /\ CallSmooth
  \/ fn = "idle" /\ CallSteer
  \/ fn = "idle" /\ CallMatrix
  \/ fn = "idle" /\ CallLimits
  \/ fn = "idle" /\ CallFilter
  \/ fn = "idle" /\ CallPid
  \/ fn = "idle" /\ CallStop
  \/ fn = "idle" /\ CallDelay
  \/ fn = "idle" /\ CallCsc
  \/ fn # "idle" /\ Return

NumericsSpec == Idle /\ [][NumericsNext]_call

-----------------------------------------------------------------------------

\* vp_reference.hpp: an accepted reference is a trajectory the follower can run
\* (ReferenceRunnable), within its budget of points and without a repeated key.
ConvertedRunnable == fn = "convert" => ReferenceRunnable(arg, ret)

\* vp_reference.hpp: the near field survives the point budget.
ConvertedNear == fn = "convert" => NearFieldKept(arg, ret)

\* vp_reference.hpp: the speeds of the points say what the schedule says; a
\* schedule that ends standing is never transcribed into one that moves on.
ConvertedSchedule == fn = "convert" => ScheduleTranscribed(arg, ret)

\* linear_interpolation.cpp: what lerp answers, and the only queries it throws on.
LerpBetweenNeighbours == fn = "lerp" => LerpInside(arg.base, arg.values, arg.query, ret)

\* spline_interpolation.cpp: the coefficients of both interpolators join.
SplineJoins == fn = "spline" => SplineIsSmooth(arg.x, ret.spline, ret.akima, arg.y)

\* mpc_utils.cpp: the keys of the resampling by distance are accepted and dense.
ResampledKeysAccepted == fn = "resample" => ResampleKeysValid(arg, ret)

\* mpc.cpp: no interpolation of a cycle leaves the reference.
HorizonInsideReference == fn = "cycle" => CycleStaysInside(ret)

\* lowpass_filter.cpp and mpc_utils.cpp: filters and curvatures stay centred.
FilterKeepsLines == fn = "smooth" => SmoothingStaysCentred(arg, ret)

\* steering_predictor.cpp: the response sums over the whole interval, once.
PredictorCoversInterval ==
  fn = "steer" =>
    StretchesPartition([stamps |-> ret.kept, tStart |-> arg.tStart, tEnd |-> arg.tStart + arg.gap],
                       ret.stretches)

\* steering_predictor.cpp: the pruning of the history forgets no command that
\* was in force within the window.
PredictorRemembersWindow ==
  fn = "steer" =>
    PredictorRemembers([i \in DOMAIN arg.calls |-> arg.calls[i] + arg.delay], ret.kept,
                       Last(arg.calls), arg.store)

\* mpc.cpp, generateMPCMatrix: the batch matrices predict what the steps give.
BatchPredicts == fn = "matrix" => BatchPredictsSteps(arg, ret, MatrixInputs[Len(arg.steps)])

\* mpc.cpp, executeOptimization: the solver minimises the documented cost.
CostIsStated == fn = "matrix" => SolverMinimisesCost(arg, ret, MatrixInputs[Len(arg.steps)])

\* mpc.cpp, addSteerWeightR: the weights penalise steering rate and acceleration.
SteerWeightIsRate ==
  fn = "matrix" =>
    SteerWeightsAreSquares(Len(arg.steps), Weights(arg.dt, arg.cp), arg.dt, arg.cp,
                           MatrixInputs[Len(arg.steps)])

\* mpc.cpp: the constraints keep the limits of the curvature and speed maps.
ConstraintRowsAreRates ==
  fn = "limits" =>
    ConstraintsAreRates(ret.c, CurvatureLimits, SpeedLimits, arg, 2, 1, RateInputs)

\* mpc_utils.cpp, dynamicSmoothingVelocity: the filtered speeds lag behind the
\* reference and never overshoot it.
FilteredSpeedsFollow == fn = "filter" => FilterFollowsReference(arg, ret)

\* pid.cpp: the integral part is limited and leaves its limit at once.
IntegralUnwinds ==
  fn = "pid" => PidDoesNotWindUp(arg, ret, PidParams)

\* smooth_stop.cpp: the predicted time to stop is that of the fitted line.
StopTimeIsFitted == fn = "stop" => StopTimeFits(arg, ret)

\* pid_longitudinal_controller.cpp: the state after the delay never reverses.
DelayNeverReverses == fn = "delay" => PredictionNeverReverses(arg, ret)

\* csc_matrix_conv.cpp: the sparse forms read back as the matrix.
SparseReadsBack ==
  fn = "csc" => /\ CscIsFaithful(arg, ret.full, FALSE)
                /\ Rows(arg) = Cols(arg) => CscIsFaithful(arg, ret.upper, TRUE)

\* The reference VisionPilot sent arrives whole at the follower.
ConversionFaithful == ConvertedRunnable /\ ConvertedNear /\ ConvertedSchedule

\* No interpolation or resampling leaves the data it was given.
KeysInside == LerpBetweenNeighbours /\ ResampledKeysAccepted /\ HorizonInsideReference

\* What a follower predicts fits what it was told.
PredictionsFit ==
  PredictorCoversInterval /\ PredictorRemembersWindow /\ IntegralUnwinds /\ DelayNeverReverses

\* The limits of speed and steering are kept: the filtered speeds follow within
\* the limit, and so do all inputs that satisfy the solver's constraint rows.
LimitsKept == FilteredSpeedsFollow /\ ConstraintRowsAreRates

\* What a follower computes ahead of its command fits what it was told and the
\* limits it was given.
PredictionsAndLimits == PredictionsFit /\ LimitsKept

\* What is fitted and optimised is what is meant: the splines and the line of
\* the time to stop fit their points, the filters keep what is straight, and the
\* solver gets the quadratic program of the documented cost.
OptimisationStated ==
  /\ SplineJoins /\ StopTimeIsFitted /\ FilterKeepsLines
  /\ BatchPredicts /\ CostIsStated /\ SteerWeightIsRate /\ SparseReadsBack
=============================================================================
