----------------------------- MODULE Longitudinal -----------------------------
(* The PID longitudinal controller of the trajectory follower: its state      *)
(* machine DRIVE / STOPPING / STOPPED / EMERGENCY, the chain of limits every  *)
(* acceleration passes through, and the histories it keeps.  One LonRun is    *)
(* one call of PidLongitudinalController::run.                                *)
(*                                                                            *)
(* Time is relative: each call is told how long ago the previous one was, and *)
(* every stored stamp is an age that grows by that much, saturated one above  *)
(* the largest threshold it is compared with.  The feedback term, the delay   *)
(* prediction and the sensors are inputs.                                     *)
EXTENDS RoadViews

CONSTANTS
  P,                    \* the parameters, a record with the fields of DefaultParams
  EmgCap                \* lonEmg counts up to here

VARIABLES
  lonState,             \* m_control_state
  lonTraj,              \* m_trajectory: an index of Roads, 0 before the first
  lonShift,             \* m_prev_shift: 1 Forward, -1 Reverse
  lonRaw,               \* m_prev_raw_ctrl_cmd [vel, acc], without slope
  lonCmd,               \* m_prev_ctrl_cmd [vel, acc], with slope: as published
  lonKeep,              \* m_prev_keep_stopped_condition: "none", "keep", "go"
  lonRunAge,            \* now - m_last_running_time
  lonUnder,             \* m_prev_vehicle_is_under_control
  lonUnderAge,          \* now - m_under_control_starting_time, 0 when not set
  lonPid,               \* m_pid_vel: "reset", "running", "wound" (integral used)
  lonSmooth,            \* m_smooth_stop [strong acc, age of m_weak_acc_time]
  lonCmds,              \* ages of m_ctrl_cmd_vec, oldest first
  lonHist,              \* size of m_vel_hist
  lonStarted,           \* m_prev_control_time is set
  lonSync,              \* lateral_sync_data_.is_steer_converged
  lonEmg                \* calls in a row that used the emergency command

lonVars == <<lonState, lonTraj, lonShift, lonRaw, lonCmd, lonKeep, lonRunAge,
             lonUnder, lonUnderAge, lonPid, lonSmooth, lonCmds, lonHist,
             lonStarted, lonSync, lonEmg>>

ControlState == {"DRIVE", "STOPPING", "STOPPED", "EMERGENCY"}
Motion == [vel : Int, acc : Int]

(* The shipped parameters of the constructor, in cm, cm/s, cm/s^2 and ms (the *)
(* "after" profile); slope is 9.81 sin(0.1) rounded up.                       *)
DefaultParams ==
  [period |-> 150, delay |-> 170,
   smoothStop |-> TRUE, overshootEmergency |-> TRUE, trackEmergency |-> TRUE,
   slope |-> 98, keepStopped |-> TRUE,
   driveDist |-> 50, driveOffset |-> 100, stoppingDist |-> 50,
   stoppedTime |-> 100, stoppedVel |-> 1, overshootDist |-> 150,
   transDev |-> 300, rotDev |-> 1, distThr |-> 300, yawThr |-> 1,
   maxPid |-> 100, minPid |-> -100, integrateVel |-> 50, integrateTime |-> 2000,
   integrateLow |-> FALSE, brakeKeeping |-> FALSE, brakeKeepAcc |-> -20,
   maxStrong |-> -50, minStrong |-> -80, weak |-> -30, weakStop |-> -80,
   strongStop |-> -340, fastVel |-> 50, runVel |-> 1, runAcc |-> 1,
   weakTime |-> 500, weakDist |-> -30, strongDist |-> -50,
   stoppedVelCmd |-> 0, stoppedAcc |-> -340,
   emgVel |-> 0, emgAcc |-> -500, emgJerk |-> -300,
   maxAcc |-> 300, minAcc |-> -500, maxJerk |-> 200, minJerk |-> -500,
   maxAccDiff |-> 5000]

(* The parameters are numbers; 0 and the braking held in STOPPED are between  *)
(* the acceleration limits, and the rates let a command move both ways.       *)
LonParamsOK(p) ==
    /\ p.period \in Nat \ {0}
    /\ {p.delay, p.stoppedTime, p.integrateTime, p.weakTime, p.slope,
        p.maxAcc, p.maxJerk, p.maxAccDiff} \subseteq Nat
    /\ {p.minAcc, p.minJerk, p.minPid, p.maxPid, p.brakeKeepAcc,
        p.minStrong, p.maxStrong, p.weak, p.weakStop, p.strongStop,
        p.stoppedVelCmd, p.stoppedAcc, p.emgVel, p.emgAcc, p.emgJerk} \subseteq Int
    /\ p.minAcc <= 0 /\ p.minJerk <= 0
    /\ p.minAcc <= p.stoppedAcc /\ p.stoppedAcc <= p.maxAcc

ASSUME LonAssumption ==
    /\ LonParamsOK(P) /\ EmgCap \in Nat
    /\ Roads \in Seq(Seq([x : Int, yaw : Int, v : Int, a : Int]))

-----------------------------------------------------------------------------
(* Helpers of longitudinal_controller_utils.cpp and smooth_stop.cpp.          *)

(* applyDiffLimitFilter: the input, moved from prev by at most the rates. *)
applyDiffLimitFilter(input, prev, dt, hi, lo) ==
    ClampInt(input, prev + lo * dt, prev + hi * dt)

(* lerpTrajectoryPoint: the point of the nearest segment closest to the pose, *)
(* and that segment.                                                          *)
PointOnSegment(points, pose, seg) ==
    LET len   == AbsInt(points[seg + 1].x - points[seg].x)
        into  == ClampInt(calcLongitudinalOffsetToSegment(points, seg, pose.x),
                          0, len)
        at(a, b) == IF len = 0 THEN a ELSE a + ((b - a) * into) \div len
        p == points[seg]
        q == points[seg + 1]
    IN  [point |-> [x |-> at(p.x, q.x), yaw |-> p.yaw,
                    v |-> at(p.v, q.v), a |-> at(p.a, q.a)],
         seg |-> seg]

lerpTrajectoryPoint(points, pose) ==
    IF Len(points) = 1 THEN [point |-> points[1], seg |-> 1]
    ELSE PointOnSegment(points, pose,
                        findFirstNearestSegment(points, pose, P.distThr, P.yawThr))

(* findTrajectoryPoseAfterDistance: the position `dist` further along. *)
findTrajectoryPoseAfterDistance(points, src, dist) ==
    LET past == {i \in src..(Len(points) - 1) : ArcLength(points, src, i + 1) > dist}
        i    == Min(past)
        rest == dist - ArcLength(points, src, i)
    IN  IF past = {} THEN Last(points)
        ELSE [points[i] EXCEPT
                !.x = @ + SignInt(points[i + 1].x - points[i].x) * MaxInt(rest, 0)]

(* calcStopDistance: to the first point of zero velocity, else to the end. *)
calcStopDistance(points, pose) ==
    LET stop == searchZeroVelocityIndex(points)
        end  == IF stop = NoIdx THEN Len(points) ELSE stop
        seg  == findFirstNearestSegment(points, pose, P.distThr, P.yawThr)
    IN  calcSignedArcLength(points, pose.x, seg, points[end].x,
                            MinInt(end, Len(points) - 1))

(* SmoothStop::init *)
SmoothStopInit(predVel, predDist) ==
    [strong |-> IF predDist <= 0 THEN P.minStrong
                ELSE ClampInt(-((predVel * predVel) \div (2 * predDist)),
                              P.minStrong, P.maxStrong),
     weakAge |-> 0]

(* SmoothStop::calculate; tts is what calcTimeToStop fitted ("none", "soon"   *)
(* or "late": past weak_stop_time + delay).                                   *)
SmoothStopAcc(smooth, stopDist, v, acc, tts) ==
    LET running == AbsInt(v) > P.runVel \/ AbsInt(acc) > P.runAcc
    IN  CASE stopDist < P.strongDist -> P.strongStop
          [] stopDist >= P.strongDist /\ stopDist < P.weakDist -> P.weakStop
          [] stopDist >= P.weakDist /\ running
               -> IF tts = "late" \/ (tts = "none" /\ AbsInt(v) > P.fastVel)
                  THEN smooth.strong ELSE P.weak
          [] OTHER -> IF smooth.weakAge < P.weakTime THEN P.weak
                                                     ELSE P.strongStop

(* m_weak_acc_time is refreshed exactly when running yields the weak braking. *)
SmoothStopRefreshes(stopDist, v, acc, tts) ==
    /\ stopDist >= P.weakDist
    /\ AbsInt(v) > P.runVel \/ AbsInt(acc) > P.runAcc
    /\ ~(tts = "late" \/ (tts = "none" /\ AbsInt(v) > P.fastVel))

(* keepBrakeBeforeStop: from the last braking run before the stop point on,   *)
(* never less than the braking kept.                                          *)
keepBrakeBeforeStop(points, acc, idx) ==
    LET stop == searchZeroVelocityIndex(points)
        run  == {i \in 1..stop : \A j \in i..(stop - 1) : points[j].a <= points[j + 1].a}
        from == Min(run)
        hold == MaxInt(P.brakeKeepAcc, points[from].a)
    IN  IF P.brakeKeeping /\ stop # NoIdx /\ idx >= from /\ acc > hold
        THEN hold ELSE acc

-----------------------------------------------------------------------------
(* getControlData.  `in` holds the inputs of one call: the trajectory (an     *)
(* index of Roads), the view (an index of Views: pose [x, yaw], lateral       *)
(* offset y, distance predicted over the delay), velocity, measured           *)
(* acceleration, operation mode, elapsed time, predicted velocity, feedback   *)
(* output, slope and fitted stopping time.                                    *)

(* isValidTrajectory, setTrajectory: an invalid trajectory, or one of a       *)
(* single point, leaves the previous one in force.                            *)
setTrajectory(in) ==
    IF in.valid /\ Len(Roads[in.traj]) >= 2 THEN in.traj ELSE lonTraj

(* getDt: the elapsed time within [period/2, 2 period]; the period at first. *)
getDt(in) ==
    IF lonStarted THEN ClampInt(in.elapsed, P.period \div 2, 2 * P.period)
                  ELSE P.period

(* What run reads off the points: at the target and at the nearest one. *)
DataAt(pts, target, nearest) ==
    [far |-> FALSE, pts |-> pts, targetIdx |-> target,
     targetVel |-> pts[target].v, targetAcc |-> pts[target].a,
     nearestVel |-> AbsInt(nearest.v),
     stopDist |-> calcStopDistance(pts, nearest)]

Search(pts, target, near) ==
    LET idx(p) == findFirstNearestIndex(pts, p, P.distThr, P.yawThr)
    IN  DataAt(pts, idx(target), pts[idx(near)])

(* The pose after the running distance is inserted too, if it is ahead. *)
WithTarget(pts, target, near) ==
    Search(removeOverlapPoints(InsertAt(pts, target.seg + 1, target.point), 1),
           target.point, near.point)

Ahead(pts, near, dist) ==
    IF dist > 0
    THEN WithTarget(pts,
                    lerpTrajectoryPoint(pts, findTrajectoryPoseAfterDistance(
                                               pts, MinInt(near.seg + 1, Len(pts)), dist)),
                    near)
    ELSE Search(pts, near.point, near.point)

(* The geometric part: the interpolated pose is inserted, then the pose after *)
(* the running distance, overlaps are removed and both are searched again.    *)
DataNear(traj, view, near) ==
    IF \/ AbsInt(near.point.x - view.pose.x) + view.y > P.transDev
       \/ YawDeviation(near.point.yaw, view.pose.yaw) > P.rotDev
    THEN [far |-> TRUE]
    ELSE Ahead(removeOverlapPoints(InsertAt(traj, near.seg + 1, near.point), 1),
               near, view.runDist)

getControlData(traj, view) == DataNear(traj, view, lerpTrajectoryPoint(traj, view.pose))

ControlData ==
    [w \in DOMAIN Views |-> [r \in DOMAIN Roads |-> getControlData(Roads[r], Views[w])]]

(* The geometry of a view of a road yields numbers and a sequence of points.  *)
ASSUME GeometryAssumption ==
    \A w \in DOMAIN Views, r \in DOMAIN Roads :
      LET c == ControlData[w][r]
      IN  ~c.far => /\ c.pts \in Seq([x : Int, yaw : Int, v : Int, a : Int])
                    /\ {c.targetVel, c.targetAcc, c.nearestVel, c.stopDist} \subseteq Int

(* is_far_from_trajectory, also without any trajectory *)
isFar(in) ==
    IF setTrajectory(in) = 0 THEN TRUE
    ELSE ControlData[in.view][setTrajectory(in)].far

(* Mutant of getCurrentShift: no gear at a stop point. *)
ShiftOfVelocity(c) == SignInt(c.targetVel)

(* getCurrentShift: the sign of the target velocity, else the previous one. *)
getCurrentShift(c) == IF c.targetVel = 0 THEN lonShift ELSE SignInt(c.targetVel)

-----------------------------------------------------------------------------
(* updateControlState                                                         *)

(* Mutant of isUnderControl: a standing vehicle counts as manually driven. *)
AutonomousOnlyMoving(in) == in.under /\ in.v # 0

isUnderControl(in) == in.under

(* Standing, or rolling against the gear. *)
isNotRunning(c, in) ==
    AbsInt(in.v) < P.stoppedVel \/ in.v * getCurrentShift(c) < 0

(* Mutant of RunAge: m_last_running_time is not refreshed. *)
RunTimeForgotten(c, in) == MinInt(lonRunAge + in.elapsed, P.stoppedTime + 1)

RunAge(c, in) ==
    IF isNotRunning(c, in) THEN MinInt(lonRunAge + in.elapsed, P.stoppedTime + 1)
                           ELSE 0

StoppedCondition(c, in) == RunAge(c, in) > P.stoppedTime

EmergencyCondition(c) ==
    P.overshootEmergency /\ c.stopDist < -P.overshootDist /\ c.nearestVel = 0

DepartureFromStopped(c) == c.stopDist > P.driveDist
DepartureFromStopping(c) == c.stopDist > P.driveDist + P.driveOffset

(* Dry steering: at a standstill, wait for the lateral controller. *)
CurrentKeep(in) == in.v = 0 /\ ~lonSync
(* Mutant of KeepStopped: only the condition of the cycle before counts. *)
KeptBefore(in) == lonKeep # "go"

KeepStopped(in) == lonKeep = "none" \/ CurrentKeep(in) \/ lonKeep = "keep"

(* changeControlState, for each state in the order of the early returns. *)
NextControlState(c, in) ==
    LET under == isUnderControl(in)
        stopped == StoppedCondition(c, in)
    IN  CASE lonState = "DRIVE" ->
               IF EmergencyCondition(c) THEN "EMERGENCY"
               ELSE IF ~under /\ stopped THEN "STOPPED"
               ELSE IF P.smoothStop /\ c.stopDist < P.stoppingDist THEN "STOPPING"
               ELSE IF ~P.smoothStop /\ stopped /\ ~DepartureFromStopped(c)
                    THEN "STOPPED" ELSE "DRIVE"
          [] lonState = "STOPPING" ->
               IF EmergencyCondition(c) THEN "EMERGENCY"
               ELSE IF stopped THEN "STOPPED"
               ELSE IF DepartureFromStopping(c) THEN "DRIVE" ELSE "STOPPING"
          [] lonState = "STOPPED" ->
               IF DepartureFromStopped(c) /\ ~(P.keepStopped /\ KeepStopped(in))
               THEN "DRIVE" ELSE "STOPPED"
          [] lonState = "EMERGENCY" ->
               IF stopped THEN "STOPPED"
               ELSE IF ~EmergencyCondition(c) /\ ~under THEN "DRIVE"
               ELSE "EMERGENCY"

(* Mutant of NextKeep: recorded only while steering. *)
RecordsOnlyKeep(c, in) ==
    IF lonState = "STOPPED" /\ CurrentKeep(in) THEN "keep" ELSE lonKeep

(* m_prev_keep_stopped_condition: forgotten outside STOPPED, recorded when    *)
(* departure is possible, otherwise left as it was.                           *)
NextKeep(c, in) ==
    IF lonState # "STOPPED" THEN "none"
    ELSE IF ~DepartureFromStopped(c) THEN lonKeep
    ELSE IF CurrentKeep(in) THEN "keep" ELSE "go"

Departs(to) == to = "DRIVE" /\ lonState \in {"STOPPED", "STOPPING"}
StartsSmoothStop(to) == lonState = "DRIVE" /\ to = "STOPPING"

UpdateControlState(c, in) ==
    /\ lonState' = NextControlState(c, in)
    /\ lonKeep' = NextKeep(c, in)
    /\ lonRunAge' = RunAge(c, in)
    /\ lonUnder' = isUnderControl(in)
    /\ lonUnderAge' = IF lonUnder /\ isUnderControl(in)
                      THEN MinInt(lonUnderAge + in.elapsed, P.integrateTime + 1)
                      ELSE 0

-----------------------------------------------------------------------------
(* calcCtrlCmd                                                                *)

(* Mutant of calcEmergencyCtrlCmd: the jerk limits without std::abs. *)
EmergencyRampUp(dt) ==
    [vel |-> P.emgVel,
     acc |-> applyDiffLimitFilter(P.emgAcc, lonRaw.acc, dt, P.emgJerk, -P.emgJerk)]

(* calcEmergencyCtrlCmd *)
calcEmergencyCtrlCmd(dt) ==
    [vel |-> applyDiffLimitFilter(P.emgVel, lonRaw.vel, dt,
                                  AbsInt(P.emgAcc), -AbsInt(P.emgAcc)),
     acc |-> applyDiffLimitFilter(ClampInt(P.emgAcc, P.minAcc, P.maxAcc),
                                  lonRaw.acc, dt,
                                  AbsInt(P.emgJerk), -AbsInt(P.emgJerk))]

(* The integrator runs only under control, and only moving (or stuck). *)
IntegrationEnabled(in) ==
    /\ isUnderControl(in)
    /\ \/ AbsInt(in.v) > P.integrateVel
       \/ P.integrateLow /\ lonUnderAge' > P.integrateTime

(* applyVelocityFeedback: feedforward scaled into [1/2, 2] plus the PID       *)
(* output, an input here, within its limits.                                  *)
applyVelocityFeedback(c, in) ==
    LET speed == AbsInt(in.v)
        want  == MaxInt(AbsInt(c.targetVel), 1)
        ff == IF 2 * speed <= want THEN c.targetAcc \div 2
              ELSE IF speed >= 2 * want THEN 2 * c.targetAcc
              ELSE (c.targetAcc * speed) \div want
    IN  ff + ClampInt(in.pid, P.minPid, P.maxPid)

(* The command of DRIVE and STOPPING before the acceleration feedback. *)
LimitedAcc(acc, dt) ==
    applyDiffLimitFilter(ClampInt(acc, P.minAcc, P.maxAcc), lonRaw.acc, dt,
                         P.maxJerk, P.minJerk)

SmoothAfterUpdate(c, in, to) ==
    IF StartsSmoothStop(to)
    THEN SmoothStopInit(in.predVel,
                        c.stopDist - ((in.predVel + in.v) * P.delay) \div 2)
    ELSE [lonSmooth EXCEPT !.weakAge = MinInt(@ + in.elapsed, P.weakTime)]

RawCommand(c, in, to) ==
    LET dt == getDt(in)
    IN  CASE to = "STOPPED" -> [vel |-> 0, acc |-> 0]
          [] to = "EMERGENCY" -> calcEmergencyCtrlCmd(dt)
          [] to = "DRIVE" ->
               [vel |-> c.targetVel,
                acc |-> LimitedAcc(keepBrakeBeforeStop(
                          c.pts, applyVelocityFeedback(c, in), c.targetIdx), dt)]
          [] to = "STOPPING" ->
               [vel |-> P.stoppedVelCmd,
                acc |-> LimitedAcc(SmoothStopAcc(SmoothAfterUpdate(c, in, to),
                          c.stopDist, in.v, in.acc, in.tts), dt)]

(* Mutant of applySlopeCompensation: the pitch is not limited. *)
SlopeWithoutLimit(acc, in, shift) == acc + shift * in.slope

(* applySlopeCompensation, on the acceleration after its feedback. *)
applySlopeCompensation(acc, in, shift) ==
    acc + shift * ClampInt(in.slope, -P.slope, P.slope)

(* The published command: held brake when STOPPED, else the raw command with  *)
(* slope, moved from the previous published one within the last rate limit.   *)
(* Departing from STOPPING forgets the braking of the previous command.       *)
FinalCommand(c, in, to) ==
    LET raw  == RawCommand(c, in, to)
        prev == IF to = "DRIVE" /\ lonState = "STOPPING"
                THEN MaxInt(0, lonRaw.acc) ELSE lonCmd.acc
        want == IF to = "STOPPED" THEN P.stoppedAcc
                ELSE applySlopeCompensation(raw.acc, in, getCurrentShift(c))
    IN  [vel |-> IF to = "STOPPED" THEN P.stoppedVelCmd ELSE raw.vel,
         acc |-> applyDiffLimitFilter(want, prev, getDt(in),
                                      P.maxAccDiff, -P.maxAccDiff)]

(* Mutant of storeAccelCmd: expired commands stay. *)
StoresForEver(ages, to) == IF to = "DRIVE" THEN Append(ages, 0) ELSE <<>>

(* storeAccelCmd: one command per DRIVE call; at most one expired entry goes. *)
storeAccelCmd(ages, to) ==
    LET pushed == IF to = "DRIVE" THEN Append(ages, 0) ELSE <<>>
    IN  IF Len(pushed) > 2 /\ pushed[2] > P.delay THEN Tail(pushed) ELSE pushed

Aged(in) == [i \in DOMAIN lonCmds |-> MinInt(lonCmds[i] + in.elapsed, P.delay + 1)]

(* The PID is reset by a gear change and by a departure, then used in DRIVE. *)
NextPid(c, in, to) ==
    LET kept == IF getCurrentShift(c) # lonShift \/ Departs(to) THEN "reset"
                ELSE lonPid
    IN  IF to # "DRIVE" THEN kept
        ELSE IF IntegrationEnabled(in) \/ kept = "wound" THEN "wound"
        ELSE "running"

(* createCtrlCmdMsg keeps the last delay / period velocities. *)
NextHist == MinInt(lonHist + 1, P.delay \div P.period)

-----------------------------------------------------------------------------
(* run                                                                        *)

(* The vehicle is far from the trajectory, or there is none: the emergency    *)
(* command goes out at once and the state machine is not consulted.           *)
LonFar(in) ==
    LET raw == calcEmergencyCtrlCmd(getDt(in))
    IN  /\ isFar(in)
        /\ lonTraj' = setTrajectory(in)
        /\ lonState' = IF P.trackEmergency THEN "EMERGENCY" ELSE lonState
        /\ lonRaw' = raw
        /\ lonCmd' = raw
        /\ lonHist' = NextHist
        /\ lonStarted' = TRUE
        /\ lonRunAge' = MinInt(lonRunAge + in.elapsed, P.stoppedTime + 1)
        /\ lonUnderAge' = IF lonUnder
                          THEN MinInt(lonUnderAge + in.elapsed, P.integrateTime + 1)
                          ELSE 0
        /\ lonSmooth' = [lonSmooth EXCEPT
                           !.weakAge = MinInt(@ + in.elapsed, P.weakTime)]
        /\ lonCmds' = Aged(in)
        /\ lonEmg' = MinInt(lonEmg + 1, EmgCap)
        /\ UNCHANGED <<lonShift, lonKeep, lonUnder, lonPid>>

(* On the trajectory: state machine, command, histories. *)
LonMove(c, in, to) ==
    /\ lonTraj' = setTrajectory(in)
    /\ UpdateControlState(c, in)
    /\ lonShift' = getCurrentShift(c)
    /\ lonRaw' = RawCommand(c, in, to)
    /\ lonCmd' = FinalCommand(c, in, to)
    /\ lonSmooth' = IF to = "STOPPING"
                         /\ SmoothStopRefreshes(c.stopDist, in.v, in.acc, in.tts)
                    THEN [SmoothAfterUpdate(c, in, to) EXCEPT !.weakAge = 0]
                    ELSE SmoothAfterUpdate(c, in, to)
    /\ lonPid' = NextPid(c, in, to)
    /\ lonCmds' = storeAccelCmd(Aged(in), to)
    /\ lonHist' = NextHist
    /\ lonStarted' = TRUE
    /\ lonEmg' = IF to = "EMERGENCY" THEN MinInt(lonEmg + 1, EmgCap) ELSE 0

LonDecide(c, in) == LonMove(c, in, NextControlState(c, in))

LonNear(in) == ~isFar(in) /\ LonDecide(ControlData[in.view][setTrajectory(in)], in)

LonRun(in) == LonFar(in) \/ LonNear(in)

(* isReady *)
LonIsReady(in) == Len(Roads[in.traj]) >= 2

LonInit ==
    /\ lonState = "STOPPED" /\ lonTraj = 0 /\ lonShift = 1
    /\ lonRaw = [vel |-> 0, acc |-> 0] /\ lonCmd = [vel |-> 0, acc |-> 0]
    /\ lonKeep = "none" /\ lonRunAge = 0 /\ lonUnder = FALSE /\ lonUnderAge = 0
    /\ lonPid = "reset" /\ lonSmooth = [strong |-> 0, weakAge |-> 0]
    /\ lonCmds = <<>> /\ lonHist = 0 /\ lonStarted = FALSE
    /\ lonSync = FALSE /\ lonEmg = 0
=============================================================================
