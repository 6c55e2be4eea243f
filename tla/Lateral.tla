------------------------------- MODULE Lateral -------------------------------
(* The MPC lateral controller of the trajectory follower.  One LatRun is one  *)
(* call of MpcLateralController::run: it takes the trajectory, lets the MPC   *)
(* solve or fail, keeps the steering history that decides whether the         *)
(* steering has converged, and chooses between the solution, the previous     *)
(* command and the stop command.  Steering angles are small integers; what    *)
(* the optimisation returns is an input.  Ages and stamp differences are      *)
(* relative, as in Longitudinal.                                              *)
EXTENDS RoadViews

CONSTANT
  L                     \* the parameters, a record

ASSUME LatAssumption ==
    {L.steerLim, L.newTrajWindow, L.firstTrajWindow} \subseteq Nat \ {0}

VARIABLES
  latTraj,              \* m_current_trajectory: an index of Roads, 0 before the first
  latForward,           \* m_is_forward_shift
  latBuffer,            \* m_trajectory_buffer: [rel: newest stamp - own stamp, goal]
  latFirst,             \* m_has_received_first_trajectory
  latHistory,           \* m_mpc_steering_history: [age, steer], oldest first
  latFilled,            \* m_is_mpc_history_filled
  latPrev,              \* m_ctrl_cmd_prev.steering_tire_angle
  latPrevSet,           \* m_is_ctrl_cmd_prev_initialized
  latOut,               \* m_steer_cmd_prev: the angle last published
  latRaw,               \* <<m_raw_steer_cmd_prev, m_raw_steer_cmd_pprev>>
  latInput,             \* m_input_buffer
  latFilter,            \* m_lpf_steering_cmd: [u1, u2, y1, y2]
  latSolved,            \* m_mpc_solved_status
  latConverged          \* output.sync_data.is_steer_converged

latVars == <<latTraj, latForward, latBuffer, latFirst, latHistory,
             latFilled, latPrev, latPrevSet, latOut, latRaw, latInput,
             latFilter, latSolved, latConverged>>

(* isReady: three points or more, all finite; the vehicle model and solver of *)
(* the shipped parameters exist.                                              *)
LatIsReady(in) == Len(Roads[in.traj]) >= 3 /\ in.valid

-----------------------------------------------------------------------------
(* setTrajectory                                                              *)

(* The end of a trajectory stands for its shape. *)
Goal(in) == Last(Roads[in.traj]).x

(* Mutant of isDuplicateStamp: a repeated trajectory is buffered again. *)
EveryStampIsNew(advance) == FALSE

(* trajectory_buffer_policy::isDuplicateStamp and shouldPopFront *)
isDuplicateStamp(advance) == advance = 0

shouldPopFront(diff, duration) == diff < 0 \/ diff >= duration

(* A new stamp is pushed and the front trimmed until the window is valid;     *)
(* only the very first decision uses the longer first window.                 *)
PushTrajectory(in) ==
    LET aged == [i \in DOMAIN latBuffer |->
                   [latBuffer[i] EXCEPT !.rel = @ + in.advance]]
        all  == Append(aged, [rel |-> 0, goal |-> Goal(in)])
        window == IF latFirst THEN L.newTrajWindow ELSE L.firstTrajWindow
        keep == {i \in DOMAIN all : ~shouldPopFront(all[i].rel, window)}
    IN  IF latBuffer # <<>> /\ isDuplicateStamp(in.advance) THEN latBuffer
        ELSE SubSeq(all, Min(keep), Len(all))

(* MPC::setReferenceTrajectory: resampling, smoothing and extension keep the  *)
(* shape; the end of the reference always stops.                              *)
setReferenceTrajectory(traj) == [traj EXCEPT ![Len(traj)].v = 0]

-----------------------------------------------------------------------------
(* MPC::calculateMPC                                                          *)

(* calcNearestPoseInterp: the point of the nearest segment closest to the ego *)
PoseOnSegment(ref, seg, pose) ==
    [x |-> ClampInt(pose.x, MinInt(ref[seg].x, ref[seg + 1].x),
                            MaxInt(ref[seg].x, ref[seg + 1].x)),
     yaw |-> ref[seg].yaw]

calcNearestPoseInterp(ref, pose) ==
    PoseOnSegment(ref, findFirstNearestSegment(ref, pose, L.distThr, L.yawThr), pose)

(* getData: the position and heading errors it refuses. *)
PoseStatus(near, view) ==
    IF AbsInt(near.x - view.pose.x) + view.y > L.positionErr THEN "position"
    ELSE IF YawDeviation(near.yaw, view.pose.yaw) > L.yawErr THEN "yaw"
    ELSE "ok"

getData(traj, view) ==
    PoseStatus(calcNearestPoseInterp(setReferenceTrajectory(traj), view.pose), view)

(* What the geometry of a view of a road decides. *)
LatData ==
    [w \in DOMAIN Views |-> [r \in DOMAIN Roads |->
       [status  |-> getData(Roads[r], Views[w]),
        nearVel |-> Roads[r][findFirstNearestIndex(Roads[r], Views[w].pose,
                                                   L.distThr, L.yawThr)].v]]]

(* The reason of a failure, or "ok"; the optimisation answers with in.mpc. *)
MpcStatus(in) ==
    LET s == LatData[in.view][in.traj].status IN IF s = "ok" THEN in.mpc ELSE s

(* Butterworth2dFilter::filter with the coefficients initialize computes from *)
(* the shipped 10 Hz cut-off and 0.15 s period: tan(1.5 pi) is unbounded, so  *)
(* b = (1, 2, 1) and a = (-2, -1).                                            *)
FilterOut(f, u) == f.u2 + 2 * f.u1 + u - f.y2 - 2 * f.y1
FilterNext(f, u) == [u1 |-> u, u2 |-> f.u1, y1 |-> FilterOut(f, u), y2 |-> f.y1]

(* Mutant of Saturate: the solution is published unclamped. *)
Unsaturated(u) == u

Saturate(u) == ClampInt(u, -L.steerLim, L.steerLim)

(* setSteeringToHistory.  Erasing the first element under the iterator of a   *)
(* vector makes the loop skip every second entry: of n expired entries it     *)
(* removes (n + 1) / 2.                                                       *)
HistoryAfter(steer, elapsed) ==
    LET aged == [i \in DOMAIN latHistory |->
                   [latHistory[i] EXCEPT !.age = MinInt(@ + elapsed, L.window)]]
        all  == Append(aged, [age |-> 0, steer |-> steer])
        old  == Cardinality({i \in DOMAIN all : all[i].age >= L.window})
    IN  SubSeq(all, (old + 1) \div 2 + 1, Len(all))

AgedHistory(elapsed) ==
    [i \in DOMAIN latHistory |->
       [latHistory[i] EXCEPT !.age = MinInt(@ + elapsed, L.window)]]

(* isMpcConverged, on the history as this call leaves it *)
isMpcConverged(history, filled) ==
    /\ Len(history) >= 2 /\ filled
    /\ LET angles == {history[i].steer : i \in DOMAIN history}
       IN  Max(angles) - Min(angles) < L.mpcConverged

(* isTrajectoryShapeChanged, isSteerConverged *)
isTrajectoryShapeChanged(buffer, goal) ==
    \E i \in DOMAIN buffer : AbsInt(buffer[i].goal - goal) > L.newTrajEnd

isSteerConverged(cmd, buffer, in) ==
    /\ ~isTrajectoryShapeChanged(buffer, Goal(in))
    /\ AbsInt(cmd - in.steer) < L.steerConverged

(* isStoppedState: standing where the trajectory stands, unless steering is   *)
(* still to be finished.                                                      *)
isStoppedState(prev, buffer, in) ==
    /\ ~(L.keepUntilConverged /\ ~isSteerConverged(prev, buffer, in))
    /\ AbsInt(in.v) < L.stopEgo
    /\ AbsInt(LatData[in.view][in.traj].nearVel) < L.stopTarget

-----------------------------------------------------------------------------
(* run                                                                        *)

(* setTrajectory; the first call, and every call out of control, starts the   *)
(* previous command from the measured steering.                               *)
LatReceive(in) ==
    /\ LatIsReady(in)
    /\ latTraj' = in.traj
    /\ latForward' = isDrivingForward(Roads[in.traj], latForward)
    /\ latBuffer' = PushTrajectory(in)
    /\ latFirst' = TRUE

PreviousAngle(in) == IF latPrevSet /\ in.under THEN latPrev ELSE in.steer

(* calculateMPC's solution, filtered, and the steering history: recorded only *)
(* when solved under control.                                                 *)
Solution(in) == FilterOut(latFilter, Saturate(in.u))

LatSolve(in, status) ==
    /\ latSolved' = status
    /\ latFilter' = IF status = "ok" THEN FilterNext(latFilter, Saturate(in.u))
                                     ELSE latFilter
    /\ latHistory' = IF status = "ok" /\ in.under
                     THEN HistoryAfter(Solution(in), in.elapsed)
                     ELSE AgedHistory(in.elapsed)
    /\ latFilled' = IF status = "ok" /\ in.under
                    THEN /\ latHistory # <<>>
                         /\ latHistory[1].age + in.elapsed >= L.window
                    ELSE latFilled

(* The command: the previous one while stopped, the solution, or, when there  *)
(* is none, the command last published.                                       *)
LatCommand(in, ok, stopped) ==
    IF stopped THEN PreviousAngle(in) ELSE IF ok THEN Solution(in) ELSE latOut

NextInput(in, ok, stopped) ==
    IF stopped THEN [i \in DOMAIN latInput |-> PreviousAngle(in)]
    ELSE IF ok THEN Tail(Append(latInput, Solution(in)))
    ELSE latInput

(* The raw steering of the last two cycles; a failure or manual driving sets  *)
(* both to the measured angle.                                                *)
NextRaw(in, ok, stopped) ==
    LET raw == IF ok /\ in.under THEN <<in.u, latRaw[1]>>
               ELSE <<Saturate(in.steer), Saturate(in.steer)>>
    IN  IF stopped THEN <<PreviousAngle(in), raw[2]>> ELSE raw

LatPublish(in, ok, stopped) ==
    /\ latPrevSet' = TRUE
    /\ latPrev' = LatCommand(in, ok, stopped)
    /\ latOut' = LatCommand(in, ok, stopped)
    /\ latInput' = NextInput(in, ok, stopped)
    /\ latRaw' = NextRaw(in, ok, stopped)
    /\ latConverged' = /\ ~stopped /\ ok
                       /\ isMpcConverged(latHistory', latFilled')
                       /\ isSteerConverged(latOut', latBuffer', in)

LatRun(in) ==
    /\ LatReceive(in)
    /\ LatSolve(in, MpcStatus(in))
    /\ LatPublish(in, latSolved' = "ok",
                  isStoppedState(PreviousAngle(in), latBuffer', in))

LatInit ==
    /\ latTraj = 0 /\ latForward = TRUE
    /\ latBuffer = <<>> /\ latFirst = FALSE
    /\ latHistory = <<>> /\ latFilled = FALSE
    /\ latPrev = 0 /\ latPrevSet = FALSE /\ latOut = 0
    /\ latRaw = <<0, 0>> /\ latInput = [i \in 1..L.delaySteps |-> 0]
    /\ latFilter = [u1 |-> 0, u2 |-> 0, y1 |-> 0, y2 |-> 0]
    /\ latSolved = "ok" /\ latConverged = FALSE
==============================================================================
