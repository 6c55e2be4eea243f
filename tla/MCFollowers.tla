----------------------------- MODULE MCFollowers -----------------------------
(* Small instance of Followers.  One unit of time is half a control period.   *)
EXTENDS Followers

MCP ==
  [period |-> 2, delay |-> 4,
   smoothStop |-> TRUE, overshootEmergency |-> TRUE, trackEmergency |-> TRUE,
   slope |-> 1, keepStopped |-> TRUE,
   driveDist |-> 1, driveOffset |-> 2, stoppingDist |-> 1,
   stoppedTime |-> 2, stoppedVel |-> 2, overshootDist |-> 1,
   transDev |-> 3, rotDev |-> 1, distThr |-> 3, yawThr |-> 1,
   maxPid |-> 1, minPid |-> -1, integrateVel |-> 2, integrateTime |-> 2,
   integrateLow |-> FALSE, brakeKeeping |-> TRUE, brakeKeepAcc |-> -1,
   maxStrong |-> -1, minStrong |-> -2, weak |-> -1, weakStop |-> -2,
   strongStop |-> -3, fastVel |-> 2, runVel |-> 0, runAcc |-> 0,
   weakTime |-> 3, weakDist |-> 0, strongDist |-> -1,
   stoppedVelCmd |-> 0, stoppedAcc |-> -3,
   emgVel |-> 0, emgAcc |-> -4, emgJerk |-> -1,
   maxAcc |-> 2, minAcc |-> -4, maxJerk |-> 1, minJerk |-> -2,
   maxAccDiff |-> 3]

MCL ==
  [newTrajWindow |-> 4, firstTrajWindow |-> 10, distThr |-> 3, yawThr |-> 1,
   positionErr |-> 5, yawErr |-> 1, steerLim |-> 1, window |-> 4,
   mpcConverged |-> 1, steerConverged |-> 1, newTrajEnd |-> 1,
   keepUntilConverged |-> TRUE, stopEgo |-> 1, stopTarget |-> 1,
   delaySteps |-> 1]

Pt(x, v, a) == [x |-> x, yaw |-> 0, v |-> v, a |-> a]
MCRoads ==
  << <<Pt(0, 2, 1), Pt(2, 2, 0), Pt(6, 2, 0), Pt(8, 2, 0)>>,      \* keeps going
     <<Pt(0, 2, 0), Pt(2, 2, -2), Pt(4, 0, -1), Pt(10, 0, 0)>>,   \* stops at 4
     <<Pt(8, -2, 1), Pt(4, -2, 0), Pt(0, -2, 0)>> >>              \* reverses

At(x, y, run) == [pose |-> [x |-> x, yaw |-> 0], y |-> y, runDist |-> run]
MCViews == << At(0, 0, 0), At(3, 0, 1), At(6, 0, 0), At(0, 9, 0), At(3, 0, 0) >>

(* The part of an input record only the lateral controller reads. *)
Steer(mpc, u, steer, advance) ==
    [mpc |-> mpc, u |-> u, steer |-> steer, advance |-> advance]

Input(road, view, v, under, bumpy, s) ==
    [traj |-> road, valid |-> TRUE, view |-> view, v |-> v, acc |-> 0,
     under |-> under, elapsed |-> IF bumpy THEN 5 ELSE 2, predVel |-> v,
     pid |-> IF bumpy THEN -1 ELSE 1, slope |-> IF bumpy THEN 3 ELSE -1,
     tts |-> IF bumpy THEN "late" ELSE "none",
     mpc |-> s.mpc, u |-> s.u, steer |-> s.steer, advance |-> s.advance]

Straight == Steer("ok", 0, 0, 2)

MCLonInputs ==
    {Input(r, w, v, TRUE, FALSE, Straight) : r \in {1, 2}, w \in {1, 3}, v \in {0, 3}}
    \cup {Input(r, w, 3, TRUE, TRUE, Straight) : r \in {1, 2}, w \in {1, 3}}
    \cup {Input(1, w, 0, TRUE, TRUE, Straight) : w \in {1, 3}}
    \cup {Input(r, 3, v, FALSE, FALSE, Straight) : r \in {1, 2}, v \in {0, 3}}
    \cup {Input(2, 2, 3, TRUE, b, Straight) : b \in BOOLEAN}
    \cup {Input(1, 1, -2, TRUE, FALSE, Straight)}
    \cup {Input(1, 4, 3, TRUE, b, Straight) : b \in BOOLEAN}
    \cup {Input(3, 3, -3, TRUE, FALSE, Straight)}
    \cup {[Input(1, 1, 3, TRUE, FALSE, Straight) EXCEPT !.valid = FALSE]}

(* <<road, view, velocity>> *)
Places == {<<1, 1, 0>>, <<2, 3, 0>>}

MCLatInputs ==
    {Input(p[1], p[2], p[3], TRUE, FALSE, Steer(q[1], q[2], s, 2)) :
       p \in Places, q \in {<<"ok", 0>>, <<"ok", 3>>, <<"qp", 0>>}, s \in {0, 1}}
    \cup {Input(1, 1, 3, FALSE, FALSE, Steer("ok", 0, 1, 2)),
          Input(1, 1, 3, TRUE, TRUE, Steer("qp", 0, 0, 2)),
          Input(1, 1, 3, TRUE, FALSE, Steer("ok", -3, 0, 0)),
          Input(1, 4, 3, TRUE, FALSE, Straight)}

MCBothInputs ==
    {Input(r, w, v, TRUE, FALSE, s) :
       r \in {1, 2}, w \in {1, 5}, v \in {0, 3}, s \in {Straight, Steer("qp", 0, 0, 2)}}
    \cup {Input(r, 1, 0, TRUE, FALSE, Steer("ok", 1, 0, 2)) : r \in {1, 2}}
==============================================================================
