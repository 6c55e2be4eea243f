------------------------------ MODULE Followers ------------------------------
(* The two controllers as Controller::onTimer runs them in SI_CONTROL: first  *)
(* the lateral, then the longitudinal, and only then sync, so the             *)
(* longitudinal controller always reads the convergence of the cycle before.  *)
(* `part` selects what a behaviour exercises: both controllers on shared      *)
(* inputs, or one of them alone with its environment left open.               *)
EXTENDS Longitudinal, Lateral

CONSTANTS
  BothInputs,           \* inputs of a cycle of both controllers
  LonInputs,            \* inputs of the longitudinal controller alone
  LatInputs,            \* inputs of the lateral controller alone
  MaxAbsAccel           \* max_abs_accel_mps2 of the gate

(* What the sensors, the clock and the optimisation may hand to a cycle; the  *)
(* stamps admission lets through never go back.                               *)
ASSUME FollowersAssumption ==
    /\ MaxAbsAccel \in Nat
    /\ P.maxAcc + P.slope <= MaxAbsAccel /\ P.slope - P.minAcc <= MaxAbsAccel
    /\ \A in \in BothInputs \cup LonInputs :
         /\ in.traj \in 1..Len(Roads) /\ in.view \in DOMAIN Views
         /\ in.elapsed \in Nat /\ {in.valid, in.under} \subseteq BOOLEAN
         /\ {in.v, in.acc, in.predVel, in.pid, in.slope} \subseteq Int
    /\ \A in \in BothInputs \cup LatInputs :
         /\ in.traj \in 1..Len(Roads) /\ in.view \in DOMAIN Views
         /\ in.advance \in Nat /\ {in.u, in.steer} \subseteq Int
         /\ in.under \in BOOLEAN
         /\ in.mpc \in {"ok", "matrix", "qp", "nan"}

VARIABLES
  part,                 \* "both", "lon" or "lat"
  seen,                 \* what the last cycle met: see Seen
  tick                  \* parity of the cycles of both controllers run so far

folVars == <<lonVars, latVars, part, seen, tick>>

(* What the properties need of the inputs of a cycle. *)
Seen(in) ==
    LET near == ~isFar(in)
        c    == ControlData[in.view][setTrajectory(in)]
    IN  [near    |-> near,
         running |-> IF near THEN ~isNotRunning(c, in) ELSE FALSE,
         go      |-> IF near THEN DepartureFromStopped(c) ELSE FALSE,
         stand   |-> in.v = 0,
         under   |-> in.under,
         calm    |-> /\ in.traj = latTraj
                     /\ in.mpc = "ok" /\ in.u = 0 /\ in.steer = 0
                     /\ LatData[in.view][in.traj].nearVel # 0]

Tick == tick' = 1 - tick

Init ==
    /\ LonInit /\ LatInit
    /\ tick = 0
    /\ part \in {"both", "lon", "lat"}
    /\ seen = [near |-> FALSE, running |-> FALSE, go |-> FALSE, stand |-> TRUE,
               under |-> FALSE, calm |-> FALSE]

(* Steps 5 to 7 of onTimer: both are ready, both run, then they are synced. *)
Cycle(in) ==
    /\ part = "both"
    /\ LatIsReady(in) /\ LonIsReady(in)
    /\ LatRun(in)
    /\ LonRun(in)
    /\ lonSync' = latConverged'
    /\ seen' = Seen(in)
    /\ Tick
    /\ UNCHANGED part

(* The longitudinal controller with any lateral behaviour. *)
LonCycle(in) ==
    /\ part = "lon"
    /\ LonIsReady(in)
    /\ LonRun(in)
    /\ lonSync' \in BOOLEAN
    /\ seen' = Seen(in)
    /\ Tick
    /\ UNCHANGED <<part, latVars>>

(* The lateral controller alone. *)
LatCycle(in) ==
    /\ part = "lat"
    /\ LatRun(in)
    /\ Tick
    /\ UNCHANGED <<part, seen, lonVars>>

Next ==
    \/ \E in \in BothInputs : Cycle(in)
    \/ \E in \in LonInputs : LonCycle(in)
    \/ \E in \in LatInputs : LatCycle(in)

Spec == Init /\ [][Next]_folVars

(* The timer always fires again, also when a cycle changes nothing else. *)
FairSpec == Spec /\ WF_tick(Tick)

-----------------------------------------------------------------------------
(* Properties                                                                 *)

(* Every variable holds a value of the member it models. *)
TypeOK ==
    /\ lonState \in ControlState /\ lonTraj \in 0..Len(Roads)
    /\ lonShift \in {-1, 1} /\ lonRaw \in Motion /\ lonCmd \in Motion
    /\ lonKeep \in {"none", "keep", "go"} /\ lonRunAge \in Nat
    /\ lonPid \in {"reset", "running", "wound"} /\ lonEmg \in 0..EmgCap
    /\ latOut \in Int /\ latTraj \in 0..Len(Roads)
    /\ latSolved \in {"ok", "position", "yaw", "matrix", "qp", "nan"}

(* However far the raw acceleration was from it, k emergency cycles in a row  *)
(* bring it down by at least k times the least ramp of one cycle: the         *)
(* emergency braking (calcEmergencyCtrlCmd, both callers) is reached in a     *)
(* bounded number of cycles from any state, through late and early cycles.    *)
EmergencyRamp ==
    lonRaw.acc <= MaxInt(ClampInt(P.emgAcc, P.minAcc, P.maxAcc),
                         P.maxAcc - lonEmg * AbsInt(P.emgJerk) * (P.period \div 2))

(* The follower never trips the gate's own envelope (publishControlCommand    *)
(* latches SI_STOP beyond max_abs_accel_mps2): limits, slope compensation and *)
(* the rate limit against the previous command stay inside it together.       *)
InsideEnvelope == AbsInt(lonCmd.acc) <= MaxAbsAccel

(* STOPPED is entered only in a cycle on the trajectory whose velocity does   *)
(* not run along the gear (updateControlState).                               *)
StoppedOnlyStanding ==
    lonState # "STOPPED" /\ lonState' = "STOPPED" => seen'.near /\ ~seen'.running

(* Under control an emergency ends only in STOPPED: never by the trajectory   *)
(* moving the stop point or the ego coming back within the deviation limits.  *)
EmergencyHeld ==
    lonState = "EMERGENCY" /\ lonState' # lonState /\ seen'.under
    => lonState' = "STOPPED"

(* From a standstill the vehicle departs only on a convergence the lateral    *)
(* controller reported in the cycle before: it had solved, was not holding    *)
(* its previous command, and the steering had followed (sync comes after both *)
(* runs).                                                                     *)
DepartsSteered ==
    lonState = "STOPPED" /\ lonState' = "DRIVE" /\ seen'.stand
    => /\ lonSync
       /\ part = "both" => latConverged /\ latSolved = "ok" /\ latOut = latPrev

(* m_ctrl_cmd_vec loses at most one expired entry per cycle and still never   *)
(* holds more than the commands of the delay and the two it insists on.       *)
CommandHistoryBounded == Len(lonCmds) <= P.delay \div P.period + 2

(* m_trajectory_buffer holds at most one trajectory per stamp of the window,  *)
(* for the increasing stamps admission lets through.                          *)
TrajectoryBufferBounded == Len(latBuffer) <= L.newTrajWindow

(* The published steering is inside the vehicle limit although it is filtered *)
(* after it is saturated, across failures, holds and stopped cycles.          *)
SteerWithinLimit == AbsInt(latOut) <= L.steerLim

(* Neither controller waits for the other for ever: standing still on one     *)
(* road that goes on, with the MPC solving and the steering straight, the     *)
(* longitudinal controller ends in DRIVE, whatever happened before.           *)
EventuallyDeparts ==
    <>[](part = "both" /\ seen.go /\ seen.stand /\ seen.under /\ seen.calm)
      => <>[](lonState = "DRIVE")

(* Every command is one the vehicle may be given, and the state and both      *)
(* histories it comes from keep their types and sizes.                        *)
CommandsInside ==
    /\ TypeOK /\ CommandHistoryBounded /\ TrajectoryBufferBounded
    /\ EmergencyRamp /\ InsideEnvelope /\ SteerWithinLimit

(* The control state is left only for its reason. *)
StateChanges == [][StoppedOnlyStanding /\ EmergencyHeld /\ DepartsSteered]_folVars
==============================================================================
