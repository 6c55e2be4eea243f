----------------------------- MODULE Supervisor -----------------------------
(***************************************************************************)
(* The supervision core of the Safety Island: class Controller             *)
(* (controller_node.cpp) with the helpers of supervision_latch.hpp,        *)
(* supervision.hpp and candidate_identity.hpp.                             *)
(*                                                                         *)
(* The subscriber callbacks and the control timer run on one thread, so    *)
(* each is one action.  Every control tick publishes exactly one           *)
(* ApprovedRequest: NORMAL (the candidate is approved), SI_STOP (a fault   *)
(* is latched) or HOLD (nothing to approve yet).                           *)
(*                                                                         *)
(* Time is discrete.  `wall' is Clock::now() (system_clock, which NTP or   *)
(* an operator may step); `steady' is std::chrono::steady_clock, used by   *)
(* the stop ramp only.  Real quantities (angles, speeds, accelerations)    *)
(* are integers of which the model keeps the order and the limits; a value *)
(* above every limit stands for an infinity or a NaN where the code's      *)
(* comparisons treat them alike.                                           *)
(***************************************************************************)
EXTENDS Integers, Sequences, FiniteSets, CandidateIdentity

CONSTANTS
  Config,          \* "si_autoware", "si_vp" or "vp": mode and source, fixed at startup
  Feedback,        \* the vehicle feedback sources of this instance
  Timeout,         \* [Sources -> Nat], the arrival-age limit of each source
  Unlimited,       \* sources whose limit is infinite (the operation mode by default)
  Window,          \* reenable_window_s_
  Decel,           \* stop_decel_mps2_, per time unit
  MaxSteer, MaxSpeed, MaxAccel,   \* the envelope of a VisionPilot command
  FollowerMaxSteer,               \* the envelope of the follower's steering
  LegacyStopOnly,  \* SI_LEGACY_CONTROL_CMD=stop_only
  HasSiChannel,    \* the X5H build, whose control tick reads the rpmsg-si fault input
  EgoWindow        \* capacity of the ego pose history (400 in the code)

CONSTANTS          \* what the environment may send
  Odometries,      \* odometry samples: [stamp, speed]
  SteerReports,    \* steering tire angles of the steering report
  Commands,        \* DrivingCommand samples (VP_CONTROL)
  References,      \* DrivingReference samples (SI_CONTROL, source vp)
  Trajectories,    \* Trajectory samples (SI_CONTROL, source autoware)
  FollowerOutputs, \* payloads the follower may propose
  SendsHeartbeat,  \* whether this deployment has a VisionPilot heartbeat
  WallSteps        \* adjustments of the system clock

CONSTANTS          \* bounds of the model, not of the code
  MaxTime, MaxSeq, MaxSiEvents

Heartbeat == "vp_heartbeat"
Selected  == IF Config = "vp" THEN "vp_command" ELSE "trajectory"
Sources   == Feedback \cup {Heartbeat, Selected}

\* The order in which supervisorStaleReason() looks at the sources.
CheckRank ==
  [s \in Sources |->
    CASE s = "odometry" -> 1 [] s = "acceleration" -> 2 [] s = "steering_report" -> 3
      [] s = "operation_mode" -> 4 [] s = Heartbeat -> 5 [] OTHER -> 6]

Payloads    == [steer : Int, speed : Int, accel : Int]
ZeroPayload == [steer |-> 0, speed |-> 0, accel |-> 0]

ASSUME ConfigAssumption ==
  /\ Config \in {"si_autoware", "si_vp", "vp"}
  /\ Feedback \subseteq {"odometry", "acceleration", "steering_report", "operation_mode"}
  /\ {"odometry", "steering_report"} \subseteq Feedback
  /\ Timeout \in [Sources -> Nat]
  /\ Unlimited \subseteq Sources
  /\ LegacyStopOnly \in BOOLEAN
  /\ {HasSiChannel, SendsHeartbeat} \subseteq BOOLEAN

ASSUME NumberAssumption ==
  /\ {Window, MaxSteer, MaxSpeed, MaxAccel, FollowerMaxSteer} \subseteq Nat
  /\ {Decel, EgoWindow} \subseteq Nat \ {0}
  /\ {MaxTime, MaxSeq, MaxSiEvents} \subseteq Nat
  /\ WallSteps \subseteq Int

ASSUME InputAssumption ==
  /\ Odometries \subseteq [stamp : Int, speed : Int]
  /\ SteerReports \subseteq Int
  /\ Commands \subseteq [valid : BOOLEAN, stamped : BOOLEAN, session : Nat, cycle : Nat,
                         stamp : Int, finite : BOOLEAN, payload : Payloads]
  /\ References \subseteq [wellFormed : BOOLEAN, usable : BOOLEAN, finite : BOOLEAN,
                           session : Nat, cycle : Nat, stamp : Int, convertible : BOOLEAN]
  /\ Trajectories \subseteq [wellFormed : BOOLEAN, finite : BOOLEAN, stamp : Int]
  /\ FollowerOutputs \subseteq Payloads

VARIABLES
  wall, steady,    \* the two clocks
  arrival,         \* SourceWatch::last_arrival_ of every source, -1 = never seen
  sup,             \* the fault latch, the operator's request and the stop ramp
  si,              \* the rpmsg-si fault input, and the events the controller has seen
  vehicle,         \* the feedback values SI uses: [speed, steer]
  ego,             \* stamps of the ego pose history, oldest first
  vpId, autowareId,\* the identity gates
  command,         \* current_vp_cmd_: the last accepted VisionPilot command
  accepted,        \* accepted_source_session_/cycle_
  approved,        \* has_approved_ and last_approved_
  outSeq,          \* out_seq_
  out              \* the last ApprovedRequest and whether control_cmd carried it

vars == <<wall, steady, arrival, sup, si, vehicle, ego, vpId, autowareId,
          command, accepted, approved, outSeq, out>>

clocks     == <<wall, steady>>
candidates == <<vpId, autowareId, command, accepted>>
outputs    == <<approved, outSeq, out>>

-----------------------------------------------------------------------------
(* Arrival ages (SourceWatch).                                             *)

Seen(s)  == arrival[s] >= 0
Stale(s) == Seen(s) /\ s \notin Unlimited /\ wall - arrival[s] > Timeout[s]

StaleSources == {s \in Sources : Stale(s)}

\* The stale source supervisorStaleReason() names: the first in its order.
StaleReason == CHOOSE s \in StaleSources : \A t \in StaleSources : CheckRank[s] <= CheckRank[t]

FeedbackSeen == \A s \in Feedback : Seen(s)

\* Mutant of AllSourcesFresh: a fault input still held at 1 does not count.
FreshWithoutFaultInput == FeedbackSeen /\ Seen(Selected) /\ StaleSources = {}

\* What a re-enable needs.  The heartbeat is optional: only its loss counts.
AllSourcesFresh ==
  /\ FeedbackSeen /\ Seen(Selected)
  /\ StaleSources = {}
  /\ HasSiChannel => ~si.fault

Note(s) == arrival' = [arrival EXCEPT ![s] = wall]

-----------------------------------------------------------------------------
(* The fault latch (SupervisionState, ReenableRequest, StopRamp).          *)

\* Mutant of RampOrigin: an old odometry sample still starts the ramp.
RampFromOldSample == vehicle.speed

\* The stop ramp starts at the ego speed, but never from stale odometry.
RampOrigin == IF Seen("odometry") /\ ~Stale("odometry") THEN vehicle.speed ELSE 0

\* Mutant of LatchFault: latching keeps an earlier operator request.
LatchKeepsRequest(s, why) ==
  IF ~s.latched
  THEN [latched |-> TRUE, faultId |-> s.faultId + 1, reason |-> why, pending |-> s.pending,
        pressedAt |-> s.pressedAt, v0 |-> RampOrigin, rampAt |-> steady]
  ELSE IF s.reason # why
  THEN [s EXCEPT !.reason = why, !.pending = FALSE]
  ELSE s

\* Mutant of LatchFault: the second stop reuses the number of the first.
LatchReusesNumber(s, why) ==
  IF ~s.latched
  THEN [latched |-> TRUE, faultId |-> IF s.faultId = 0 THEN 1 ELSE s.faultId, reason |-> why,
        pending |-> FALSE, pressedAt |-> s.pressedAt, v0 |-> RampOrigin, rampAt |-> steady]
  ELSE IF s.reason # why
  THEN [s EXCEPT !.reason = why, !.pending = FALSE]
  ELSE s

LatchFault(s, why) ==
  IF ~s.latched
  THEN [latched |-> TRUE, faultId |-> s.faultId + 1, reason |-> why, pending |-> FALSE,
        pressedAt |-> s.pressedAt, v0 |-> RampOrigin, rampAt |-> steady]
  ELSE IF s.reason # why
  THEN [s EXCEPT !.reason = why, !.pending = FALSE]
  ELSE s

\* Mutant of ExpireIfOld: a request never expires.
NeverExpires(s) == s

ExpireIfOld(s) ==
  IF s.pending /\ wall - s.pressedAt > Window THEN [s EXCEPT !.pending = FALSE] ELSE s

\* SupervisionState::stopThisTick: the request is consumed when it clears.
ClearIfReenabled(s) ==
  IF s.latched /\ s.pending /\ AllSourcesFresh
  THEN [s EXCEPT !.latched = FALSE, !.reason = "none", !.pending = FALSE]
  ELSE s

\* stopRampVelocity
RampSpeed(v0, elapsed) ==
  IF v0 > MaxSpeed \/ v0 - Decel * elapsed <= 0 THEN 0 ELSE v0 - Decel * elapsed

-----------------------------------------------------------------------------
(* The single output.                                                      *)

\* Mutants of StoppedPayload: the steering follows the report although a
\* command was approved; the ramp is timed by the system clock.
StoppedAtReport(s) ==
  [steer |-> IF Seen("steering_report") THEN vehicle.steer ELSE 0,
   speed |-> IF s.latched THEN RampSpeed(s.v0, steady - s.rampAt) ELSE 0,
   accel |-> -Decel]

StoppedByWallClock(s) ==
  [steer |-> IF approved.given THEN approved.payload.steer
             ELSE IF Seen("steering_report") THEN vehicle.steer ELSE 0,
   speed |-> IF s.latched THEN RampSpeed(s.v0, wall - s.rampAt) ELSE 0,
   accel |-> -Decel]

\* Steering is held at the last approved command, and before there is one at
\* the steering report; the demand is a stop that never releases the brake.
StoppedPayload(s) ==
  [steer |-> IF approved.given THEN approved.payload.steer
             ELSE IF Seen("steering_report") THEN vehicle.steer ELSE 0,
   speed |-> IF s.latched THEN RampSpeed(s.v0, steady - s.rampAt) ELSE 0,
   accel |-> -Decel]

\* publishApprovedRequest, with the latch `s' and the accepted identity `from'.
Publish(decision, payload, s, from) ==
  /\ outSeq' = outSeq + 1
  /\ approved' = IF decision = "NORMAL" THEN [given |-> TRUE, payload |-> payload] ELSE approved
  /\ out' = [decision |-> decision,
             faultId  |-> IF s.latched THEN s.faultId ELSE 0,
             from     |-> from,
             payload  |-> payload,
             legacy   |-> ~LegacyStopOnly \/ decision = "SI_STOP"]
  /\ sup' = s
  /\ accepted' = from

SiStop(s) == Publish("SI_STOP", StoppedPayload(s), s, accepted)
Hold(s)   == Publish("HOLD", StoppedPayload(s), s, accepted)

Abs(x) == IF x < 0 THEN -x ELSE x

\* Mutant of EnvelopeViolation: the steering angle is not looked at.
EnvelopeWithoutSteering(p) ==
  IF Abs(p.speed) > MaxSpeed THEN "follower_speed_out_of_range"
  ELSE IF Abs(p.accel) > MaxAccel THEN "follower_accel_out_of_range"
  ELSE "none"

\* envelopeViolation of a follower's proposal, "none" when it is inside.
EnvelopeViolation(p) ==
  IF Abs(p.steer) > FollowerMaxSteer THEN "follower_steering_out_of_range"
  ELSE IF Abs(p.speed) > MaxSpeed THEN "follower_speed_out_of_range"
  ELSE IF Abs(p.accel) > MaxAccel THEN "follower_accel_out_of_range"
  ELSE "none"

\* Mutant of ApproveFollower: a rejected proposal stops without latching.
StopWithoutLatching(s, p) ==
  IF EnvelopeViolation(p) = "none" THEN Publish("NORMAL", p, s, accepted) ELSE SiStop(s)

\* publishControlCommand: the follower only proposes.
ApproveFollower(s, p) ==
  IF EnvelopeViolation(p) = "none"
  THEN Publish("NORMAL", p, s, accepted)
  ELSE SiStop(LatchFault(s, EnvelopeViolation(p)))

-----------------------------------------------------------------------------
(* The control tick.                                                       *)

SiEdge == HasSiChannel /\ si.events # si.seen

\* Mutants of Supervised: the freshest source hides a stale one; the fault
\* input's level is read instead of its edges.
FreshestSourceDecides ==
  LET timed == IF StaleSources = {} \/ \E s \in Sources : Seen(s) /\ ~Stale(s)
               THEN sup ELSE LatchFault(sup, StaleReason)
  IN  IF timed.latched THEN ClearIfReenabled(ExpireIfOld(timed)) ELSE timed

FaultLevelDecides ==
  LET timed  == IF StaleSources = {} THEN sup ELSE LatchFault(sup, StaleReason)
      faulty == IF HasSiChannel /\ si.fault THEN LatchFault(timed, "si_fault_input") ELSE timed
  IN  IF faulty.latched THEN ClearIfReenabled(ExpireIfOld(faulty)) ELSE faulty

\* The latch after the supervisor's checks, before a decision is made.
Supervised ==
  LET timed  == IF StaleSources = {} THEN sup ELSE LatchFault(sup, StaleReason)
      faulty == IF SiEdge THEN LatchFault(timed, "si_fault_input") ELSE timed
  IN  IF faulty.latched THEN ClearIfReenabled(ExpireIfOld(faulty)) ELSE faulty

\* What a decision needs: processData(), and has_vp_cmd_ with feedbackSeen().
InputsSeen == FeedbackSeen /\ Seen(Selected)

StopTick == Supervised.latched /\ SiStop(Supervised)

\* `ready': whether both follower controllers are ready; VP_CONTROL has none.
HoldTick(ready) ==
  /\ ~Supervised.latched
  /\ InputsSeen => (Config # "vp" /\ ~ready)
  /\ Hold(Supervised)

\* Mutant of PassCommandTick: the vehicle feedback is not awaited.
PassWithoutFeedback ==
  /\ ~Supervised.latched /\ Seen(Selected) /\ Config = "vp"
  /\ Publish("NORMAL", command.payload, Supervised,
             [session |-> command.session, cycle |-> command.cycle])

\* Supervise and pass: the accepted command is approved unchanged.
PassCommandTick ==
  /\ ~Supervised.latched /\ InputsSeen /\ Config = "vp"
  /\ Publish("NORMAL", command.payload, Supervised,
             [session |-> command.session, cycle |-> command.cycle])

FollowTick(proposal) ==
  /\ ~Supervised.latched /\ InputsSeen /\ Config # "vp"
  /\ ApproveFollower(Supervised, proposal)

\* callbackTimerControl
ControlTick ==
  /\ outSeq < MaxSeq
  /\ \/ StopTick
     \/ \E ready \in BOOLEAN : HoldTick(ready)
     \/ PassCommandTick
     \/ \E proposal \in FollowerOutputs : FollowTick(proposal)
  /\ si' = IF HasSiChannel THEN [si EXCEPT !.seen = si.events] ELSE si
  /\ UNCHANGED <<clocks, arrival, vehicle, ego, vpId, autowareId, command>>

-----------------------------------------------------------------------------
(* The subscriber callbacks.                                               *)

\* What a callback does when it latches a fault, and when it drops a sample.
Fault(why) ==
  /\ sup' = LatchFault(sup, why)
  /\ UNCHANGED <<clocks, arrival, si, vehicle, ego, candidates, outputs>>

Ignore == UNCHANGED vars

SteeringStatus(angle) ==
  /\ vehicle' = [vehicle EXCEPT !.steer = angle]
  /\ Note("steering_report")
  /\ UNCHANGED <<clocks, sup, si, ego, candidates, outputs>>

\* callbackOperationModeState and callbackAcceleration: only the arrival counts here.
OtherFeedback(s) ==
  /\ s \in Feedback \ {"odometry", "steering_report"}
  /\ Note(s)
  /\ UNCHANGED <<clocks, sup, si, vehicle, ego, candidates, outputs>>

\* Mutant of EgoNote: the history is never full.
EgoNoteUnbounded(stamp) == Append(ego, stamp)

\* EgoHistory::note overwrites the oldest entry of a full ring.
EgoNote(stamp) == Append(IF Len(ego) < EgoWindow THEN ego ELSE Tail(ego), stamp)

\* Mutant of EgoFind: any pose places a reference, also that of another frame.
EgoFindAny(stamp) == ego # << >>

EgoFind(stamp) == \E i \in 1 .. Len(ego) : ego[i] = stamp

Odometry(m) ==
  /\ vehicle' = [vehicle EXCEPT !.speed = m.speed]
  /\ Note("odometry")
  /\ ego' = IF Config = "si_vp" THEN EgoNote(m.stamp) ELSE ego
  /\ UNCHANGED <<clocks, sup, si, candidates, outputs>>

HeartbeatSample ==
  /\ SendsHeartbeat
  /\ Note(Heartbeat)
  /\ UNCHANGED <<clocks, sup, si, vehicle, ego, candidates, outputs>>

Reenable ==
  /\ sup' = [sup EXCEPT !.pending = TRUE, !.pressedAt = wall]
  /\ UNCHANGED <<clocks, arrival, si, vehicle, ego, candidates, outputs>>

AcceptTrajectory(m) ==
  /\ autowareId' = AutowareNote(m.stamp)
  /\ Note(Selected)
  /\ UNCHANGED <<clocks, sup, si, vehicle, ego, vpId, command, accepted, outputs>>

Trajectory(m) ==
  /\ Config = "si_autoware"
  /\ IF ~m.wellFormed THEN Fault("invalid_autoware_trajectory")
     ELSE IF ~m.finite THEN Fault("non_finite_autoware_trajectory")
     ELSE CASE AutowareCheck(autowareId, m.stamp) = "DUPLICATE" -> Ignore
            [] AutowareCheck(autowareId, m.stamp) = "ACCEPT" -> AcceptTrajectory(m)
            [] OTHER -> Fault("autoware_trajectory_stamp_regression_or_invalid_stamp")

AcceptReference(m) ==
  /\ vpId' = VpNote(vpId, m.session, m.cycle, m.stamp)
  /\ accepted' = [session |-> m.session, cycle |-> m.cycle]
  /\ Note(Selected)
  /\ UNCHANGED <<clocks, sup, si, vehicle, ego, autowareId, command, outputs>>

\* A reference that cannot be placed (no ego pose of its frame, no usable
\* shape) is dropped without a fault: the arrival watch owns the stop.
DrivingReference(m) ==
  /\ Config = "si_vp"
  /\ IF ~m.wellFormed THEN Fault("invalid_vp_driving_reference")
     ELSE IF ~m.usable THEN Ignore
     ELSE IF ~m.finite THEN Fault("non_finite_vp_driving_reference")
     ELSE CASE VpCheck(vpId, m.session, m.cycle, m.stamp) = "DUPLICATE" -> Ignore
            [] VpCheck(vpId, m.session, m.cycle, m.stamp) = "ACCEPT" ->
                 IF EgoFind(m.stamp) /\ m.convertible THEN AcceptReference(m) ELSE Ignore
            [] OTHER -> Fault("vp_driving_reference_regression_or_invalid_stamp")

\* Mutant of CommandViolation: the steering limit is not checked.
CommandWithoutSteeringLimit(m) ==
  IF ~m.finite THEN "vp_command_not_finite"
  ELSE IF m.payload.speed < 0 \/ m.payload.speed > MaxSpeed THEN "vp_speed_out_of_range"
  ELSE IF Abs(m.payload.accel) > MaxAccel THEN "vp_accel_out_of_range"
  ELSE "none"

\* Why SI refuses to pass a command, "none" when it does not.
CommandViolation(m) ==
  IF ~m.finite THEN "vp_command_not_finite"
  ELSE IF Abs(m.payload.steer) > MaxSteer THEN "vp_steering_out_of_range"
  ELSE IF m.payload.speed < 0 \/ m.payload.speed > MaxSpeed THEN "vp_speed_out_of_range"
  ELSE IF Abs(m.payload.accel) > MaxAccel THEN "vp_accel_out_of_range"
  ELSE "none"

AcceptCommand(m) ==
  /\ vpId' = VpNote(vpId, m.session, m.cycle, m.stamp)
  /\ command' = [session |-> m.session, cycle |-> m.cycle, payload |-> m.payload]
  /\ Note(Selected)
  /\ UNCHANGED <<clocks, sup, si, vehicle, ego, autowareId, accepted, outputs>>

DrivingCommand(m) ==
  /\ Config = "vp"
  /\ IF ~m.valid \/ ~m.stamped THEN Ignore
     ELSE CASE VpCheck(vpId, m.session, m.cycle, m.stamp) = "DUPLICATE" -> Ignore
            [] VpCheck(vpId, m.session, m.cycle, m.stamp) = "ACCEPT" ->
                 IF CommandViolation(m) = "none" THEN AcceptCommand(m)
                 ELSE Fault(CommandViolation(m))
            [] OTHER -> Fault("vp_command_regression_or_invalid_stamp")

-----------------------------------------------------------------------------
(* The environment: time, the system clock and the rpmsg-si channel.       *)

Elapse ==
  /\ steady < MaxTime /\ wall < MaxTime
  /\ steady' = steady + 1 /\ wall' = wall + 1
  /\ UNCHANGED <<arrival, sup, si, vehicle, ego, candidates, outputs>>

StepWallClock(d) ==
  /\ wall + d \in 0 .. MaxTime
  /\ wall' = wall + d
  /\ UNCHANGED <<steady, arrival, sup, si, vehicle, ego, candidates, outputs>>

\* si_channel_rx on the transport's poll task: fault=1 and fault=0.  Only a
\* rising edge counts as an event.
SiFault(level) ==
  /\ HasSiChannel
  /\ level /\ ~si.fault => si.events < MaxSiEvents
  /\ si' = [fault  |-> level,
            events |-> si.events + (IF level /\ ~si.fault THEN 1 ELSE 0),
            seen   |-> si.seen]
  /\ UNCHANGED <<clocks, arrival, sup, vehicle, ego, candidates, outputs>>

-----------------------------------------------------------------------------
Init ==
  /\ wall = 0 /\ steady = 0
  /\ arrival = [s \in Sources |-> -1]
  /\ sup = [latched |-> FALSE, faultId |-> 0, reason |-> "none", pending |-> FALSE,
            pressedAt |-> 0, v0 |-> 0, rampAt |-> 0]
  /\ si = [fault |-> FALSE, events |-> 0, seen |-> 0]
  /\ vehicle = [speed |-> 0, steer |-> 0]
  /\ ego = << >>
  /\ vpId = FreshVpIdentity
  /\ autowareId = FreshAutowareIdentity
  /\ command = [session |-> 0, cycle |-> 0, payload |-> ZeroPayload]
  /\ accepted = [session |-> 0, cycle |-> 0]
  /\ approved = [given |-> FALSE, payload |-> ZeroPayload]
  /\ outSeq = 0
  /\ out = [decision |-> "none", faultId |-> 0, from |-> [session |-> 0, cycle |-> 0],
            payload |-> ZeroPayload, legacy |-> FALSE]

Next ==
  \/ ControlTick
  \/ \E a \in SteerReports : SteeringStatus(a)
  \/ \E s \in Feedback : OtherFeedback(s)
  \/ \E m \in Odometries : Odometry(m)
  \/ HeartbeatSample
  \/ Reenable
  \/ \E m \in Trajectories : Trajectory(m)
  \/ \E m \in References : DrivingReference(m)
  \/ \E m \in Commands : DrivingCommand(m)
  \/ Elapse
  \/ \E d \in WallSteps : StepWallClock(d)
  \/ \E level \in BOOLEAN : SiFault(level)

Spec == Init /\ [][Next]_vars

-----------------------------------------------------------------------------
(* Properties.                                                             *)

Decisions == {"NORMAL", "SI_STOP", "HOLD"}
Identity  == [session : Nat, cycle : Nat]

\* Why a stop is latched; "none" when none is.
Reasons ==
  Sources \cup
  {"none", "si_fault_input",
   "invalid_autoware_trajectory", "non_finite_autoware_trajectory",
   "autoware_trajectory_stamp_regression_or_invalid_stamp",
   "invalid_vp_driving_reference", "non_finite_vp_driving_reference",
   "vp_driving_reference_regression_or_invalid_stamp",
   "vp_command_regression_or_invalid_stamp", "vp_command_not_finite",
   "vp_steering_out_of_range", "vp_speed_out_of_range", "vp_accel_out_of_range",
   "follower_steering_out_of_range", "follower_speed_out_of_range",
   "follower_accel_out_of_range"}

\* The values of the fault latch with the operator's request and the ramp.
Latches ==
  [latched : BOOLEAN, faultId : Nat, reason : Reasons, pending : BOOLEAN,
   pressedAt : Nat, v0 : Int, rampAt : Nat]

\* Type invariant.  The two rings stay inside the memory the runtime gives them.
TypeOK ==
  /\ wall \in Nat /\ steady \in Nat
  /\ arrival \in [Sources -> Int]
  /\ \A s \in Sources : arrival[s] >= -1
  /\ sup \in Latches
  /\ si \in [fault : BOOLEAN, events : Nat, seen : Nat]
  /\ vehicle \in [speed : Int, steer : Int]
  /\ ego \in Seq(Int) /\ Len(ego) <= EgoWindow
  /\ vpId \in VpIdentities /\ Len(vpId.retired) <= RetiredWindow
  /\ autowareId \in AutowareIdentities
  /\ command \in [session : Nat, cycle : Nat, payload : Payloads]
  /\ accepted \in Identity
  /\ approved \in [given : BOOLEAN, payload : Payloads]
  /\ outSeq \in Nat
  /\ out \in [decision : Decisions \cup {"none"}, faultId : Nat, from : Identity,
              payload : Payloads, legacy : BOOLEAN]

\* A step that publishes, and its decision.
Publishes(decision) == outSeq' # outSeq /\ out'.decision = decision

\* The operator's request that may end a stop in this tick.
StopMayEnd == sup.pending /\ wall - sup.pressedAt <= Window /\ AllSourcesFresh

\* A request is an SI_STOP exactly when a fault is latched as it is published,
\* for a reason; it then carries the number of that fault, and no other
\* request carries a number.  So on every path: the latch, or a follower output
\* rejected after the latch was found clear.
StopNamesFault ==
  outSeq' # outSeq =>
    IF out'.decision = "SI_STOP"
    THEN sup'.latched /\ sup'.reason # "none" /\ out'.faultId = sup'.faultId /\ out'.faultId # 0
    ELSE ~sup'.latched /\ out'.faultId = 0

\* A number is one stop: a stop that starts takes the next number, and the
\* number stays while the stop lasts, whatever reasons follow.  A latched stop
\* is renumbered only in a tick that could end it and found a new fault.
NumberIsOneStop ==
  /\ sup'.faultId \in {sup.faultId, sup.faultId + 1}
  /\ sup'.faultId = sup.faultId => (sup'.latched => sup.latched)
  /\ sup'.faultId # sup.faultId =>
       /\ sup'.latched
       /\ sup.latched => outSeq' # outSeq /\ StopMayEnd

\* The observer can join every published stop to the fault that is in force,
\* and two requests with one number to one stop.
StopCarriesFault == [][StopNamesFault /\ NumberIsOneStop]_vars

\* A latched stop ends only by the operator: while a fault is latched every
\* tick publishes SI_STOP, except the one that finds a request inside its
\* window and every source fresh.
StopUntilReenabled ==
  [][sup.latched /\ outSeq' # outSeq /\ ~Publishes("SI_STOP") => StopMayEnd]_vars

\* No source masks another: a tick that finds any supervised source stale
\* publishes SI_STOP, whatever else is fresh and whatever the operator asked.
StaleSourceStops ==
  outSeq' # outSeq /\ StaleSources # {} => Publishes("SI_STOP")

\* Nothing is approved before every feedback source and the selected source
\* were seen at least once ("never seen" is not stale, so the watchdogs alone
\* would let it through).
NoApprovalUnseen == Publishes("NORMAL") => InputsSeen

\* The speed target of a stop never rises while its fault lasts, however the
\* reason changes and however the system clock is stepped.
TargetOnlyFalls ==
  Publishes("SI_STOP") /\ out.decision = "SI_STOP" /\ out'.faultId = out.faultId
    => out'.payload.speed <= out.payload.speed

\* A stop that starts while the odometry is old, or was never seen, starts at
\* standstill: only a fresh sample may ask for a speed, wherever the fault is
\* found.
OldSpeedStartsNoRamp ==
  sup'.faultId # sup.faultId =>
    sup'.v0 = IF "odometry" \in StaleSources \/ ~Seen("odometry") THEN 0 ELSE vehicle.speed

\* A stop never asks a vehicle to speed up.
StopNeverSpeedsUp == [][TargetOnlyFalls /\ OldSpeedStartsNoRamp]_vars

\* A stop or a hold never resets the steering: after the first approval the
\* steering demand changes only with a new approval.
SteeringHeld ==
  [][outSeq' # outSeq /\ ~Publishes("NORMAL") /\ approved.given
       => out'.payload.steer = out.payload.steer]_vars

\* Whatever reaches the actuator as NORMAL is inside the actuation envelope,
\* from the follower and from VisionPilot alike.
ApprovedInEnvelope ==
  out.decision = "NORMAL" =>
    /\ Abs(out.payload.steer) <= IF Config = "vp" THEN MaxSteer ELSE FollowerMaxSteer
    /\ Abs(out.payload.speed) <= MaxSpeed
    /\ Abs(out.payload.accel) <= MaxAccel

\* Only news feeds the selected source's watchdog: its arrival time moves only
\* with a candidate whose source stamp is later than every accepted one, so a
\* republished plan or camera frame cannot hide a dead producer.
OnlyNewsIsFresh ==
  arrival'[Selected] # arrival[Selected] =>
    IF Config = "si_autoware"
    THEN autowareId.seen => autowareId'.stamp > autowareId.stamp
    ELSE vpId.seen => vpId'.stamp > vpId.stamp

\* Nor does a reference that cannot be placed: the frame that feeds the watchdog
\* has its own ego pose in the history, so a producer that lags behind the ring
\* is found dead.
OnlyPlacedIsFresh ==
  Config = "si_vp" /\ arrival'[Selected] # arrival[Selected] =>
    \E i \in 1 .. Len(ego) : ego[i] = vpId'.stamp

\* Every supervised source counts: none masks another that is stale, and only
\* news that can be used keeps the selected one from being stale.
EverySourceCounts == [][StaleSourceStops /\ OnlyNewsIsFresh /\ OnlyPlacedIsFresh]_vars

\* An approval is earned: by inputs that were all seen, for a payload inside
\* the envelope.
ApprovalEarned == [][NoApprovalUnseen /\ ApprovedInEnvelope']_vars

\* While Linux holds the rpmsg-si fault input at 1 every tick publishes
\* SI_STOP, whatever requests are pending.
HeldFaultStops == outSeq' # outSeq /\ si.fault => Publishes("SI_STOP")

\* So does the tick after a rising edge, even when fault=0 followed, with one
\* exception: the stop was latched for this reason before the edge, so that the
\* edge withdraws no request, and the operator's request of that stop ends it.
EdgeStopsUnlessLatched ==
  outSeq' # outSeq /\ SiEdge /\ ~Publishes("SI_STOP") =>
    /\ sup.latched /\ sup.reason = "si_fault_input"
    /\ StopMayEnd

\* What the fault input guarantees, at its level and at its edges.
FaultInputStops == [][HeldFaultStops /\ EdgeStopsUnlessLatched]_vars

\* A rising edge of the fault input always stops the vehicle at the next tick,
\* as the comment of the control tick says ("A fault rising edge latches even
\* when fault=0 follows before this tick").
FaultEdgeStops == [][outSeq' # outSeq /\ SiEdge => Publishes("SI_STOP")]_vars

-----------------------------------------------------------------------------
\* The controller implements the abstract latch.
Latch == INSTANCE StopLatch WITH
  stopped <- sup.latched, permit <- sup.pending,
  published <- outSeq, decision <- out.decision

\* Every behaviour of the controller is one of the contract's: no callback,
\* clock step or channel message ends a stop or restores a withdrawn request.
ImplementsStopLatch == Latch!Spec

=============================================================================
