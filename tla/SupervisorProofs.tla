-------------------------- MODULE SupervisorProofs --------------------------
(***************************************************************************)
(* Proofs about Supervisor for every value of its constants.               *)
(***************************************************************************)
EXTENDS Supervisor, TLAPS

-----------------------------------------------------------------------------
(* The operators the control tick is built from.                           *)

\* supervisorStaleReason() names a source that is stale.
LEMMA StaleReasonIsStale ==
  ASSUME StaleSources # {}
  PROVE  StaleReason \in StaleSources
<1> DEFINE First(s) == \A t \in StaleSources : CheckRank[s] <= CheckRank[t]
<1>1. \A s \in StaleSources : CheckRank[s] \in 1 .. 6
  BY DEF StaleSources, CheckRank
<1>2. \A k \in 1 .. 6 :
        (\E s \in StaleSources : CheckRank[s] = k)
        /\ (\A s \in StaleSources : CheckRank[s] >= k)
        => \E s \in StaleSources : First(s)
  BY <1>1
<1>3. \E s \in StaleSources : First(s)
  <2> SUFFICES ASSUME ~ \E s \in StaleSources : First(s) PROVE FALSE
    OBVIOUS
  <2>1. \A s \in StaleSources : CheckRank[s] >= 2
    BY <1>1, <1>2
  <2>2. \A s \in StaleSources : CheckRank[s] >= 3
    BY <1>1, <1>2, <2>1
  <2>3. \A s \in StaleSources : CheckRank[s] >= 4
    BY <1>1, <1>2, <2>2
  <2>4. \A s \in StaleSources : CheckRank[s] >= 5
    BY <1>1, <1>2, <2>3
  <2>5. \A s \in StaleSources : CheckRank[s] >= 6
    BY <1>1, <1>2, <2>4
  <2> QED BY <1>1, <1>2, <2>5
<1> HIDE DEF First
<1>4. StaleReason = CHOOSE s \in StaleSources : First(s)
  BY DEF StaleReason, First
<1> QED BY <1>3, <1>4

\* latchFault keeps the latch in its type and always leaves it latched.
LEMMA LatchFaultType ==
  ASSUME NEW s \in Latches, NEW why \in Reasons,
         steady \in Nat, vehicle.speed \in Int
  PROVE  LatchFault(s, why) \in Latches /\ LatchFault(s, why).latched
<1>1. RampOrigin \in Int
  BY DEF RampOrigin
<1>2. CASE ~s.latched
  BY <1>1, <1>2 DEF LatchFault, Latches
<1>3. CASE s.latched
  BY <1>3 DEF LatchFault, Latches
<1> QED BY <1>2, <1>3

\* Expiring and clearing keep the latch in its type.
LEMMA ExpireClearType ==
  ASSUME NEW s \in Latches
  PROVE  ExpireIfOld(s) \in Latches /\ ClearIfReenabled(s) \in Latches
BY DEF ExpireIfOld, ClearIfReenabled, Latches, Reasons

\* The latch after the checks of a tick is in its type.
LEMMA SupervisedType ==
  ASSUME TypeOK
  PROVE  Supervised \in Latches
<1> DEFINE timed  == IF StaleSources = {} THEN sup ELSE LatchFault(sup, StaleReason)
           faulty == IF SiEdge THEN LatchFault(timed, "si_fault_input") ELSE timed
<1>1. steady \in Nat /\ vehicle.speed \in Int /\ sup \in Latches
  BY DEF TypeOK
<1>2. StaleSources # {} => StaleReason \in Reasons
  BY StaleReasonIsStale DEF StaleSources, Reasons
<1>3. timed \in Latches
  BY <1>1, <1>2, LatchFaultType
<1>4. "si_fault_input" \in Reasons
  BY DEF Reasons
<1>5. faulty \in Latches
  BY <1>1, <1>3, <1>4, LatchFaultType
<1>6. ExpireIfOld(faulty) \in Latches
  BY <1>5, ExpireClearType
<1>7. ClearIfReenabled(ExpireIfOld(faulty)) \in Latches
  BY <1>6, ExpireClearType
<1>8. Supervised = IF faulty.latched THEN ClearIfReenabled(ExpireIfOld(faulty)) ELSE faulty
  BY DEF Supervised
<1> QED BY <1>5, <1>7, <1>8

\* The stopped payload is a payload.
LEMMA StoppedPayloadType ==
  ASSUME TypeOK, NEW s \in Latches
  PROVE  StoppedPayload(s) \in Payloads
<1>1. Decel \in Int /\ MaxSpeed \in Int
  BY NumberAssumption DEF NumberAssumption
<1>2. s.v0 \in Int /\ steady - s.rampAt \in Int
  BY DEF TypeOK, Latches
<1>3. RampSpeed(s.v0, steady - s.rampAt) \in Int
  BY <1>1, <1>2 DEF RampSpeed
<1>4. approved.payload.steer \in Int /\ vehicle.steer \in Int
  BY DEF TypeOK, Payloads
<1>5. s.latched \in BOOLEAN /\ approved.given \in BOOLEAN
  BY DEF TypeOK, Latches
<1>6. (IF approved.given THEN approved.payload.steer
       ELSE IF Seen("steering_report") THEN vehicle.steer ELSE 0) \in Int
  <2>1. "steering_report" \in Sources
    BY ConfigAssumption DEF ConfigAssumption, Sources
  <2>2. arrival["steering_report"] \in Int
    BY <2>1 DEF TypeOK
  <2> QED BY <1>4, <1>5, <2>2 DEF Seen
<1>7. (IF s.latched THEN RampSpeed(s.v0, steady - s.rampAt) ELSE 0) \in Int
  BY <1>3
<1>8. -Decel \in Int
  BY <1>1
<1> QED BY <1>6, <1>7, <1>8 DEF StoppedPayload, Payloads

\* What is published is well typed.
LEMMA PublishType ==
  ASSUME TypeOK, NEW s \in Latches, NEW decision \in Decisions,
         NEW payload \in Payloads, NEW from \in Identity,
         Publish(decision, payload, s, from)
  PROVE  /\ sup' \in Latches /\ accepted' \in Identity
         /\ approved' \in [given : BOOLEAN, payload : Payloads]
         /\ outSeq' \in Nat
         /\ out' \in [decision : Decisions \cup {"none"}, faultId : Nat, from : Identity,
                      payload : Payloads, legacy : BOOLEAN]
<1>1. (IF s.latched THEN s.faultId ELSE 0) \in Nat
  BY DEF Latches
<1>2. (~LegacyStopOnly \/ decision = "SI_STOP") \in BOOLEAN
  OBVIOUS
<1> QED BY <1>1, <1>2 DEF Publish, TypeOK

\* So is what a stop and a hold publish.
LEMMA StopHoldType ==
  ASSUME TypeOK, NEW s \in Latches, SiStop(s) \/ Hold(s)
  PROVE  /\ sup' \in Latches /\ accepted' \in Identity
         /\ approved' \in [given : BOOLEAN, payload : Payloads]
         /\ outSeq' \in Nat
         /\ out' \in [decision : Decisions \cup {"none"}, faultId : Nat, from : Identity,
                      payload : Payloads, legacy : BOOLEAN]
<1>1. StoppedPayload(s) \in Payloads
  BY StoppedPayloadType
<1>2. accepted \in Identity /\ "SI_STOP" \in Decisions /\ "HOLD" \in Decisions
  BY DEF TypeOK, Decisions
<1> QED BY <1>1, <1>2, PublishType DEF SiStop, Hold

-----------------------------------------------------------------------------
(* Type correctness.                                                       *)

LEMMA InitType == Init => TypeOK
<1> SUFFICES ASSUME Init PROVE TypeOK
  OBVIOUS
<1>1. sup \in Latches
  BY DEF Init, Latches, Reasons
<1>2. vpId \in VpIdentities /\ Len(vpId.retired) <= RetiredWindow
  BY RetiredWindowAssumption DEF Init, VpIdentities, FreshVpIdentity, RetiredWindowAssumption
<1>3. autowareId \in AutowareIdentities
  BY DEF Init, AutowareIdentities, FreshAutowareIdentity
<1>4. ego \in Seq(Int) /\ Len(ego) <= EgoWindow
  BY NumberAssumption DEF Init, NumberAssumption
<1>5. /\ command \in [session : Nat, cycle : Nat, payload : Payloads]
      /\ accepted \in Identity
      /\ approved \in [given : BOOLEAN, payload : Payloads]
      /\ out \in [decision : Decisions \cup {"none"}, faultId : Nat, from : Identity,
                  payload : Payloads, legacy : BOOLEAN]
  BY DEF Init, Identity, Payloads, ZeroPayload
<1>6. /\ wall \in Nat /\ steady \in Nat /\ outSeq \in Nat
      /\ arrival \in [Sources -> Int]
      /\ \A s \in Sources : arrival[s] >= -1
      /\ si \in [fault : BOOLEAN, events : Nat, seen : Nat]
      /\ vehicle \in [speed : Int, steer : Int]
  BY DEF Init
<1> QED BY <1>1, <1>2, <1>3, <1>4, <1>5, <1>6 DEF TypeOK

\* A bounded ring stays bounded.
LEMMA RetireType ==
  ASSUME NEW ring \in Seq(Nat), Len(ring) <= RetiredWindow, NEW session \in Nat
  PROVE  Retire(ring, session) \in Seq(Nat) /\ Len(Retire(ring, session)) <= RetiredWindow
<1>1. RetiredWindow \in Nat \ {0}
  BY RetiredWindowAssumption DEF RetiredWindowAssumption
<1>2. CASE Len(ring) < RetiredWindow
  BY <1>1, <1>2 DEF Retire
<1>3. CASE Len(ring) = RetiredWindow
  <2>1. Tail(ring) \in Seq(Nat) /\ Len(Tail(ring)) = RetiredWindow - 1
    BY <1>1, <1>3
  <2> QED BY <1>1, <1>3, <2>1 DEF Retire
<1> QED BY <1>1, <1>2, <1>3

LEMMA VpNoteType ==
  ASSUME NEW id \in VpIdentities, Len(id.retired) <= RetiredWindow,
         NEW session \in Nat, NEW cycle \in Nat, NEW stamp \in Int
  PROVE  /\ VpNote(id, session, cycle, stamp) \in VpIdentities
         /\ Len(VpNote(id, session, cycle, stamp).retired) <= RetiredWindow
<1>1. id.retired \in Seq(Nat) /\ id.session \in Nat
  BY DEF VpIdentities
<1>2. Retire(id.retired, id.session) \in Seq(Nat)
      /\ Len(Retire(id.retired, id.session)) <= RetiredWindow
  BY <1>1, RetireType
<1> QED BY <1>1, <1>2 DEF VpNote, VpIdentities

\* A callback notes an arrival at the current time.
LEMMA NoteType ==
  ASSUME TypeOK, NEW s \in Sources, Note(s)
  PROVE  /\ arrival' \in [Sources -> Int]
         /\ \A t \in Sources : arrival'[t] >= -1
BY DEF Note, TypeOK

\* A callback that latches a fault keeps every type.
LEMMA FaultType ==
  ASSUME TypeOK, NEW why \in Reasons, Fault(why)
  PROVE  TypeOK'
<1>1. LatchFault(sup, why) \in Latches
  BY LatchFaultType DEF TypeOK
<1> QED BY <1>1 DEF Fault, TypeOK, clocks, candidates, outputs

LEMMA IgnoreType == TypeOK /\ UNCHANGED vars => TypeOK'
BY DEF TypeOK, vars

LEMMA SourceNames ==
  /\ "odometry" \in Sources /\ "steering_report" \in Sources
  /\ Heartbeat \in Sources /\ Selected \in Sources /\ Feedback \subseteq Sources
BY ConfigAssumption DEF ConfigAssumption, Sources

LEMMA ControlTickType == TypeOK /\ ControlTick => TypeOK'
<1> SUFFICES ASSUME TypeOK, ControlTick PROVE TypeOK'
  OBVIOUS
<1> DEFINE OutputsOK ==
             /\ sup' \in Latches /\ accepted' \in Identity
             /\ approved' \in [given : BOOLEAN, payload : Payloads]
             /\ outSeq' \in Nat
             /\ out' \in [decision : Decisions \cup {"none"}, faultId : Nat, from : Identity,
                          payload : Payloads, legacy : BOOLEAN]
<1>1. Supervised \in Latches
  BY SupervisedType
<1>2. ASSUME StopTick PROVE OutputsOK
  BY <1>1, <1>2, StopHoldType DEF StopTick
<1>3. ASSUME NEW ready \in BOOLEAN, HoldTick(ready) PROVE OutputsOK
  BY <1>1, <1>3, StopHoldType DEF HoldTick
<1>4. ASSUME PassCommandTick PROVE OutputsOK
  <2>1. command.payload \in Payloads
        /\ [session |-> command.session, cycle |-> command.cycle] \in Identity
        /\ "NORMAL" \in Decisions
    BY DEF TypeOK, Identity, Decisions
  <2> QED BY <1>1, <1>4, <2>1, PublishType DEF PassCommandTick
<1>5. ASSUME NEW proposal \in FollowerOutputs, FollowTick(proposal) PROVE OutputsOK
  <2>1. proposal \in Payloads /\ accepted \in Identity /\ "NORMAL" \in Decisions
    BY InputAssumption DEF InputAssumption, TypeOK, Decisions
  <2>2. EnvelopeViolation(proposal) \in Reasons
    BY DEF EnvelopeViolation, Reasons
  <2>3. LatchFault(Supervised, EnvelopeViolation(proposal)) \in Latches
    BY <1>1, <2>2, LatchFaultType DEF TypeOK
  <2>4. CASE EnvelopeViolation(proposal) = "none"
    BY <1>1, <1>5, <2>1, <2>4, PublishType DEF FollowTick, ApproveFollower
  <2>5. CASE EnvelopeViolation(proposal) # "none"
    BY <1>5, <2>3, <2>5, StopHoldType DEF FollowTick, ApproveFollower
  <2> QED BY <2>4, <2>5
<1>6. OutputsOK
  BY <1>2, <1>3, <1>4, <1>5 DEF ControlTick
<1>7. si' \in [fault : BOOLEAN, events : Nat, seen : Nat]
  BY DEF ControlTick, TypeOK
<1> QED BY <1>6, <1>7 DEF ControlTick, TypeOK, clocks

LEMMA FeedbackType ==
  ASSUME TypeOK,
         \/ \E a \in SteerReports : SteeringStatus(a)
         \/ \E s \in Feedback : OtherFeedback(s)
         \/ \E m \in Odometries : Odometry(m)
         \/ HeartbeatSample
         \/ Reenable
  PROVE  TypeOK'
<1>1. ASSUME NEW a \in SteerReports, SteeringStatus(a) PROVE TypeOK'
  <2>1. vehicle' \in [speed : Int, steer : Int]
    BY <1>1, InputAssumption DEF SteeringStatus, TypeOK, InputAssumption
  <2> QED BY <1>1, <2>1, NoteType, SourceNames
          DEF SteeringStatus, TypeOK, clocks, candidates, outputs
<1>2. ASSUME NEW s \in Feedback, OtherFeedback(s) PROVE TypeOK'
  BY <1>2, NoteType, SourceNames DEF OtherFeedback, TypeOK, clocks, candidates, outputs
<1>3. ASSUME NEW m \in Odometries, Odometry(m) PROVE TypeOK'
  <2>1. m.stamp \in Int /\ m.speed \in Int
    BY InputAssumption DEF InputAssumption
  <2>2. vehicle' \in [speed : Int, steer : Int]
    BY <1>3, <2>1 DEF Odometry, TypeOK
  <2>3. ego' \in Seq(Int) /\ Len(ego') <= EgoWindow
    <3>1. EgoWindow \in Nat \ {0} /\ ego \in Seq(Int) /\ Len(ego) <= EgoWindow
      BY NumberAssumption DEF NumberAssumption, TypeOK
    <3>2. CASE Len(ego) < EgoWindow
      BY <1>3, <2>1, <3>1, <3>2 DEF Odometry, EgoNote
    <3>3. CASE Len(ego) = EgoWindow
      <4>1. Tail(ego) \in Seq(Int) /\ Len(Tail(ego)) = EgoWindow - 1
        BY <3>1, <3>3
      <4> QED BY <1>3, <2>1, <3>1, <3>3, <4>1 DEF Odometry, EgoNote
    <3> QED BY <3>1, <3>2, <3>3
  <2> QED BY <1>3, <2>2, <2>3, NoteType, SourceNames
          DEF Odometry, TypeOK, clocks, candidates, outputs
<1>4. ASSUME HeartbeatSample PROVE TypeOK'
  BY <1>4, NoteType, SourceNames DEF HeartbeatSample, TypeOK, clocks, candidates, outputs
<1>5. ASSUME Reenable PROVE TypeOK'
  BY <1>5 DEF Reenable, TypeOK, Latches, clocks, candidates, outputs
<1> QED BY <1>1, <1>2, <1>3, <1>4, <1>5

LEMMA TrajectoryType ==
  ASSUME TypeOK, NEW m \in Trajectories, Trajectory(m)
  PROVE  TypeOK'
<1>1. m.stamp \in Int
  BY InputAssumption DEF InputAssumption
<1>2. ASSUME AcceptTrajectory(m) PROVE TypeOK'
  <2>1. autowareId' \in AutowareIdentities
    BY <1>1, <1>2 DEF AcceptTrajectory, AutowareNote, AutowareIdentities
  <2> QED BY <1>2, <2>1, NoteType, SourceNames
          DEF AcceptTrajectory, TypeOK, clocks, outputs
<1>3. {"invalid_autoware_trajectory", "non_finite_autoware_trajectory",
       "autoware_trajectory_stamp_regression_or_invalid_stamp"} \subseteq Reasons
  BY DEF Reasons
<1>4. AcceptTrajectory(m) \/ Ignore \/ \E why \in Reasons : Fault(why)
  BY <1>3 DEF Trajectory
<1> QED BY <1>2, <1>4, FaultType, IgnoreType DEF Ignore

LEMMA DrivingReferenceType ==
  ASSUME TypeOK, NEW m \in References, DrivingReference(m)
  PROVE  TypeOK'
<1>1. m.session \in Nat /\ m.cycle \in Nat /\ m.stamp \in Int
  BY InputAssumption DEF InputAssumption
<1>2. ASSUME AcceptReference(m) PROVE TypeOK'
  <2>1. vpId' \in VpIdentities /\ Len(vpId'.retired) <= RetiredWindow
    BY <1>1, <1>2, VpNoteType DEF AcceptReference, TypeOK
  <2>2. accepted' \in Identity
    BY <1>1, <1>2 DEF AcceptReference, Identity
  <2> QED BY <1>2, <2>1, <2>2, NoteType, SourceNames
          DEF AcceptReference, TypeOK, clocks, outputs
<1>3. {"invalid_vp_driving_reference", "non_finite_vp_driving_reference",
       "vp_driving_reference_regression_or_invalid_stamp"} \subseteq Reasons
  BY DEF Reasons
<1>4. AcceptReference(m) \/ Ignore \/ \E why \in Reasons : Fault(why)
  BY <1>3 DEF DrivingReference
<1> QED BY <1>2, <1>4, FaultType, IgnoreType DEF Ignore

LEMMA DrivingCommandType ==
  ASSUME TypeOK, NEW m \in Commands, DrivingCommand(m)
  PROVE  TypeOK'
<1>1. m.session \in Nat /\ m.cycle \in Nat /\ m.stamp \in Int /\ m.payload \in Payloads
  BY InputAssumption DEF InputAssumption
<1>2. ASSUME AcceptCommand(m) PROVE TypeOK'
  <2>1. vpId' \in VpIdentities /\ Len(vpId'.retired) <= RetiredWindow
    BY <1>1, <1>2, VpNoteType DEF AcceptCommand, TypeOK
  <2>2. command' \in [session : Nat, cycle : Nat, payload : Payloads]
    BY <1>1, <1>2 DEF AcceptCommand
  <2> QED BY <1>2, <2>1, <2>2, NoteType, SourceNames
          DEF AcceptCommand, TypeOK, clocks, outputs
<1>3. {CommandViolation(m), "vp_command_regression_or_invalid_stamp"} \subseteq Reasons
  BY DEF CommandViolation, Reasons
<1>4. AcceptCommand(m) \/ Ignore \/ \E why \in Reasons : Fault(why)
  BY <1>3 DEF DrivingCommand
<1> QED BY <1>2, <1>4, FaultType, IgnoreType DEF Ignore

LEMMA EnvironmentType ==
  ASSUME TypeOK,
         \/ Elapse
         \/ \E d \in WallSteps : StepWallClock(d)
         \/ \E level \in BOOLEAN : SiFault(level)
  PROVE  TypeOK'
<1>1. ASSUME Elapse PROVE TypeOK'
  BY <1>1 DEF Elapse, TypeOK, candidates, outputs
<1>2. ASSUME NEW d \in WallSteps, StepWallClock(d) PROVE TypeOK'
  BY <1>2, NumberAssumption DEF NumberAssumption, StepWallClock, TypeOK, candidates, outputs
<1>3. ASSUME NEW level \in BOOLEAN, SiFault(level) PROVE TypeOK'
  BY <1>3 DEF SiFault, TypeOK, clocks, candidates, outputs
<1> QED BY <1>1, <1>2, <1>3

\* Every step keeps every type.
LEMMA NextType == TypeOK /\ [Next]_vars => TypeOK'
BY ControlTickType, FeedbackType, TrajectoryType, DrivingReferenceType,
   DrivingCommandType, EnvironmentType, IgnoreType DEF Next

\* Type correctness: in particular the rings of retired sessions and of ego
\* poses stay inside their fixed memory, whatever the transport delivers.
THEOREM TypeCorrect == Spec => []TypeOK
BY InitType, NextType, PTL DEF Spec

-----------------------------------------------------------------------------
(* What the checks of a tick leave of the latch.                           *)

\* A tick that starts latched, or finds a stale source, is still latched after
\* its checks unless an operator request that is inside its window meets
\* sources that are all fresh; then the request is consumed.
LEMMA SupervisedLatched ==
  ASSUME TypeOK, sup.latched \/ StaleSources # {}, ~Supervised.latched
  PROVE  /\ sup.latched /\ sup.pending /\ wall - sup.pressedAt <= Window
         /\ AllSourcesFresh
         /\ ~Supervised.pending
<1> DEFINE timed  == IF StaleSources = {} THEN sup ELSE LatchFault(sup, StaleReason)
           faulty == IF SiEdge THEN LatchFault(timed, "si_fault_input") ELSE timed
<1>1. steady \in Nat /\ vehicle.speed \in Int /\ sup \in Latches /\ wall \in Nat
  BY DEF TypeOK
<1>2. StaleSources # {} => StaleReason \in Reasons
  BY StaleReasonIsStale DEF StaleSources, Reasons
<1>3. timed \in Latches /\ timed.latched
  BY <1>1, <1>2, LatchFaultType
<1>4. "si_fault_input" \in Reasons
  BY DEF Reasons
<1>5. faulty \in Latches /\ faulty.latched
  BY <1>1, <1>3, <1>4, LatchFaultType
<1>6. Supervised = ClearIfReenabled(ExpireIfOld(faulty))
  BY <1>5 DEF Supervised
<1>7. /\ AllSourcesFresh /\ ExpireIfOld(faulty).pending
      /\ ~Supervised.pending
  BY <1>5, <1>6 DEF ClearIfReenabled, ExpireIfOld, Latches
<1>8. faulty.pending /\ ~(wall - faulty.pressedAt > Window)
  BY <1>5, <1>7 DEF ExpireIfOld, Latches
<1>9. StaleSources = {} /\ timed = sup
  BY <1>7 DEF AllSourcesFresh
<1>10. sup.latched
  BY <1>9
<1>11. sup.pending /\ faulty.pressedAt = sup.pressedAt
  BY <1>1, <1>8, <1>9, <1>10 DEF LatchFault, Latches
<1> QED BY <1>1, <1>7, <1>8, <1>10, <1>11, NumberAssumption DEF NumberAssumption, Latches

\* A tick that publishes anything else than SI_STOP found its latch clear.
LEMMA OnlyStopWhileLatched ==
  ASSUME ControlTick, out'.decision # "SI_STOP"
  PROVE  ~Supervised.latched
BY DEF ControlTick, StopTick, SiStop, Publish, HoldTick, PassCommandTick, FollowTick

\* Only the control tick publishes.
LEMMA OnlyTicksPublish ==
  ASSUME [Next]_vars, outSeq' # outSeq
  PROVE  ControlTick
BY DEF Next, vars, SteeringStatus, OtherFeedback, Odometry, HeartbeatSample, Reenable,
       Trajectory, AcceptTrajectory, DrivingReference, AcceptReference, DrivingCommand,
       AcceptCommand, Fault, Ignore, Elapse, StepWallClock, SiFault, outputs

\* A latched stop ends only by the operator, for every set of sources, every
\* timeout and window, and every order of callbacks and clock steps.
THEOREM LatchedUntilReenabled == Spec => StopUntilReenabled
<1>1. ASSUME TypeOK, [Next]_vars, sup.latched, outSeq' # outSeq, ~Publishes("SI_STOP")
      PROVE  StopMayEnd
  BY <1>1, OnlyTicksPublish, OnlyStopWhileLatched, SupervisedLatched DEF Publishes, StopMayEnd
<1>2. TypeOK /\ [Next]_vars =>
        [sup.latched /\ outSeq' # outSeq /\ ~Publishes("SI_STOP") => StopMayEnd]_vars
  BY <1>1
<1> QED BY <1>2, TypeCorrect, PTL DEF Spec, StopUntilReenabled

\* No source masks another.
THEOREM EveryStaleSourceStops == Spec => [][StaleSourceStops]_vars
<1>1. TypeOK /\ [Next]_vars => [StaleSourceStops]_vars
  <2> SUFFICES ASSUME TypeOK, [Next]_vars, outSeq' # outSeq, StaleSources # {}
               PROVE  Publishes("SI_STOP")
    BY DEF StaleSourceStops
  <2>1. ControlTick
    BY OnlyTicksPublish
  <2>2. ~AllSourcesFresh
    BY DEF AllSourcesFresh
  <2> QED BY <2>1, <2>2, OnlyStopWhileLatched, SupervisedLatched DEF Publishes
<1> QED BY <1>1, TypeCorrect, PTL DEF Spec

\* Nothing is approved before every input was seen: a NORMAL decision comes
\* from the command path or the follower path, and both wait for the inputs.
THEOREM ApprovalNeedsInputs == Spec => [][NoApprovalUnseen]_vars
<1>1. TypeOK /\ [Next]_vars => [NoApprovalUnseen]_vars
  <2> SUFFICES ASSUME TypeOK, [Next]_vars, Publishes("NORMAL")
               PROVE  InputsSeen
    BY DEF NoApprovalUnseen
  <2>1. ControlTick
    BY OnlyTicksPublish DEF Publishes
  <2>2. ~StopTick /\ \A ready \in BOOLEAN : ~HoldTick(ready)
    BY DEF Publishes, StopTick, HoldTick, SiStop, Hold, Publish
  <2> QED BY <2>1, <2>2 DEF ControlTick, PassCommandTick, FollowTick
<1> QED BY <1>1, TypeCorrect, PTL DEF Spec

-----------------------------------------------------------------------------
(* The fault input.                                                        *)

\* A held fault input is accounted for: its rising edge is still to be seen by
\* a tick, or the latch it started is still there.
FaultAccounted ==
  /\ si.seen <= si.events
  /\ si.fault => HasSiChannel /\ (SiEdge \/ sup.latched)

\* A tick that starts with an accounted, held fault ends its checks latched.
LEMMA SupervisedUnderFault ==
  ASSUME TypeOK, FaultAccounted, si.fault
  PROVE  Supervised.latched
<1> DEFINE timed == IF StaleSources = {} THEN sup ELSE LatchFault(sup, StaleReason)
<1>1. ~AllSourcesFresh
  BY DEF AllSourcesFresh, FaultAccounted
<1>2. CASE sup.latched
  BY <1>1, <1>2, SupervisedLatched
<1>3. CASE SiEdge
  <2>1. steady \in Nat /\ vehicle.speed \in Int /\ sup \in Latches
    BY DEF TypeOK
  <2>2. StaleSources # {} => StaleReason \in Reasons
    BY StaleReasonIsStale DEF StaleSources, Reasons
  <2>3. timed \in Latches
    BY <2>1, <2>2, LatchFaultType
  <2>4. "si_fault_input" \in Reasons
    BY DEF Reasons
  <2> DEFINE faulty == LatchFault(timed, "si_fault_input")
  <2>5. faulty \in Latches /\ faulty.latched
    BY <2>1, <2>3, <2>4, LatchFaultType
  <2>6. Supervised = ClearIfReenabled(ExpireIfOld(faulty))
    BY <1>3, <2>5 DEF Supervised
  <2> HIDE DEF faulty
  <2>7. ExpireIfOld(faulty).latched
    BY <2>5 DEF ExpireIfOld, Latches
  <2> QED BY <1>1, <2>6, <2>7 DEF ClearIfReenabled
<1> QED BY <1>2, <1>3 DEF FaultAccounted

\* No callback ends a stop.
LEMMA CallbacksKeepLatch ==
  ASSUME TypeOK, [Next]_vars, ~ControlTick, sup.latched
  PROVE  sup'.latched
<1>1. steady \in Nat /\ vehicle.speed \in Int /\ sup \in Latches
  BY DEF TypeOK
<1>2. ASSUME NEW why \in Reasons, Fault(why) PROVE sup'.latched
  BY <1>1, <1>2, LatchFaultType DEF Fault
<1>3. ASSUME NEW m, Trajectory(m) PROVE sup'.latched
  BY <1>2, <1>3 DEF Trajectory, AcceptTrajectory, Ignore, vars, Reasons
<1>4. ASSUME NEW m, DrivingReference(m) PROVE sup'.latched
  BY <1>2, <1>4 DEF DrivingReference, AcceptReference, Ignore, vars, Reasons
<1>5. ASSUME NEW m, DrivingCommand(m) PROVE sup'.latched
  BY <1>2, <1>5 DEF DrivingCommand, AcceptCommand, CommandViolation, Ignore, vars, Reasons
<1>6. CASE Reenable
  BY <1>1, <1>6 DEF Reenable, Latches
<1> QED
  BY <1>3, <1>4, <1>5, <1>6 DEF Next, vars, SteeringStatus, OtherFeedback, Odometry,
     HeartbeatSample, Elapse, StepWallClock, SiFault

\* Only the channel and the control tick touch the fault input.
LEMMA FaultInputChanges ==
  ASSUME [Next]_vars, ~ControlTick, \A level \in BOOLEAN : ~SiFault(level)
  PROVE  si' = si
BY DEF Next, vars, SteeringStatus, OtherFeedback, Odometry, HeartbeatSample, Reenable,
       Trajectory, AcceptTrajectory, DrivingReference, AcceptReference, DrivingCommand,
       AcceptCommand, Fault, Ignore, Elapse, StepWallClock

LEMMA NextAccounted ==
  ASSUME TypeOK, FaultAccounted, [Next]_vars
  PROVE  FaultAccounted'
<1>1. CASE ControlTick
  <2>1. si'.fault = si.fault /\ si'.seen <= si'.events
    BY <1>1 DEF ControlTick, TypeOK, FaultAccounted
  <2>2. si.fault => sup' = Supervised
    BY <1>1, SupervisedUnderFault DEF ControlTick, StopTick, HoldTick, PassCommandTick,
       FollowTick, SiStop, Publish
  <2> QED BY <2>1, <2>2, SupervisedUnderFault DEF FaultAccounted
<1>2. ASSUME ~ControlTick, NEW level \in BOOLEAN, SiFault(level)
      PROVE  FaultAccounted'
  <2>1. si'.seen = si.seen /\ si'.fault = level /\ HasSiChannel /\ sup' = sup
    BY <1>2 DEF SiFault
  <2>2. si'.events = IF level /\ ~si.fault THEN si.events + 1 ELSE si.events
    BY <1>2 DEF SiFault, TypeOK
  <2> QED BY <2>1, <2>2 DEF FaultAccounted, SiEdge, TypeOK
<1>3. CASE ~ControlTick /\ \A level \in BOOLEAN : ~SiFault(level)
  <2>1. si' = si
    BY <1>3, FaultInputChanges
  <2> QED BY <1>3, <2>1, CallbacksKeepLatch DEF FaultAccounted, SiEdge
<1> QED BY <1>1, <1>2, <1>3

\* A tick that finds a new edge ends its checks latched, unless the stop it
\* starts is in force already: a new reason withdraws every earlier request.
LEMMA SupervisedAfterEdge ==
  ASSUME TypeOK, SiEdge, ~(sup.latched /\ sup.reason = "si_fault_input")
  PROVE  Supervised.latched
<1>1. CASE StaleSources # {}
  <2>1. ~AllSourcesFresh
    BY <1>1 DEF AllSourcesFresh
  <2> QED BY <1>1, <2>1, SupervisedLatched
<1>2. CASE StaleSources = {}
  <2> DEFINE faulty == LatchFault(sup, "si_fault_input")
  <2>1. steady \in Nat /\ vehicle.speed \in Int /\ sup \in Latches /\ "si_fault_input" \in Reasons
    BY DEF TypeOK, Reasons
  <2>2. faulty \in Latches /\ faulty.latched
    BY <2>1, LatchFaultType
  <2>3. ~faulty.pending
    BY <2>1 DEF LatchFault, Latches
  <2>4. Supervised = ClearIfReenabled(ExpireIfOld(faulty))
    BY <1>2, <2>2 DEF Supervised
  <2> HIDE DEF faulty
  <2> QED BY <2>2, <2>3, <2>4 DEF ExpireIfOld, ClearIfReenabled, Latches
<1> QED BY <1>1, <1>2

\* While Linux holds the fault input at 1 every tick publishes SI_STOP.  A tick
\* that sees a new edge publishes it too, unless it finds a stop latched for the
\* fault input already and a request, inside its window, that ends that stop
\* with every source fresh: for every sequence of edges, presses and samples.
THEOREM FaultInputStopsUnlessReenabled == Spec => FaultInputStops
<1>1. Init => FaultAccounted
  BY DEF Init, FaultAccounted
<1>2. TypeOK /\ FaultAccounted /\ [Next]_vars => [HeldFaultStops]_vars
  <2> SUFFICES ASSUME TypeOK, FaultAccounted, [Next]_vars, outSeq' # outSeq, si.fault
               PROVE  Publishes("SI_STOP")
    BY DEF HeldFaultStops
  <2> QED BY OnlyTicksPublish, SupervisedUnderFault, OnlyStopWhileLatched DEF Publishes
<1>3. TypeOK /\ [Next]_vars => [EdgeStopsUnlessLatched]_vars
  <2> SUFFICES ASSUME TypeOK, [Next]_vars, outSeq' # outSeq, SiEdge, ~Publishes("SI_STOP")
               PROVE  sup.latched /\ sup.reason = "si_fault_input" /\ StopMayEnd
    BY DEF EdgeStopsUnlessLatched
  <2>1. ~Supervised.latched
    BY OnlyTicksPublish, OnlyStopWhileLatched DEF Publishes
  <2>2. sup.latched /\ sup.reason = "si_fault_input"
    BY <2>1, SupervisedAfterEdge
  <2> QED BY <2>1, <2>2, SupervisedLatched DEF StopMayEnd
<1> QED BY <1>1, <1>2, <1>3, NextAccounted, TypeCorrect, PTL DEF Spec, FaultInputStops

-----------------------------------------------------------------------------
(* Refinement: the controller implements the abstract latch.               *)

\* Latching never grants a request: a pending one was pending in a stop.
LEMMA LatchFaultPending ==
  ASSUME NEW s \in Latches, NEW why \in Reasons,
         steady \in Nat, vehicle.speed \in Int
  PROVE  LatchFault(s, why).pending => s.latched /\ s.pending
BY DEF LatchFault, Latches

\* What the checks of a tick do to the request: a stop keeps it or lets it
\* lapse; a tick that was not stopped and finds nothing leaves it alone.
LEMMA SupervisedPending ==
  ASSUME TypeOK
  PROVE  /\ Supervised.latched /\ Supervised.pending => sup.latched /\ sup.pending
         /\ ~Supervised.latched /\ ~sup.latched => Supervised = sup
<1> DEFINE timed  == IF StaleSources = {} THEN sup ELSE LatchFault(sup, StaleReason)
           faulty == IF SiEdge THEN LatchFault(timed, "si_fault_input") ELSE timed
<1>1. steady \in Nat /\ vehicle.speed \in Int /\ sup \in Latches
  BY DEF TypeOK
<1>2. StaleSources # {} => StaleReason \in Reasons
  BY StaleReasonIsStale DEF StaleSources, Reasons
<1>3. "si_fault_input" \in Reasons
  BY DEF Reasons
<1>4. timed \in Latches /\ (timed.pending /\ timed.latched => sup.latched /\ sup.pending)
  BY <1>1, <1>2, LatchFaultType, LatchFaultPending
<1>5. faulty \in Latches /\ (faulty.pending /\ faulty.latched => sup.latched /\ sup.pending)
  BY <1>1, <1>3, <1>4, LatchFaultType, LatchFaultPending
<1>6. Supervised = IF faulty.latched THEN ClearIfReenabled(ExpireIfOld(faulty)) ELSE faulty
  BY DEF Supervised
<1>7. ~faulty.latched => faulty = sup
  BY <1>1, <1>2, <1>3, <1>4, LatchFaultType
<1> HIDE DEF faulty
<1>8. Supervised.latched /\ Supervised.pending => faulty.latched /\ faulty.pending
  BY <1>5, <1>6 DEF ClearIfReenabled, ExpireIfOld, Latches
<1>9. ASSUME ~Supervised.latched, ~sup.latched PROVE Supervised = sup
  <2>1. CASE faulty.latched
    <3>1. StaleSources # {} \/ SiEdge
      BY <1>1, <2>1, <1>9 DEF faulty
    <3>2. ~faulty.pending
      BY <1>5, <1>9, <2>1
    <3>3. ExpireIfOld(faulty) = faulty /\ ClearIfReenabled(faulty) = faulty
      BY <3>2 DEF ExpireIfOld, ClearIfReenabled
    <3> QED BY <1>6, <1>9, <2>1, <3>3
  <2> QED BY <1>6, <1>7, <2>1
<1> QED BY <1>5, <1>8, <1>9

\* A callback that latches is the abstract fault.
LEMMA FaultMaps ==
  ASSUME TypeOK, NEW why \in Reasons, Fault(why)
  PROVE  Latch!Fault
<1>1. steady \in Nat /\ vehicle.speed \in Int /\ sup \in Latches
  BY DEF TypeOK
<1>2. sup' \in Latches /\ sup'.latched /\ (sup'.pending => sup.latched /\ sup.pending)
  BY <1>1, LatchFaultType, LatchFaultPending DEF Fault
<1>3. sup'.latched = TRUE /\ sup'.pending \in {FALSE, sup.latched /\ sup.pending}
  BY <1>2, Zenon DEF Latches
<1>4. outSeq' = outSeq /\ out'.decision = out.decision
  BY DEF Fault, outputs
<1> QED BY <1>3, <1>4 DEF Latch!Fault

\* Every control tick is an abstract tick with the same decision.
LEMMA TickMaps ==
  ASSUME TypeOK, ControlTick
  PROVE  Latch!StopTick \/ Latch!GoTick
<1>1. sup \in Latches /\ Supervised \in Latches
  BY SupervisedType DEF TypeOK
<1>2. CASE StopTick
  <2>1. sup' = Supervised /\ out'.decision = "SI_STOP" /\ outSeq' = outSeq + 1
    BY <1>2 DEF StopTick, SiStop, Publish
  <2>2. sup'.latched /\ sup'.pending \in BOOLEAN /\ (sup'.pending => sup.latched /\ sup.pending)
    BY <1>1, <1>2, <2>1, SupervisedPending DEF StopTick, Latches
  <2> QED BY <2>1, <2>2 DEF Latch!StopTick
<1>3. ASSUME ~Supervised.latched, sup' = Supervised, outSeq' = outSeq + 1,
             out'.decision \in {"NORMAL", "HOLD"}
      PROVE  Latch!GoTick
  <2>1. sup'.latched = FALSE
    BY <1>1, <1>3, Zenon DEF Latches
  <2>2. sup.latched => sup.pending /\ ~sup'.pending
    BY <1>3, SupervisedLatched
  <2>3. ~sup.latched => sup'.pending = sup.pending
    BY <1>3, SupervisedPending
  <2>4. sup'.pending = IF sup.latched THEN FALSE ELSE sup.pending
    BY <1>1, <1>3, <2>2, <2>3, Zenon DEF Latches
  <2> QED BY <1>3, <2>1, <2>2, <2>4 DEF Latch!GoTick
<1>4. ASSUME NEW ready \in BOOLEAN, HoldTick(ready)
      PROVE  Latch!GoTick
  BY <1>3, <1>4 DEF HoldTick, Hold, Publish
<1>5. CASE PassCommandTick
  BY <1>3, <1>5 DEF PassCommandTick, Publish
<1>6. ASSUME NEW proposal \in FollowerOutputs, FollowTick(proposal)
      PROVE  Latch!StopTick \/ Latch!GoTick
  <2>1. CASE EnvelopeViolation(proposal) = "none"
    BY <1>3, <1>6, <2>1 DEF FollowTick, ApproveFollower, Publish
  <2>2. CASE EnvelopeViolation(proposal) # "none"
    <3>1. sup' = LatchFault(Supervised, EnvelopeViolation(proposal))
      BY <1>6, <2>2 DEF FollowTick, ApproveFollower, SiStop, Publish
    <3>2. out'.decision = "SI_STOP" /\ outSeq' = outSeq + 1 /\ ~Supervised.latched
      BY <1>6, <2>2 DEF FollowTick, ApproveFollower, SiStop, Publish
    <3>3. EnvelopeViolation(proposal) \in Reasons
      BY DEF EnvelopeViolation, Reasons
    <3>4. sup' \in Latches /\ sup'.latched /\ ~sup'.pending
      BY <1>1, <3>1, <3>2, <3>3, LatchFaultType, LatchFaultPending DEF TypeOK
    <3>5. sup'.latched = TRUE /\ sup'.pending \in {FALSE, sup.latched /\ sup.pending}
      BY <3>4, Zenon DEF Latches
    <3> QED BY <3>2, <3>5 DEF Latch!StopTick
  <2> QED BY <2>1, <2>2
<1> QED BY <1>2, <1>4, <1>5, <1>6 DEF ControlTick

\* Every step of the controller is a step of the latch, or leaves it alone.
LEMMA StepMaps ==
  ASSUME TypeOK, [Next]_vars
  PROVE  [Latch!Next]_(Latch!latchVars)
<1> DEFINE Quiet == sup' = sup /\ outSeq' = outSeq /\ out' = out
<1>1. ASSUME Quiet PROVE UNCHANGED Latch!latchVars
  BY <1>1 DEF Latch!latchVars
<1>2. CASE ControlTick
  BY <1>2, TickMaps DEF Latch!Next
<1>3. ASSUME NEW why \in Reasons, Fault(why) PROVE Latch!Next
  BY <1>3, FaultMaps DEF Latch!Next
<1>4. ASSUME NEW m, Trajectory(m) PROVE Quiet \/ \E why \in Reasons : Fault(why)
  BY <1>4 DEF Trajectory, AcceptTrajectory, Ignore, vars, outputs, Reasons
<1>5. ASSUME NEW m, DrivingReference(m) PROVE Quiet \/ \E why \in Reasons : Fault(why)
  BY <1>5 DEF DrivingReference, AcceptReference, Ignore, vars, outputs, Reasons
<1>6. ASSUME NEW m, DrivingCommand(m) PROVE Quiet \/ \E why \in Reasons : Fault(why)
  BY <1>6 DEF DrivingCommand, AcceptCommand, CommandViolation, Ignore, vars, outputs, Reasons
<1>7. CASE Reenable
  <2>1. sup \in Latches
    BY DEF TypeOK
  <2>2. sup'.latched = sup.latched /\ sup'.pending = TRUE
    BY <1>7, <2>1 DEF Reenable, Latches
  <2>3. outSeq' = outSeq /\ out'.decision = out.decision
    BY <1>7 DEF Reenable, outputs
  <2> QED BY <2>2, <2>3 DEF Latch!Press, Latch!Next
<1>8. ASSUME NEW a, SteeringStatus(a) \/ OtherFeedback(a) \/ Odometry(a) \/ StepWallClock(a) \/ SiFault(a)
      PROVE  Quiet
  BY <1>8 DEF SteeringStatus, OtherFeedback, Odometry, StepWallClock, SiFault, outputs
<1>9. CASE HeartbeatSample \/ Elapse \/ UNCHANGED vars
  BY <1>1, <1>9 DEF HeartbeatSample, Elapse, vars, outputs
<1> HIDE DEF Quiet
<1> QED BY <1>1, <1>2, <1>3, <1>4, <1>5, <1>6, <1>7, <1>8, <1>9 DEF Next

\* The controller implements the contract's latch: whatever the sources, the
\* clocks, the producers and the fault input do, a stop ends only by a
\* request that no later fault withdrew, and until then SI_STOP is published.
THEOREM RefinesStopLatch == Spec => ImplementsStopLatch
<1>1. Init => Latch!Init
  BY DEF Init, Latch!Init
<1>2. TypeOK /\ [Next]_vars => [Latch!Next]_(Latch!latchVars)
  BY StepMaps
<1> QED BY <1>1, <1>2, TypeCorrect, PTL DEF Spec, ImplementsStopLatch, Latch!Spec

-----------------------------------------------------------------------------
(* The actuation envelope.                                                 *)

SteerLimit == IF Config = "vp" THEN MaxSteer ELSE FollowerMaxSteer

Inside(p) == Abs(p.steer) <= SteerLimit /\ Abs(p.speed) <= MaxSpeed /\ Abs(p.accel) <= MaxAccel

\* The command SI may pass was checked when it was accepted.
EnvelopeInv ==
  /\ Config = "vp" /\ Seen(Selected) => Inside(command.payload)
  /\ out.decision = "NORMAL" => Inside(out.payload)

\* A tick approves what is inside, whichever path it takes.
LEMMA TickInside ==
  ASSUME TypeOK, EnvelopeInv, ControlTick
  PROVE  EnvelopeInv'
<1>1. UNCHANGED <<arrival, command>>
  BY DEF ControlTick
<1>2. ASSUME out'.decision = "NORMAL" PROVE Inside(out'.payload)
  <2>1. ~StopTick /\ \A ready \in BOOLEAN : ~HoldTick(ready)
    BY <1>2 DEF StopTick, HoldTick, SiStop, Hold, Publish
  <2>2. CASE PassCommandTick
    BY <2>2 DEF PassCommandTick, Publish, InputsSeen, EnvelopeInv
  <2>3. ASSUME NEW proposal \in FollowerOutputs, FollowTick(proposal)
        PROVE  Inside(out'.payload)
    <3>1. Config # "vp"
      BY <2>3 DEF FollowTick
    <3>2. CASE EnvelopeViolation(proposal) # "none"
      BY <1>2, <2>3, <3>2 DEF FollowTick, ApproveFollower, SiStop, Publish
    <3>3. CASE EnvelopeViolation(proposal) = "none"
      <4>1. out'.payload = proposal
        BY <2>3, <3>3 DEF FollowTick, ApproveFollower, Publish
      <4>2. proposal \in Payloads
        BY InputAssumption DEF InputAssumption
      <4>3. ~(Abs(proposal.steer) > FollowerMaxSteer) /\ ~(Abs(proposal.speed) > MaxSpeed)
            /\ ~(Abs(proposal.accel) > MaxAccel)
        BY <3>3 DEF EnvelopeViolation
      <4> QED BY <3>1, <4>1, <4>2, <4>3, NumberAssumption
              DEF NumberAssumption, Inside, SteerLimit, Abs, Payloads
    <3> QED BY <3>2, <3>3
  <2> QED BY <2>1, <2>2, <2>3 DEF ControlTick
<1> QED BY <1>1, <1>2 DEF EnvelopeInv, Seen, Inside

\* Only a command that passed its checks is noted as an arrival in VP_CONTROL.
LEMMA CommandInside ==
  ASSUME TypeOK, EnvelopeInv, NEW m \in Commands, DrivingCommand(m)
  PROVE  EnvelopeInv'
<1>1. CASE AcceptCommand(m) /\ CommandViolation(m) = "none"
  <2>1. command'.payload = m.payload /\ out' = out /\ m.payload \in Payloads
    BY <1>1, InputAssumption DEF AcceptCommand, outputs, InputAssumption
  <2>2. /\ ~(Abs(m.payload.steer) > MaxSteer)
        /\ ~(m.payload.speed < 0 \/ m.payload.speed > MaxSpeed)
        /\ ~(Abs(m.payload.accel) > MaxAccel)
    BY <1>1 DEF CommandViolation
  <2>3. Config = "vp"
    BY DEF DrivingCommand
  <2>4. Inside(m.payload)
    BY <2>1, <2>2, <2>3, NumberAssumption DEF NumberAssumption, Inside, SteerLimit, Abs, Payloads
  <2> QED BY <2>1, <2>4 DEF EnvelopeInv, Inside
<1>2. CASE ~(AcceptCommand(m) /\ CommandViolation(m) = "none")
  <2>1. UNCHANGED <<arrival, command, out>>
    BY <1>2 DEF DrivingCommand, Fault, Ignore, vars, candidates, outputs
  <2> QED BY <2>1 DEF EnvelopeInv, Seen, Inside
<1> QED BY <1>1, <1>2

\* The other callbacks neither touch the command nor mark it as seen.
LEMMA RestInside ==
  ASSUME TypeOK, EnvelopeInv, [Next]_vars, ~ControlTick,
         \A m \in Commands : ~DrivingCommand(m)
  PROVE  EnvelopeInv'
<1>1. command' = command /\ out' = out
  BY DEF Next, vars, SteeringStatus, OtherFeedback, Odometry, HeartbeatSample, Reenable,
         Trajectory, AcceptTrajectory, DrivingReference, AcceptReference,
         Fault, Ignore, Elapse, StepWallClock, SiFault, outputs, candidates
<1>2. Selected \notin Feedback /\ Selected # Heartbeat /\ Selected \in Sources
  BY ConfigAssumption DEF ConfigAssumption, Selected, Heartbeat, Sources
<1>3. {"odometry", "steering_report"} \subseteq Feedback
  BY ConfigAssumption DEF ConfigAssumption
<1>4. ASSUME NEW s \in Feedback \cup {Heartbeat}, Note(s) PROVE arrival'[Selected] = arrival[Selected]
  BY <1>2, <1>4 DEF Note, TypeOK
<1>5. Config = "vp" => arrival'[Selected] = arrival[Selected]
  BY <1>3, <1>4 DEF Next, vars, SteeringStatus, OtherFeedback, Odometry, HeartbeatSample, Reenable,
         Trajectory, DrivingReference, Elapse, StepWallClock, SiFault
<1> QED BY <1>1, <1>5 DEF EnvelopeInv, Seen, Inside

\* Whatever is approved is inside the envelope, for all limits, all commands
\* and all follower outputs.
THEOREM ApprovedStaysInside == Spec => []ApprovedInEnvelope
<1>1. Init => EnvelopeInv
  <2> SUFFICES ASSUME Init PROVE EnvelopeInv
    OBVIOUS
  <2>1. Selected \in Sources
    BY DEF Sources
  <2>2. ~Seen(Selected)
    BY <2>1 DEF Init, Seen
  <2>3. out.decision # "NORMAL"
    BY DEF Init
  <2> QED BY <2>2, <2>3 DEF EnvelopeInv
<1>2. TypeOK /\ EnvelopeInv /\ [Next]_vars => EnvelopeInv'
  BY TickInside, CommandInside, RestInside
<1>3. EnvelopeInv => ApprovedInEnvelope
  BY DEF EnvelopeInv, ApprovedInEnvelope, Inside, SteerLimit
<1> QED BY <1>1, <1>2, <1>3, TypeCorrect, PTL DEF Spec

-----------------------------------------------------------------------------
(* Fault ids.                                                              *)

\* A fault that is latched has a reason and a number.
Named(s) == s.latched => s.reason # "none" /\ s.faultId # 0

\* A new latch takes the next number; whatever else happens keeps the number.
NextNumber(s, t) ==
  t.faultId = IF t.latched /\ ~s.latched THEN s.faultId + 1 ELSE s.faultId

\* Latching names the fault, or leaves the stop that is in force its number.
LEMMA LatchFaultNames ==
  ASSUME NEW s \in Latches, NEW why \in Reasons \ {"none"}, Named(s)
  PROVE  Named(LatchFault(s, why)) /\ NextNumber(s, LatchFault(s, why))
<1>1. s.faultId \in Nat
  BY DEF Latches
<1>2. CASE ~s.latched
  BY <1>1, <1>2 DEF LatchFault, Named, NextNumber
<1>3. CASE s.latched
  BY <1>1, <1>3 DEF LatchFault, Named, NextNumber, Latches
<1> QED BY <1>2, <1>3

\* No source is called "none".
LEMMA SourcesAreReasons == Sources \subseteq Reasons \ {"none"}
BY ConfigAssumption DEF ConfigAssumption, Sources, Selected, Heartbeat, Reasons

\* The checks of a tick: a stop keeps its number, also when they end it, and
\* one they start takes the next.
LEMMA SupervisedNames ==
  ASSUME TypeOK, Named(sup)
  PROVE  Named(Supervised) /\ NextNumber(sup, Supervised)
<1> DEFINE timed  == IF StaleSources = {} THEN sup ELSE LatchFault(sup, StaleReason)
           faulty == IF SiEdge THEN LatchFault(timed, "si_fault_input") ELSE timed
<1>1. steady \in Nat /\ vehicle.speed \in Int /\ sup \in Latches
  BY DEF TypeOK
<1>2. StaleSources # {} => StaleReason \in Reasons \ {"none"}
  BY StaleReasonIsStale, SourcesAreReasons DEF StaleSources
<1>3. "si_fault_input" \in Reasons \ {"none"}
  BY DEF Reasons
<1>4. /\ timed \in Latches /\ Named(timed) /\ NextNumber(sup, timed)
      /\ sup.latched => timed.latched
  BY <1>1, <1>2, LatchFaultType, LatchFaultNames DEF NextNumber, Latches
<1> HIDE DEF timed
<1>5. /\ faulty \in Latches /\ Named(faulty) /\ NextNumber(timed, faulty)
      /\ timed.latched => faulty.latched
  BY <1>1, <1>3, <1>4, LatchFaultType, LatchFaultNames DEF NextNumber, Latches
<1>6. Supervised = IF faulty.latched THEN ClearIfReenabled(ExpireIfOld(faulty)) ELSE faulty
  BY DEF Supervised, timed
<1> HIDE DEF faulty
<1>7. NextNumber(sup, faulty)
  BY <1>1, <1>4, <1>5 DEF NextNumber, Latches
<1>8. /\ Supervised.faultId = faulty.faultId
      /\ Supervised.latched => faulty.latched /\ Supervised.reason = faulty.reason
  BY <1>5, <1>6 DEF ClearIfReenabled, ExpireIfOld, Latches
<1>9. ~Supervised.latched /\ ~sup.latched => Supervised = sup
  BY SupervisedPending
<1>10. Named(Supervised)
  BY <1>5, <1>8 DEF Named
<1>11. Supervised.latched \/ sup.latched => NextNumber(sup, Supervised)
  BY <1>1, <1>4, <1>5, <1>7, <1>8 DEF NextNumber, Latches
<1>12. ~Supervised.latched /\ ~sup.latched => NextNumber(sup, Supervised)
  BY <1>9 DEF NextNumber
<1> QED BY <1>10, <1>11, <1>12

\* What the theorem says of one step.
NamesItsFault == Named(sup') /\ StopNamesFault /\ NumberIsOneStop

\* A tick that ends with the latch it has checked.
LEMMA CheckedTickNames ==
  ASSUME TypeOK, Named(sup), NEW decision, NEW payload, NEW from,
         Publish(decision, payload, Supervised, from),
         decision = "SI_STOP" <=> Supervised.latched
  PROVE  NamesItsFault
<1>1. Supervised \in Latches /\ sup \in Latches
  BY SupervisedType DEF TypeOK
<1>2. Named(Supervised) /\ NextNumber(sup, Supervised)
  BY SupervisedNames
<1>3. /\ sup' = Supervised /\ out'.decision = decision
      /\ out'.faultId = IF Supervised.latched THEN Supervised.faultId ELSE 0
  BY DEF Publish
<1>4. StopNamesFault
  BY <1>1, <1>2, <1>3 DEF StopNamesFault, Named, Latches
<1>5. NumberIsOneStop
  BY <1>1, <1>2, <1>3 DEF NumberIsOneStop, NextNumber, Latches
<1> QED BY <1>2, <1>3, <1>4, <1>5 DEF NamesItsFault

\* A tick whose follower output is refused, after its checks found no stop.
LEMMA RefusedTickNames ==
  ASSUME TypeOK, Named(sup), ~Supervised.latched, NEW why \in Reasons \ {"none"},
         SiStop(LatchFault(Supervised, why))
  PROVE  NamesItsFault
<1> DEFINE stopped == LatchFault(Supervised, why)
<1>1. Supervised \in Latches /\ sup \in Latches /\ steady \in Nat /\ vehicle.speed \in Int
  BY SupervisedType DEF TypeOK
<1>2. Named(Supervised) /\ NextNumber(sup, Supervised)
  BY SupervisedNames
<1>3. /\ stopped \in Latches /\ stopped.latched
      /\ Named(stopped) /\ NextNumber(Supervised, stopped)
  BY <1>1, <1>2, LatchFaultType, LatchFaultNames
<1>4. /\ sup' = stopped /\ out'.decision = "SI_STOP" /\ outSeq' = outSeq + 1
      /\ out'.faultId = IF stopped.latched THEN stopped.faultId ELSE 0
  BY DEF SiStop, Publish
<1> HIDE DEF stopped
<1>5. StopNamesFault
  BY <1>3, <1>4 DEF StopNamesFault, Named, Latches
<1>6. sup'.latched /\ sup'.faultId = sup.faultId + 1
  BY <1>1, <1>2, <1>3, <1>4 DEF NextNumber, Latches
<1>7. sup.latched => StopMayEnd
  BY SupervisedLatched DEF StopMayEnd
<1>8. outSeq' # outSeq
  BY <1>4 DEF TypeOK
<1>9. NumberIsOneStop
  BY <1>1, <1>6, <1>7, <1>8 DEF NumberIsOneStop, Latches
<1> QED BY <1>3, <1>4, <1>5, <1>9 DEF NamesItsFault

\* Every path of a tick names the fault it stops for.
LEMMA TickNames ==
  ASSUME TypeOK, Named(sup), ControlTick
  PROVE  NamesItsFault
<1>1. ASSUME StopTick PROVE NamesItsFault
  BY <1>1, CheckedTickNames DEF StopTick, SiStop
<1>2. ASSUME NEW ready \in BOOLEAN, HoldTick(ready) PROVE NamesItsFault
  BY <1>2, CheckedTickNames DEF HoldTick, Hold
<1>3. ASSUME PassCommandTick PROVE NamesItsFault
  BY <1>3, CheckedTickNames DEF PassCommandTick
<1>4. ASSUME NEW proposal \in FollowerOutputs, FollowTick(proposal) PROVE NamesItsFault
  <2>1. CASE EnvelopeViolation(proposal) = "none"
    BY <1>4, <2>1, CheckedTickNames DEF FollowTick, ApproveFollower
  <2>2. CASE EnvelopeViolation(proposal) # "none"
    <3>1. EnvelopeViolation(proposal) \in Reasons \ {"none"}
      BY <2>2 DEF EnvelopeViolation, Reasons
    <3> QED BY <1>4, <2>2, <3>1, RefusedTickNames DEF FollowTick, ApproveFollower
  <2> QED BY <2>1, <2>2
<1> QED BY <1>1, <1>2, <1>3, <1>4 DEF ControlTick

\* No callback publishes, and what a callback latches is named.
LEMMA CallbacksName ==
  ASSUME TypeOK, Named(sup), [Next]_vars, ~ControlTick
  PROVE  NamesItsFault
<1> DEFINE Quiet == UNCHANGED <<sup, outSeq>>
           named == Reasons \ {"none"}
<1>1. sup \in Latches /\ steady \in Nat /\ vehicle.speed \in Int
  BY DEF TypeOK
<1>2. ASSUME Quiet PROVE NamesItsFault
  BY <1>1, <1>2 DEF NamesItsFault, StopNamesFault, NumberIsOneStop, Named, Latches
<1>3. ASSUME NEW why \in named, Fault(why) PROVE NamesItsFault
  <2>1. sup' \in Latches /\ Named(sup') /\ NextNumber(sup, sup') /\ sup'.latched
    BY <1>1, <1>3, LatchFaultType, LatchFaultNames DEF Fault
  <2>2. outSeq' = outSeq
    BY <1>3 DEF Fault, outputs
  <2>3. NumberIsOneStop
    BY <1>1, <2>1 DEF NumberIsOneStop, NextNumber, Latches
  <2> QED BY <2>1, <2>2, <2>3 DEF NamesItsFault, StopNamesFault
<1>4. ASSUME NEW m, Trajectory(m) PROVE Quiet \/ \E why \in named : Fault(why)
  BY <1>4 DEF Trajectory, AcceptTrajectory, Ignore, vars, outputs, Reasons
<1>5. ASSUME NEW m, DrivingReference(m) PROVE Quiet \/ \E why \in named : Fault(why)
  BY <1>5 DEF DrivingReference, AcceptReference, Ignore, vars, outputs, Reasons
<1>6. ASSUME NEW m, DrivingCommand(m) PROVE Quiet \/ \E why \in named : Fault(why)
  BY <1>6 DEF DrivingCommand, AcceptCommand, CommandViolation, Ignore, vars, outputs, Reasons
<1>7. CASE Reenable
  <2>1. /\ sup'.latched = sup.latched /\ sup'.faultId = sup.faultId
        /\ sup'.reason = sup.reason /\ outSeq' = outSeq
    BY <1>1, <1>7 DEF Reenable, Latches, outputs
  <2> QED BY <1>1, <2>1 DEF NamesItsFault, StopNamesFault, NumberIsOneStop, Named, Latches
<1>8. ASSUME NEW a, SteeringStatus(a) \/ OtherFeedback(a) \/ Odometry(a) \/ StepWallClock(a) \/ SiFault(a)
      PROVE  Quiet
  BY <1>8 DEF SteeringStatus, OtherFeedback, Odometry, StepWallClock, SiFault, outputs
<1>9. CASE HeartbeatSample \/ Elapse \/ UNCHANGED vars
  BY <1>2, <1>9 DEF HeartbeatSample, Elapse, vars, outputs
<1> HIDE DEF Quiet, named
<1> QED BY <1>2, <1>3, <1>4, <1>5, <1>6, <1>7, <1>8, <1>9 DEF Next

\* The observer can join every stop to its fault: a request is an SI_STOP
\* exactly while a fault is latched, with a reason, and carries the number of
\* that fault; one number is one stop, and every stop that starts takes the
\* next.  For every source, limit and follower output, on every path.
THEOREM StopAlwaysCarriesFault == Spec => StopCarriesFault
<1>1. Init => Named(sup)
  BY DEF Init, Named
<1>2. TypeOK /\ Named(sup) /\ [Next]_vars => NamesItsFault
  BY TickNames, CallbacksName
<1>3. NamesItsFault => Named(sup)' /\ [StopNamesFault /\ NumberIsOneStop]_vars
  BY DEF NamesItsFault, Named
<1> QED BY <1>1, <1>2, <1>3, TypeCorrect, PTL DEF Spec, StopCarriesFault

-----------------------------------------------------------------------------
(* What feeds the selected source's watchdog.                              *)

\* Note(s) moves the arrival of s alone.
LEMMA NoteElsewhere ==
  ASSUME TypeOK, NEW s, s # Selected, Note(s)
  PROVE  arrival'[Selected] = arrival[Selected]
BY DEF Note, TypeOK, Sources

LEMMA SelectedIsItself == Selected \notin Feedback \cup {Heartbeat}
BY ConfigAssumption DEF ConfigAssumption, Selected, Heartbeat

\* Of all steps only the three that accept a candidate move the arrival of the
\* selected source.
LEMMA OnlyAcceptsFeed ==
  ASSUME TypeOK, [Next]_vars, arrival'[Selected] # arrival[Selected]
  PROVE  \/ \E m \in Trajectories : Trajectory(m) /\ AcceptTrajectory(m)
         \/ \E m \in References : DrivingReference(m) /\ AcceptReference(m)
         \/ \E m \in Commands : DrivingCommand(m) /\ AcceptCommand(m)
<1> USE SelectedIsItself
<1>1. ASSUME NEW a \in SteerReports, SteeringStatus(a) PROVE FALSE
  BY <1>1, NoteElsewhere, ConfigAssumption DEF SteeringStatus, ConfigAssumption
<1>2. ASSUME NEW s \in Feedback, OtherFeedback(s) PROVE FALSE
  BY <1>2, NoteElsewhere DEF OtherFeedback
<1>3. ASSUME NEW m \in Odometries, Odometry(m) PROVE FALSE
  BY <1>3, NoteElsewhere, ConfigAssumption DEF Odometry, ConfigAssumption
<1>4. CASE HeartbeatSample
  BY <1>4, NoteElsewhere DEF HeartbeatSample
<1>5. ASSUME UNCHANGED arrival PROVE FALSE
  BY <1>5
<1>6. ASSUME NEW m \in Trajectories, Trajectory(m) PROVE AcceptTrajectory(m)
  BY <1>5, <1>6 DEF Trajectory, Fault, Ignore, vars
<1>7. ASSUME NEW m \in References, DrivingReference(m) PROVE AcceptReference(m)
  BY <1>5, <1>7 DEF DrivingReference, Fault, Ignore, vars
<1>8. ASSUME NEW m \in Commands, DrivingCommand(m) PROVE AcceptCommand(m)
  BY <1>5, <1>8 DEF DrivingCommand, Fault, Ignore, vars
<1> QED BY <1>1, <1>2, <1>3, <1>4, <1>5, <1>6, <1>7, <1>8
        DEF Next, vars, ControlTick, Reenable, Elapse, StepWallClock, SiFault

\* A candidate that is accepted is later than the last one of its producer, and
\* than every one of the producers before it.
LEMMA AcceptedIsLater ==
  ASSUME NEW id, id.seen, NEW session, NEW cycle, NEW stamp,
         VpCheck(id, session, cycle, stamp) = "ACCEPT"
  PROVE  VpNote(id, session, cycle, stamp).stamp > id.stamp
BY DEF VpCheck, VpNote

\* The watchdog of the selected source is fed by news only, for every producer
\* and every sequence of restarts.
THEOREM OnlyNewsFeeds == Spec => [][OnlyNewsIsFresh]_vars
<1> DEFINE news == IF Config = "si_autoware"
                   THEN autowareId.seen => autowareId'.stamp > autowareId.stamp
                   ELSE vpId.seen => vpId'.stamp > vpId.stamp
<1>1. TypeOK /\ [Next]_vars => [OnlyNewsIsFresh]_vars
  <2> SUFFICES ASSUME TypeOK, [Next]_vars, arrival'[Selected] # arrival[Selected]
               PROVE  news
    BY DEF OnlyNewsIsFresh
  <2>1. ASSUME NEW m \in Trajectories, Trajectory(m), AcceptTrajectory(m) PROVE news
    <3>1. Config = "si_autoware" /\ autowareId' = AutowareNote(m.stamp)
      BY <2>1 DEF Trajectory, AcceptTrajectory
    <3>2. AutowareCheck(autowareId, m.stamp) = "ACCEPT"
      BY <2>1, OnlyAcceptsFeed DEF Trajectory, Fault, Ignore, vars
    <3> QED BY <3>1, <3>2 DEF AutowareCheck, AutowareNote
  <2>2. ASSUME NEW m \in References, DrivingReference(m), AcceptReference(m) PROVE news
    <3>1. Config = "si_vp" /\ vpId' = VpNote(vpId, m.session, m.cycle, m.stamp)
      BY <2>2 DEF DrivingReference, AcceptReference
    <3>2. VpCheck(vpId, m.session, m.cycle, m.stamp) = "ACCEPT"
      BY <2>2 DEF DrivingReference, Fault, Ignore, vars
    <3> QED BY <3>1, <3>2, AcceptedIsLater
  <2>3. ASSUME NEW m \in Commands, DrivingCommand(m), AcceptCommand(m) PROVE news
    <3>1. Config = "vp" /\ vpId' = VpNote(vpId, m.session, m.cycle, m.stamp)
      BY <2>3 DEF DrivingCommand, AcceptCommand
    <3>2. VpCheck(vpId, m.session, m.cycle, m.stamp) = "ACCEPT"
      BY <2>3 DEF DrivingCommand, Fault, Ignore, vars
    <3> QED BY <3>1, <3>2, AcceptedIsLater
  <2> QED BY <2>1, <2>2, <2>3, OnlyAcceptsFeed
<1> QED BY <1>1, TypeCorrect, PTL DEF Spec

\* A reference that feeds the watchdog has the ego pose of its own frame.
THEOREM OnlyPlacedFeeds == Spec => [][OnlyPlacedIsFresh]_vars
<1>1. TypeOK /\ [Next]_vars => [OnlyPlacedIsFresh]_vars
  <2> SUFFICES ASSUME TypeOK, [Next]_vars, Config = "si_vp", arrival'[Selected] # arrival[Selected]
               PROVE  \E i \in 1 .. Len(ego) : ego[i] = vpId'.stamp
    BY DEF OnlyPlacedIsFresh
  <2>1. PICK m \in References : DrivingReference(m) /\ AcceptReference(m)
    BY OnlyAcceptsFeed DEF Trajectory, DrivingCommand
  <2>2. EgoFind(m.stamp)
    BY <2>1 DEF DrivingReference, Fault, Ignore, vars
  <2>3. vpId'.stamp = m.stamp
    BY <2>1 DEF AcceptReference, VpNote
  <2> QED BY <2>2, <2>3 DEF EgoFind
<1> QED BY <1>1, TypeCorrect, PTL DEF Spec

\* No stale source is masked, and no candidate that is old or cannot be placed
\* refreshes one.
THEOREM EverySourceAlwaysCounts == Spec => EverySourceCounts
BY EveryStaleSourceStops, OnlyNewsFeeds, OnlyPlacedFeeds, PTL DEF EverySourceCounts

\* No approval without its inputs or outside the envelope.
THEOREM ApprovalAlwaysEarned == Spec => ApprovalEarned
BY ApprovalNeedsInputs, ApprovedStaysInside, PTL DEF ApprovalEarned

-----------------------------------------------------------------------------
(* What a stop demands of the actuators.                                   *)

\* Once a command was approved, the last output carries its steering angle.
SteerFollowsApproval == approved.given => out.payload.steer = approved.payload.steer

\* Only a tick publishes, and it keeps or renews the approved angle.
LEMMA NextSteerFollows ==
  ASSUME SteerFollowsApproval, [Next]_vars
  PROVE  SteerFollowsApproval'
<1>1. CASE ControlTick
  <2>1. ASSUME NEW s, SiStop(s) \/ Hold(s) PROVE SteerFollowsApproval'
    BY <2>1 DEF SiStop, Hold, Publish, StoppedPayload, SteerFollowsApproval
  <2>2. ASSUME NEW payload, NEW s, NEW from, Publish("NORMAL", payload, s, from)
        PROVE  SteerFollowsApproval'
    BY <2>2 DEF Publish, SteerFollowsApproval
  <2> QED BY <1>1, <2>1, <2>2 DEF ControlTick, StopTick, HoldTick, PassCommandTick,
          FollowTick, ApproveFollower
<1>2. CASE ~ControlTick
  <2>1. outputs' = outputs
    BY <1>2 DEF Next, vars, SteeringStatus, OtherFeedback, Odometry, HeartbeatSample, Reenable,
       Trajectory, AcceptTrajectory, DrivingReference, AcceptReference, DrivingCommand,
       AcceptCommand, Fault, Ignore, Elapse, StepWallClock, SiFault, outputs
  <2> QED BY <2>1 DEF outputs, SteerFollowsApproval
<1> QED BY <1>1, <1>2

\* After the first approval no stop and no hold moves the steering, for every
\* source, follower and order of faults.
THEOREM SteeringAlwaysHeld == Spec => SteeringHeld
<1>1. Init => SteerFollowsApproval
  BY DEF Init, SteerFollowsApproval
<1>2. SteerFollowsApproval /\ [Next]_vars => SteerFollowsApproval'
  BY NextSteerFollows
<1>3. SteerFollowsApproval /\ [Next]_vars =>
        [outSeq' # outSeq /\ ~Publishes("NORMAL") /\ approved.given
           => out'.payload.steer = out.payload.steer]_vars
  <2> SUFFICES ASSUME SteerFollowsApproval, [Next]_vars,
                      outSeq' # outSeq, out'.decision # "NORMAL", approved.given
               PROVE  out'.payload.steer = out.payload.steer
    BY DEF Publishes
  <2>1. ControlTick
    BY OnlyTicksPublish
  <2>2. \E s : SiStop(s) \/ Hold(s)
    BY <2>1 DEF ControlTick, StopTick, HoldTick, PassCommandTick, FollowTick,
       ApproveFollower, Publish
  <2> QED BY <2>2 DEF SiStop, Hold, Publish, StoppedPayload, SteerFollowsApproval
<1> QED BY <1>1, <1>2, <1>3, PTL DEF Spec, SteeringHeld

\* The ramp of a stop only comes down as its time passes.
LEMMA RampComesDown ==
  ASSUME NEW v0 \in Int, NEW early \in Int, NEW late \in Int, early <= late
  PROVE  RampSpeed(v0, late) <= RampSpeed(v0, early)
<1>1. Decel \in Nat /\ MaxSpeed \in Int
  BY NumberAssumption DEF NumberAssumption
<1>2. PICK more \in Nat : late = early + more
  <2>1. late - early \in Nat /\ late = early + (late - early)
    OBVIOUS
  <2> QED BY <2>1
<1>3. Decel * late = Decel * early + Decel * more
  BY <1>1, <1>2
<1>4. Decel * more \in Nat /\ Decel * early \in Int
  BY <1>1
<1>5. v0 - Decel * late <= v0 - Decel * early /\ v0 - Decel * late \in Int
  BY <1>3, <1>4
<1> HIDE DEF RampSpeed
<1> QED BY <1>1, <1>4, <1>5 DEF RampSpeed

LEMMA RampIsInt ==
  ASSUME NEW v0 \in Int, NEW elapsed \in Int
  PROVE  RampSpeed(v0, elapsed) \in Int
<1>1. Decel \in Int /\ MaxSpeed \in Int
  BY NumberAssumption DEF NumberAssumption
<1> QED BY <1>1 DEF RampSpeed

\* The ramp of a latch at this moment.
Ramp(s) == RampSpeed(s.v0, steady - s.rampAt)

\* Ids only grow, and while a stop is for the fault that is latched its speed
\* target is above what the ramp of that fault asks for now.
StopOnRamp ==
  /\ out.faultId <= sup.faultId
  /\ out.decision = "SI_STOP" /\ out.faultId = sup.faultId => Ramp(sup) <= out.payload.speed

\* Same fault, same ramp: a latch is renumbered or keeps where it started, and
\* a new number starts its ramp at the fresh ego speed.
SameRamp(s, t) ==
  /\ s.faultId <= t.faultId
  /\ s.faultId = t.faultId => t.v0 = s.v0 /\ t.rampAt = s.rampAt
  /\ s.faultId # t.faultId => t.v0 = RampOrigin

LEMMA LatchFaultRamp ==
  ASSUME NEW s \in Latches, NEW why
  PROVE  SameRamp(s, LatchFault(s, why))
BY DEF LatchFault, Latches, SameRamp

LEMMA SupervisedRamp ==
  ASSUME TypeOK
  PROVE  SameRamp(sup, Supervised)
<1> DEFINE timed  == IF StaleSources = {} THEN sup ELSE LatchFault(sup, StaleReason)
           faulty == IF SiEdge THEN LatchFault(timed, "si_fault_input") ELSE timed
<1>1. steady \in Nat /\ vehicle.speed \in Int /\ sup \in Latches
  BY DEF TypeOK
<1>2. StaleSources # {} => StaleReason \in Reasons
  BY StaleReasonIsStale DEF StaleSources, Reasons
<1>3. "si_fault_input" \in Reasons
  BY DEF Reasons
<1>4. timed \in Latches /\ SameRamp(sup, timed)
  BY <1>1, <1>2, LatchFaultType, LatchFaultRamp DEF SameRamp, Latches
<1> HIDE DEF timed
<1>5. faulty \in Latches /\ SameRamp(timed, faulty)
  BY <1>1, <1>3, <1>4, LatchFaultType, LatchFaultRamp DEF SameRamp, Latches
<1>6. Supervised = IF faulty.latched THEN ClearIfReenabled(ExpireIfOld(faulty)) ELSE faulty
  BY DEF Supervised, timed
<1> HIDE DEF faulty
<1>7. Supervised.faultId = faulty.faultId /\ Supervised.v0 = faulty.v0
      /\ Supervised.rampAt = faulty.rampAt
  BY <1>5, <1>6 DEF ClearIfReenabled, ExpireIfOld, Latches
<1> QED BY <1>1, <1>4, <1>5, <1>7 DEF SameRamp, Latches

\* What a tick leaves of the latch, and what it publishes when it stops.
LEMMA TickRamp ==
  ASSUME TypeOK, ControlTick
  PROVE  /\ SameRamp(sup, sup')
         /\ out'.faultId <= sup'.faultId
         /\ out'.decision = "SI_STOP" =>
              out'.faultId = sup'.faultId /\ out'.payload.speed = Ramp(sup')
         /\ steady' = steady
<1>1. Supervised \in Latches /\ SameRamp(sup, Supervised) /\ sup \in Latches
  BY SupervisedType, SupervisedRamp DEF TypeOK
<1>2. steady' = steady
  BY DEF ControlTick, clocks
<1> DEFINE good == /\ SameRamp(sup, sup')
                   /\ out'.faultId <= sup'.faultId
                   /\ out'.decision = "SI_STOP" =>
                        out'.faultId = sup'.faultId /\ out'.payload.speed = Ramp(sup')
<1>3. ASSUME NEW s \in Latches, SameRamp(sup, s), s.latched, SiStop(s)
      PROVE  good
  BY <1>3 DEF SiStop, Publish, StoppedPayload, Ramp, Latches
<1>4. ASSUME NEW s \in Latches, SameRamp(sup, s), NEW decision, decision # "SI_STOP",
             NEW payload, NEW from, Publish(decision, payload, s, from)
      PROVE  good
  BY <1>4 DEF Publish, Latches
<1> HIDE DEF good
<1>5. ASSUME StopTick PROVE good
  BY <1>1, <1>3, <1>5 DEF StopTick
<1>6. ASSUME NEW ready, HoldTick(ready) PROVE good
  BY <1>1, <1>4, <1>6 DEF HoldTick, Hold
<1>7. ASSUME PassCommandTick PROVE good
  BY <1>1, <1>4, <1>7 DEF PassCommandTick
<1>8. ASSUME NEW proposal, FollowTick(proposal) PROVE good
  <2>1. CASE EnvelopeViolation(proposal) = "none"
    BY <1>1, <1>4, <1>8, <2>1 DEF FollowTick, ApproveFollower
  <2>2. CASE EnvelopeViolation(proposal) # "none"
    <3> DEFINE stopped == LatchFault(Supervised, EnvelopeViolation(proposal))
    <3>1. EnvelopeViolation(proposal) \in Reasons
      BY DEF EnvelopeViolation, Reasons
    <3>2. stopped \in Latches /\ stopped.latched /\ SameRamp(Supervised, stopped)
      BY <1>1, <3>1, LatchFaultType, LatchFaultRamp DEF TypeOK
    <3>3. SiStop(stopped)
      BY <1>8, <2>2 DEF FollowTick, ApproveFollower
    <3> HIDE DEF stopped
    <3>4. SameRamp(sup, stopped)
      BY <1>1, <3>2 DEF SameRamp, Latches
    <3> QED BY <1>3, <3>2, <3>3, <3>4
  <2> QED BY <2>1, <2>2
<1>9. good
  BY <1>5, <1>6, <1>7, <1>8 DEF ControlTick
<1> QED BY <1>2, <1>9 DEF good

\* A callback publishes nothing; it may latch a new fault, never move a ramp.
LEMMA CallbacksRamp ==
  ASSUME TypeOK, [Next]_vars, ~ControlTick
  PROVE  SameRamp(sup, sup') /\ out' = out /\ steady <= steady'
<1> DEFINE Quiet == sup' = sup /\ outSeq' = outSeq /\ out' = out /\ steady' = steady
           Good  == SameRamp(sup, sup') /\ out' = out /\ steady <= steady'
<1>1. sup \in Latches /\ steady \in Nat
  BY DEF TypeOK
<1>2. ASSUME Quiet PROVE Good
  BY <1>1, <1>2 DEF SameRamp, Latches
<1>3. ASSUME NEW why, Fault(why) PROVE Good
  BY <1>1, <1>3, LatchFaultRamp DEF Fault, outputs, clocks
<1>4. ASSUME NEW m, Trajectory(m) PROVE Quiet \/ \E why : Fault(why)
  BY <1>4 DEF Trajectory, AcceptTrajectory, Ignore, vars, outputs, clocks
<1>5. ASSUME NEW m, DrivingReference(m) PROVE Quiet \/ \E why : Fault(why)
  BY <1>5 DEF DrivingReference, AcceptReference, Ignore, vars, outputs, clocks
<1>6. ASSUME NEW m, DrivingCommand(m) PROVE Quiet \/ \E why : Fault(why)
  BY <1>6 DEF DrivingCommand, AcceptCommand, Ignore, vars, outputs, clocks
<1>7. CASE Reenable
  BY <1>1, <1>7 DEF Reenable, Latches, outputs, clocks, SameRamp
<1>8. ASSUME NEW a, SteeringStatus(a) \/ OtherFeedback(a) \/ Odometry(a) \/ StepWallClock(a) \/ SiFault(a)
      PROVE  Quiet
  BY <1>8 DEF SteeringStatus, OtherFeedback, Odometry, StepWallClock, SiFault, outputs, clocks
<1>9. CASE HeartbeatSample \/ UNCHANGED vars
  BY <1>2, <1>9 DEF HeartbeatSample, vars, outputs, clocks
<1>10. CASE Elapse
  BY <1>1, <1>10 DEF Elapse, outputs, SameRamp, Latches
<1> HIDE DEF Quiet
<1> QED BY <1>2, <1>3, <1>4, <1>5, <1>6, <1>7, <1>8, <1>9, <1>10 DEF Next

\* The ramp of the latched fault at a later moment is no higher.
LEMMA RampAges ==
  ASSUME TypeOK, TypeOK', SameRamp(sup, sup'), sup'.faultId = sup.faultId, steady <= steady'
  PROVE  Ramp(sup)' <= Ramp(sup)
<1>1. sup'.v0 = sup.v0 /\ sup'.rampAt = sup.rampAt
  BY DEF SameRamp
<1>2. sup.v0 \in Int /\ steady - sup.rampAt \in Int /\ steady' - sup.rampAt \in Int
      /\ steady - sup.rampAt <= steady' - sup.rampAt
  <2>1. sup \in Latches /\ steady \in Nat /\ steady' \in Nat
    BY DEF TypeOK
  <2>2. sup.v0 \in Int /\ sup.rampAt \in Nat
    BY <2>1 DEF Latches
  <2> QED BY <2>1, <2>2
<1>3. RampSpeed(sup.v0, steady' - sup.rampAt) <= RampSpeed(sup.v0, steady - sup.rampAt)
  BY <1>2, RampComesDown
<1> QED BY <1>1, <1>3 DEF Ramp, RampSpeed

LEMMA NextOnRamp ==
  ASSUME TypeOK, TypeOK', StopOnRamp, [Next]_vars
  PROVE  StopOnRamp'
<1>1. CASE ControlTick
  <2>1. Ramp(sup)' \in Int /\ Ramp(sup') = Ramp(sup)'
    <3>1. steady' = steady
      BY <1>1, TickRamp
    <3>2. Ramp(sup') = Ramp(sup)'
      BY <3>1 DEF Ramp, RampSpeed
    <3>3. sup' \in Latches /\ steady \in Nat
      BY DEF TypeOK
    <3>4. sup'.v0 \in Int /\ steady - sup'.rampAt \in Int
      BY <3>3 DEF Latches
    <3>5. Ramp(sup') \in Int
      BY <3>4, RampIsInt DEF Ramp
    <3> QED BY <3>2, <3>5
  <2> QED BY <1>1, <2>1, TickRamp DEF StopOnRamp
<1>2. CASE ~ControlTick
  <2>1. SameRamp(sup, sup') /\ out' = out /\ steady <= steady'
    BY <1>2, CallbacksRamp
  <2>2. /\ out.faultId \in Int /\ sup.faultId \in Int /\ sup'.faultId \in Int
        /\ out.payload.speed \in Int
    BY DEF TypeOK, Latches, Payloads
  <2>3. sup.faultId <= sup'.faultId
    BY <2>1 DEF SameRamp
  <2>4. out'.faultId <= sup'.faultId
    BY <2>1, <2>2, <2>3 DEF StopOnRamp
  <2>5. ASSUME out'.decision = "SI_STOP", out'.faultId = sup'.faultId
        PROVE  Ramp(sup)' <= out'.payload.speed
    <3>1. sup'.faultId = sup.faultId /\ out.faultId = sup.faultId
      BY <2>1, <2>2, <2>3, <2>5 DEF StopOnRamp
    <3>2. Ramp(sup)' <= Ramp(sup) /\ Ramp(sup) <= out.payload.speed
      BY <2>1, <2>5, <3>1, RampAges DEF StopOnRamp
    <3>3. Ramp(sup) \in Int /\ Ramp(sup)' \in Int
      <4>1. sup \in Latches /\ sup' \in Latches /\ steady \in Nat /\ steady' \in Nat
        BY DEF TypeOK
      <4>2. /\ sup.v0 \in Int /\ steady - sup.rampAt \in Int
            /\ sup'.v0 \in Int /\ steady' - sup'.rampAt \in Int
        BY <4>1 DEF Latches
      <4>3. RampSpeed(sup.v0, steady - sup.rampAt) \in Int
            /\ RampSpeed(sup'.v0, steady' - sup'.rampAt) \in Int
        BY <4>2, RampIsInt
      <4> QED BY <4>3 DEF Ramp, RampSpeed
    <3> QED BY <2>1, <2>2, <3>2, <3>3
  <2> QED BY <2>4, <2>5 DEF StopOnRamp
<1> QED BY <1>1, <1>2

\* While one fault lasts the speed target of its stop never rises, whatever
\* reasons follow, whatever the follower proposes and however the system
\* clock is stepped.
\* Its ramp starts at standstill where the odometry is old.
THEOREM StopNeverSpeedsUpAgain == Spec => StopNeverSpeedsUp
<1>1. Init => StopOnRamp
  BY DEF Init, StopOnRamp
<1>2. TypeOK /\ TypeOK' /\ StopOnRamp /\ [Next]_vars => StopOnRamp'
  BY NextOnRamp
<1>3. TypeOK /\ TypeOK' /\ StopOnRamp /\ [Next]_vars =>
        [TargetOnlyFalls]_vars
  <2> SUFFICES ASSUME TypeOK, TypeOK', StopOnRamp, [Next]_vars,
                      Publishes("SI_STOP"), out.decision = "SI_STOP",
                      out'.faultId = out.faultId
               PROVE  out'.payload.speed <= out.payload.speed
    BY DEF TargetOnlyFalls
  <2>1. ControlTick
    BY OnlyTicksPublish DEF Publishes
  <2>2. /\ SameRamp(sup, sup') /\ steady' = steady
        /\ out'.faultId = sup'.faultId /\ out'.payload.speed = Ramp(sup')
    BY <2>1, TickRamp DEF Publishes
  <2>3. out.faultId \in Int /\ sup.faultId \in Int /\ sup'.faultId \in Int
    BY DEF TypeOK, Latches
  <2>4. sup'.faultId = sup.faultId
    BY <2>2, <2>3 DEF SameRamp, StopOnRamp
  <2>5. Ramp(sup') = Ramp(sup)
    BY <2>2, <2>4 DEF SameRamp, Ramp
  <2> QED BY <2>2, <2>4, <2>5 DEF StopOnRamp
<1>4. TypeOK /\ [Next]_vars => [OldSpeedStartsNoRamp]_vars
  <2> SUFFICES ASSUME TypeOK, [Next]_vars, sup'.faultId # sup.faultId
               PROVE  sup'.v0 = IF "odometry" \in StaleSources \/ ~Seen("odometry")
                                THEN 0 ELSE vehicle.speed
    BY DEF OldSpeedStartsNoRamp
  <2>1. sup'.v0 = RampOrigin
    BY TickRamp, CallbacksRamp DEF SameRamp
  <2>2. "odometry" \in StaleSources <=> Stale("odometry")
    BY SourceNames DEF StaleSources
  <2> QED BY <2>1, <2>2 DEF RampOrigin
<1> QED BY <1>1, <1>2, <1>3, <1>4, TypeCorrect, PTL DEF Spec, StopNeverSpeedsUp
=============================================================================
