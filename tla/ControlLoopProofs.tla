------------------------- MODULE ControlLoopProofs -------------------------
(***************************************************************************)
(* Proofs about ControlLoop for every value of its constants: the loop     *)
(* implements the supervisor (so all that SupervisorProofs shows of the    *)
(* controller holds of the node that runs it), a stall leaves at most one  *)
(* tick due, and a dead source stops the vehicle in bounded time.          *)
(***************************************************************************)
EXTENDS ControlLoop, SupervisorProofs

-----------------------------------------------------------------------------
(* The loop implements the supervisor.                                     *)

\* A sample some producer of the supervisor's environment could have sent.
Genuine(t, m) ==
  /\ t = "steering_report" => m \in SteerReports
  /\ t = "reference" => m \in References
  /\ t = "trajectory" => m \in Trajectories
  /\ t = "odometry" => m \in Odometries
  /\ t = "command" => m \in Commands

\* Readers hold nothing that was not sent.
InboxInv ==
  /\ inbox = [t \in TopicSet |-> inbox[t]]
  /\ \A t \in TopicSet : \A m \in inbox[t] : Genuine(t, m)
  /\ next \in 1 .. SleepTurn

LEMMA TopicCount == Len(Topics) \in Nat \ {0}
BY DEF Topics

LEMMA SamplesAreGenuine ==
  ASSUME NEW t, NEW m \in Samples(t)
  PROVE  Genuine(t, m)
BY DEF Samples, Genuine

\* Whatever a reader delivers is a step of the supervisor.
LEMMA CallbackIsStep ==
  ASSUME NEW t, NEW m, Genuine(t, m), Callback(t, m)
  PROVE  Next
<1>1. CASE t = "steering_report"
  BY <1>1 DEF Callback, Genuine, Next
<1>2. CASE t = "reference"
  BY <1>2 DEF Callback, Genuine, Next
<1>3. CASE t = "trajectory"
  BY <1>3 DEF Callback, Genuine, Next
<1>4. CASE t = "odometry"
  BY <1>4 DEF Callback, Genuine, Next
<1>5. CASE t = "command"
  BY <1>5 DEF Callback, Genuine, Next
<1>6. CASE t = "reenable"
  BY <1>6 DEF Callback, Next
<1>7. CASE t = "vp_heartbeat"
  BY <1>7 DEF Callback, Next
<1>8. CASE t \notin {"steering_report", "reference", "trajectory", "odometry", "command",
                     "reenable", "vp_heartbeat"}
  <2>1. OtherFeedback(t)
    BY <1>8 DEF Callback
  <2> QED BY <2>1 DEF OtherFeedback, Next
<1> QED BY <1>1, <1>2, <1>3, <1>4, <1>5, <1>6, <1>7, <1>8

\* The reader whose turn it is hands over a genuine sample or nothing.
LEMMA PollDelivers ==
  ASSUME InboxInv, PollReader
  PROVE  \/ UNCHANGED vars
         \/ \E t \in TopicSet : \E m \in inbox[t] : Genuine(t, m) /\ Callback(t, m)
BY DEF InboxInv, PollReader, TopicSet

\* Every step of the loop is a step of the supervisor or leaves it alone.
LEMMA LoopStepIsStep ==
  ASSUME InboxInv, [LoopNext]_loopVars
  PROVE  [Next]_vars
<1>1. CASE PollReader
  BY <1>1, PollDelivers, CallbackIsStep
<1>2. CASE PollTimer
  BY <1>2 DEF PollTimer, Next
<1>3. CASE PassTime
  BY <1>3 DEF PassTime, Next
<1>4. ASSUME NEW d \in WallSteps, StepClock(d) PROVE [Next]_vars
  BY <1>4 DEF StepClock, Next
<1>5. CASE Wake \/ (\E t \in TopicSet : \E m \in Samples(t) : Arrive(t, m)) \/ UNCHANGED loopVars
  BY <1>5 DEF Wake, Arrive, loopVars
<1> QED BY <1>1, <1>2, <1>3, <1>4, <1>5 DEF LoopNext

LEMMA InboxStep ==
  ASSUME InboxInv, [LoopNext]_loopVars
  PROVE  InboxInv'
<1>1. Len(Topics) \in Nat /\ SleepTurn = Len(Topics) + 2 /\ TimerTurn = Len(Topics) + 1
  BY TopicCount DEF SleepTurn, TimerTurn
<1>2. TopicSet' = TopicSet /\ SleepTurn' = SleepTurn
  BY DEF TopicSet, SleepTurn, Topics
<1>3. ASSUME NEW t \in TopicSet, NEW m \in Samples(t), Arrive(t, m) PROVE InboxInv'
  BY <1>2, <1>3, SamplesAreGenuine DEF Arrive, InboxInv, Genuine
<1>4. CASE PollReader
  <2>1. next' \in 1 .. SleepTurn
    BY <1>1, <1>4 DEF PollReader
  <2>2. inbox' = inbox \/ \E t \in TopicSet : inbox' = [inbox EXCEPT ![t] = {}]
    BY <1>4 DEF PollReader, TopicSet
  <2> QED BY <1>2, <2>1, <2>2 DEF InboxInv, Genuine
<1>5. CASE PollTimer
  BY <1>1, <1>2, <1>5 DEF PollTimer, InboxInv, Genuine
<1>6. CASE Wake
  BY <1>1, <1>2, <1>6 DEF Wake, InboxInv, Genuine
<1>7. CASE PassTime
  BY <1>2, <1>7 DEF PassTime, InboxInv, Genuine
<1>8. ASSUME NEW d \in WallSteps, StepClock(d) PROVE InboxInv'
  BY <1>2, <1>8 DEF StepClock, InboxInv, Genuine
<1>9. CASE UNCHANGED loopVars
  BY <1>2, <1>9 DEF loopVars, InboxInv, Genuine
<1> QED BY <1>3, <1>4, <1>5, <1>6, <1>7, <1>8, <1>9 DEF LoopNext

LEMMA InboxStart == LoopInit => InboxInv
<1> SUFFICES ASSUME LoopInit PROVE InboxInv
  OBVIOUS
<1>1. 1 \in 1 .. SleepTurn
  BY TopicCount DEF SleepTurn
<1> QED BY <1>1 DEF LoopInit, InboxInv

\* The node implements the supervisor: however the passes of the loop poll
\* the readers, lose samples and miss ticks, each of its behaviours is one of
\* the controller's, so every theorem about Spec is one about the node.
THEOREM LoopRefinesSupervisor == LoopSpec => Spec
<1>1. LoopInit => Init
  BY DEF LoopInit
<1>2. InboxInv /\ [LoopNext]_loopVars => InboxInv'
  BY InboxStep
<1>3. InboxInv /\ [LoopNext]_loopVars => [Next]_vars
  BY LoopStepIsStep
<1> QED BY <1>1, <1>2, <1>3, InboxStart, PTL DEF LoopSpec, Spec

-----------------------------------------------------------------------------
(* The control timer.                                                      *)

\* The deadline a tick at `now' notes when the last one noted was `last': it
\* is in the past, and less than a period, or exactly one, behind.
LEMMA DeadlineIsNear ==
  ASSUME NEW now \in Int, NEW last \in Int, NEW p \in Nat \ {0}, now - last >= p
  PROVE  LET d == (IF now - last > 2 * p THEN last + ((now - last) \div p - 1) * p ELSE last) + p
         IN  d \in Int /\ d <= now /\ now - d <= p
<1> DEFINE e == now - last
           q == e \div p
<1>1. e \in Int /\ q \in Int
  OBVIOUS
<1>2. e = p * q + (e % p) /\ e % p \in 0 .. p - 1
  BY <1>1
<1>3. (q - 1) * p = p * q - p /\ p * q \in Int
  BY <1>1
<1> DEFINE r == e % p
           w == p * q
<1>4. e = w + r /\ r \in Int /\ r >= 0 /\ r < p /\ w \in Int /\ (q - 1) * p = w - p
  BY <1>2, <1>3
<1>5. CASE e > 2 * p
  <2>1. last + (q - 1) * p + p = now - r
    BY <1>4
  <2> QED BY <1>4, <1>5, <2>1
<1>6. CASE ~(e > 2 * p)
  BY <1>6
<1> QED BY <1>5, <1>6

\* The clock and the timer hold numbers.
TimerInv == lastTick \in Int

LEMMA TickDeadline ==
  ASSUME TypeOK, TimerInv, Elapsed >= Period, lastTick' = NextDeadline
  PROVE  lastTick' \in Int /\ lastTick' <= wall /\ wall - lastTick' <= Period
<1>1. wall \in Int /\ lastTick \in Int /\ Period \in Nat \ {0}
  BY LoopAssumption DEF TypeOK, TimerInv, LoopAssumption
<1> QED BY <1>1, DeadlineIsNear DEF NextDeadline, Elapsed

\* Only the timer's turn runs a control tick, and only when a period elapsed.
LEMMA TickStep ==
  ASSUME InboxInv, [LoopNext]_loopVars, outSeq' # outSeq
  PROVE  PollTimer /\ Elapsed >= Period /\ lastTick' = NextDeadline /\ ControlTick
<1>1. ControlTick
  BY LoopStepIsStep, OnlyTicksPublish
<1>2. ~PollReader
  <2> SUFFICES ASSUME PollReader PROVE FALSE
    OBVIOUS
  <2>1. PICK t \in TopicSet : \E m \in inbox[t] : Callback(t, m)
    BY PollDelivers DEF vars
  <2>2. PICK m \in inbox[t] : Callback(t, m)
    BY <2>1
  <2> QED BY <2>2 DEF Callback, SteeringStatus, OtherFeedback, Odometry, HeartbeatSample, Reenable,
       Trajectory, AcceptTrajectory, DrivingReference, AcceptReference, DrivingCommand,
       AcceptCommand, Fault, Ignore, outputs, vars
<1>3. ~(Wake \/ PassTime \/ (\E t \in TopicSet : \E m \in Samples(t) : Arrive(t, m))
        \/ (\E d \in WallSteps : StepClock(d)) \/ UNCHANGED loopVars)
  BY DEF Wake, Arrive, PassTime, Elapse, StepClock, StepWallClock, loopVars, vars, outputs
<1>4. PollTimer
  BY <1>2, <1>3 DEF LoopNext
<1> QED BY <1>1, <1>4 DEF PollTimer, vars

LEMMA TimerStep ==
  ASSUME TypeOK, TimerInv, InboxInv, [LoopNext]_loopVars
  PROVE  TimerInv'
<1>1. CASE PollTimer
  BY <1>1, TickDeadline DEF PollTimer, TimerInv
<1>2. CASE ~PollTimer
  BY <1>2 DEF LoopNext, Arrive, PollReader, Wake, PassTime, StepClock, loopVars, TimerInv
<1> QED BY <1>1, <1>2

\* Every behaviour of the loop keeps the types, the readers and the timer.
LEMMA LoopKeeps == LoopSpec => [](TypeOK /\ InboxInv /\ TimerInv)
<1>1. LoopInit => TimerInv
  BY DEF LoopInit, TimerInv
<1>2. InboxInv /\ [LoopNext]_loopVars => InboxInv'
  BY InboxStep
<1>3. TypeOK /\ TimerInv /\ InboxInv /\ [LoopNext]_loopVars => TimerInv'
  BY TimerStep
<1> QED BY <1>1, <1>2, <1>3, InboxStart, LoopRefinesSupervisor, TypeCorrect, PTL DEF LoopSpec

\* After a stall of any length at most one tick is still due.
THEOREM StallsAreNeverReplayed == LoopSpec => StallIsNotReplayed
<1>1. TypeOK /\ TimerInv /\ InboxInv /\ [LoopNext]_loopVars =>
        [outSeq' # outSeq => wall - lastTick' <= Period]_loopVars
  BY TickStep, TickDeadline
<1> QED BY <1>1, LoopKeeps, PTL DEF LoopSpec, StallIsNotReplayed

-----------------------------------------------------------------------------
(* A dead source stops the vehicle in bounded time.                        *)

\* A decision taken at `tau' is younger than the timer's last tick, and no
\* older than a period and what the passes since can have taken; every source
\* that was heard was fresh then, or was heard since.
InForce(tau) ==
  /\ tau <= steady
  /\ steady - tau <= wall - lastTick
  /\ steady - tau <= Period - 1 + (IF next = SleepTurn THEN passAge ELSE PassBound + passAge)
  /\ \A s \in Sources \ Unlimited : Seen(s) => tau - arrival[s] <= Timeout[s]

\* The inductive invariant: an approval in force was given at some moment that
\* is not long past.
PassInv ==
  /\ steady <= wall
  /\ passAge \in 0 .. PassBound
  /\ out.decision = "NORMAL" => \E tau \in Int : InForce(tau)

\* A callback moves neither clock nor the output; it stamps at most arrivals.
LEMMA CallbackKeeps ==
  ASSUME TypeOK, NEW t, NEW m, Callback(t, m)
  PROVE  /\ wall' = wall /\ steady' = steady /\ out' = out
         /\ \A s \in Sources : arrival'[s] = arrival[s] \/ arrival'[s] = wall
<1>1. arrival \in [Sources -> Int]
  BY DEF TypeOK
<1> DEFINE Quiet == wall' = wall /\ steady' = steady /\ out' = out
           Kept == Quiet /\ (arrival' = arrival \/ \E s : Note(s))
<1>2. ASSUME NEW why, Fault(why) PROVE Kept
  BY <1>2 DEF Fault, outputs, clocks
<1>3. ASSUME Ignore PROVE Kept
  BY <1>3 DEF Ignore, vars
<1>4. ASSUME Trajectory(m) PROVE Kept
  BY <1>2, <1>3, <1>4 DEF Trajectory, AcceptTrajectory, outputs, clocks
<1>5. ASSUME DrivingReference(m) PROVE Kept
  BY <1>2, <1>3, <1>5 DEF DrivingReference, AcceptReference, outputs, clocks
<1>6. ASSUME DrivingCommand(m) PROVE Kept
  BY <1>2, <1>3, <1>6 DEF DrivingCommand, AcceptCommand, outputs, clocks
<1>7. ASSUME SteeringStatus(m) \/ OtherFeedback(t) \/ Odometry(m) \/ HeartbeatSample \/ Reenable
      PROVE  Kept
  BY <1>7 DEF SteeringStatus, OtherFeedback, Odometry, HeartbeatSample, Reenable, outputs, clocks
<1>8. Kept
  BY <1>4, <1>5, <1>6, <1>7 DEF Callback
<1> QED BY <1>1, <1>8 DEF Note

\* A tick that approves finds no stale source: it is the moment to remember.
LEMMA ApprovalIsFresh ==
  ASSUME TypeOK, steady <= wall, ControlTick, out'.decision = "NORMAL"
  PROVE  \A s \in Sources \ Unlimited : Seen(s) => steady - arrival[s] <= Timeout[s]
<1>1. StaleSources = {}
  <2>1. ~Supervised.latched
    BY OnlyStopWhileLatched
  <2> QED BY <2>1, SupervisedLatched DEF AllSourcesFresh
<1>2. /\ wall \in Int /\ steady \in Int /\ Timeout \in [Sources -> Nat]
      /\ arrival \in [Sources -> Int]
  BY ConfigAssumption DEF TypeOK, ConfigAssumption
<1>3. ASSUME NEW s \in Sources \ Unlimited, Seen(s) PROVE steady - arrival[s] <= Timeout[s]
  <2>1. ~(wall - arrival[s] > Timeout[s])
    BY <1>1, <1>3 DEF StaleSources, Stale
  <2> QED BY <1>2, <2>1
<1> QED BY <1>3

\* The tick leaves clocks and arrivals alone.
LEMMA TickKeepsTime == ControlTick => wall' = wall /\ steady' = steady /\ arrival' = arrival
BY DEF ControlTick, clocks

\* The numbers the steps below compare.
LEMMA LoopNumbers ==
  ASSUME TypeOK, TimerInv
  PROVE  /\ wall \in Int /\ steady \in Int /\ lastTick \in Int
         /\ Period \in Int /\ Period >= 1 /\ PassBound \in Nat
         /\ arrival \in [Sources -> Int] /\ Timeout \in [Sources -> Nat]
         /\ SleepTurn \in Int /\ TimerTurn \in Int /\ SleepTurn = TimerTurn + 1 /\ TimerTurn >= 2
BY ConfigAssumption, LoopAssumption, TopicCount
   DEF TypeOK, TimerInv, ConfigAssumption, LoopAssumption, SleepTurn, TimerTurn

\* A step that keeps both clocks, the timer, the output and the age of the
\* pass, and stamps arrivals with the present, keeps the invariant.
LEMMA QuietStep ==
  ASSUME TypeOK, TypeOK', TimerInv, PassInv,
         wall' = wall, steady' = steady, out' = out, lastTick' = lastTick, passAge' = passAge,
         \A s \in Sources : arrival'[s] = arrival[s] \/ arrival'[s] = wall,
         next # SleepTurn, next' # SleepTurn
  PROVE  PassInv'
<1>1. ASSUME out.decision = "NORMAL" PROVE \E tau \in Int : InForce(tau)'
  <2>1. PICK tau \in Int : InForce(tau)
    BY <1>1 DEF PassInv
  <2>2. /\ tau <= steady /\ steady - tau <= wall - lastTick
        /\ steady - tau <= Period - 1 + (PassBound + passAge)
    BY <2>1 DEF InForce
  <2>3. ASSUME NEW s \in Sources \ Unlimited, arrival'[s] >= 0
        PROVE  tau - arrival'[s] <= Timeout[s]
    <3>1. CASE arrival'[s] = arrival[s]
      BY <2>1, <2>3, <3>1 DEF InForce, Seen
    <3>2. CASE arrival'[s] = wall
      BY <2>2, <3>2, LoopNumbers DEF PassInv
    <3> QED BY <3>1, <3>2
  <2> QED BY <2>2, <2>3 DEF InForce, Seen, SleepTurn, Topics
<1> QED BY <1>1 DEF PassInv

LEMMA PollReaderKeeps ==
  ASSUME TypeOK, TypeOK', TimerInv, InboxInv, PassInv, PollReader
  PROVE  PassInv'
<1>1. next # SleepTurn /\ next' # SleepTurn /\ lastTick' = lastTick /\ passAge' = passAge
  BY TopicCount DEF PollReader, SleepTurn
<1>2. CASE UNCHANGED vars
  BY <1>1, <1>2, QuietStep DEF vars
<1>3. ASSUME NEW t \in TopicSet, NEW m \in inbox[t], Callback(t, m) PROVE PassInv'
  BY <1>1, <1>3, QuietStep, CallbackKeeps
<1> QED BY <1>2, <1>3, PollDelivers

LEMMA PollTimerKeeps ==
  ASSUME TypeOK, TypeOK', TimerInv, PassInv, PollTimer
  PROVE  PassInv'
<1>1. next = TimerTurn /\ next' = SleepTurn /\ next # SleepTurn /\ passAge' = passAge
      /\ passAge \in Int /\ passAge >= 0
  BY LoopNumbers DEF PollTimer, PassInv
<1>2. CASE Elapsed >= Period
  <2>1. ControlTick /\ lastTick' = NextDeadline
    BY <1>2 DEF PollTimer
  <2>2. wall' = wall /\ steady' = steady /\ arrival' = arrival
        /\ lastTick' \in Int /\ lastTick' <= wall
    BY <1>2, <2>1, TickKeepsTime, TickDeadline
  <2>3. ASSUME out'.decision = "NORMAL" PROVE InForce(steady)' /\ steady \in Int
    <3>1. \A s \in Sources \ Unlimited : Seen(s) => steady - arrival[s] <= Timeout[s]
      BY <2>1, <2>3, ApprovalIsFresh DEF PassInv
    <3>2. steady - steady <= wall - lastTick' /\ steady - steady <= Period - 1 + passAge
      BY <1>1, <2>2, LoopNumbers
    <3>3. SleepTurn' = SleepTurn
      BY DEF SleepTurn, Topics
    <3> QED BY <1>1, <2>2, <3>1, <3>2, <3>3, LoopNumbers DEF InForce, Seen
  <2>4. ASSUME out'.decision = "NORMAL" PROVE \E tau \in Int : InForce(tau)'
    <3>1. PICK tau \in Int : tau = steady
      BY LoopNumbers
    <3> QED BY <2>2, <2>3, <2>4, <3>1 DEF InForce, Seen
  <2> QED BY <1>1, <2>2, <2>4 DEF PassInv
<1>3. CASE ~(Elapsed >= Period)
  <2>1. UNCHANGED vars /\ lastTick' = lastTick
    BY <1>3 DEF PollTimer
  <2>2. wall' = wall /\ steady' = steady /\ out' = out /\ arrival' = arrival
    BY <2>1 DEF vars
  <2>3. wall - lastTick <= Period - 1
    BY <1>3, LoopNumbers DEF Elapsed
  <2>4. ASSUME out.decision = "NORMAL" PROVE \E tau \in Int : InForce(tau)'
    <3>1. PICK tau \in Int : InForce(tau)
      BY <2>4 DEF PassInv
    <3>2. tau <= steady /\ steady - tau <= wall - lastTick
          /\ steady - tau <= Period - 1 + passAge
      BY <1>1, <2>3, <3>1, LoopNumbers DEF InForce
    <3>3. SleepTurn' = SleepTurn
      BY DEF SleepTurn, Topics
    <3> QED BY <1>1, <2>1, <2>2, <3>1, <3>2, <3>3 DEF InForce, Seen
  <2> QED BY <1>1, <2>2, <2>4 DEF PassInv
<1> QED BY <1>2, <1>3

LEMMA WakeKeeps ==
  ASSUME TypeOK, TimerInv, PassInv, Wake
  PROVE  PassInv'
<1>1. wall' = wall /\ steady' = steady /\ out' = out /\ arrival' = arrival
      /\ lastTick' = lastTick /\ passAge' = 0 /\ next = SleepTurn /\ next' = 1
  BY DEF Wake, vars
<1>2. SleepTurn' = SleepTurn /\ next' # SleepTurn
  BY <1>1, LoopNumbers DEF SleepTurn, Topics
<1>3. ASSUME out.decision = "NORMAL" PROVE \E tau \in Int : InForce(tau)'
  <2>1. PICK tau \in Int : InForce(tau)
    BY <1>3 DEF PassInv
  <2>2. steady - tau <= Period - 1 + (PassBound + 0)
    BY <1>1, <2>1, LoopNumbers DEF InForce, PassInv
  <2> QED BY <1>1, <1>2, <2>1, <2>2 DEF InForce, Seen
<1> QED BY <1>1, <1>3, LoopNumbers DEF PassInv

LEMMA PassTimeKeeps ==
  ASSUME TypeOK, TimerInv, PassInv, PassTime
  PROVE  PassInv'
<1>1. wall' = wall + 1 /\ steady' = steady + 1 /\ out' = out /\ arrival' = arrival
      /\ lastTick' = lastTick /\ passAge' = passAge + 1 /\ passAge < PassBound /\ next' = next
  BY DEF PassTime, Elapse, outputs
<1>2. ASSUME out.decision = "NORMAL" PROVE \E tau \in Int : InForce(tau)'
  <2>1. PICK tau \in Int : InForce(tau)
    BY <1>2 DEF PassInv
  <2>2. tau <= steady' /\ steady' - tau <= wall' - lastTick
        /\ steady' - tau <= Period - 1 + (IF next = SleepTurn THEN passAge' ELSE PassBound + passAge')
    BY <1>1, <2>1, LoopNumbers DEF InForce, PassInv
  <2>3. SleepTurn' = SleepTurn
    BY DEF SleepTurn, Topics
  <2> QED BY <1>1, <2>1, <2>2, <2>3 DEF InForce, Seen
<1> QED BY <1>1, <1>2, LoopNumbers DEF PassInv

\* A clock that is set forward makes every source older: nothing is lost.
LEMMA StepClockKeeps ==
  ASSUME WallSteps \subseteq Nat, TypeOK, TimerInv, PassInv, NEW d \in WallSteps, StepClock(d)
  PROVE  PassInv'
<1>1. wall' = wall + d /\ steady' = steady /\ out' = out /\ arrival' = arrival
      /\ lastTick' = lastTick /\ passAge' = passAge /\ next' = next /\ d \in Nat
  BY DEF StepClock, StepWallClock, outputs
<1>2. ASSUME out.decision = "NORMAL" PROVE \E tau \in Int : InForce(tau)'
  <2>1. PICK tau \in Int : InForce(tau)
    BY <1>2 DEF PassInv
  <2>2. steady' - tau <= wall' - lastTick
    BY <1>1, <2>1, LoopNumbers DEF InForce
  <2>3. SleepTurn' = SleepTurn
    BY DEF SleepTurn, Topics
  <2> QED BY <1>1, <2>1, <2>2, <2>3 DEF InForce, Seen
<1> QED BY <1>1, <1>2, LoopNumbers DEF PassInv

LEMMA StillKeeps ==
  ASSUME PassInv, UNCHANGED <<vars, next, lastTick, passAge>>
  PROVE  PassInv'
<1>1. SleepTurn' = SleepTurn
  BY DEF SleepTurn, Topics
<1> QED BY <1>1 DEF PassInv, InForce, Seen, vars

LEMMA PassStep ==
  ASSUME WallSteps \subseteq Nat, TypeOK, TypeOK', TimerInv, InboxInv, PassInv,
         [LoopNext]_loopVars
  PROVE  PassInv'
<1>1. ASSUME NEW t \in TopicSet, NEW m \in Samples(t), Arrive(t, m) PROVE PassInv'
  BY <1>1, StillKeeps DEF Arrive
<1>2. CASE UNCHANGED loopVars
  BY <1>2, StillKeeps DEF loopVars
<1> QED BY <1>1, <1>2, PollReaderKeeps, PollTimerKeeps, WakeKeeps, PassTimeKeeps, StepClockKeeps
        DEF LoopNext

\* While the decision in force is NORMAL no source has been silent for its
\* limit, one period and two passes.
LEMMA DeadSourceBound ==
  ASSUME TypeOK, TimerInv, PassInv
  PROVE  DeadSourceStopsInTime
<1> SUFFICES ASSUME NEW s \in Sources \ Unlimited, Seen(s),
                    steady - arrival[s] >= Timeout[s] + Period + 2 * PassBound,
                    out.decision = "NORMAL"
             PROVE  FALSE
  BY DEF DeadSourceStopsInTime
<1>1. PICK tau \in Int : InForce(tau)
  BY DEF PassInv
<1>2. tau - arrival[s] <= Timeout[s] /\ steady - tau <= Period - 1 + 2 * PassBound
  BY <1>1, LoopNumbers DEF InForce, PassInv
<1> QED BY <1>1, <1>2, LoopNumbers

\* A dead source stops the vehicle in bounded time, for every set of sources,
\* every limit, period and length of a pass, provided the system clock is not
\* set back: a clock that is set back makes every source look younger than it
\* is, by as much as it was set back (SourceWatch subtracts system times).
THEOREM DeadSourceAlwaysStopsInTime ==
  ASSUME WallSteps \subseteq Nat
  PROVE  LoopSpec => []DeadSourceStopsInTime
<1>1. LoopInit => PassInv
  BY LoopAssumption DEF LoopInit, Init, PassInv, LoopAssumption
<1>2. /\ TypeOK /\ InboxInv /\ TimerInv /\ TypeOK' /\ PassInv /\ [LoopNext]_loopVars
      => PassInv'
  BY PassStep
<1>3. TypeOK /\ TimerInv /\ PassInv => DeadSourceStopsInTime
  BY DeadSourceBound
<1> QED BY <1>1, <1>2, <1>3, LoopKeeps, PTL DEF LoopSpec
=============================================================================
