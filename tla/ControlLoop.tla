---------------------------- MODULE ControlLoop ----------------------------
(***************************************************************************)
(* The node that runs the supervisor: one thread that polls its DDS        *)
(* readers in subscription order, one sample each, then its timer, then    *)
(* sleeps (node.hpp, subscriber.hpp, timer.hpp).  The readers keep the     *)
(* last sample only, so a sample that is not taken in time is overwritten. *)
(*                                                                         *)
(* A pass of the loop takes time: while it runs samples arrive, the        *)
(* watchdogs age and the control period may elapse several times.          *)
(***************************************************************************)
EXTENDS Supervisor

CONSTANTS
  Period,      \* ctrl_period, the period of the control timer
  PassBound,   \* the longest time one pass of the loop takes
  SendsReenable\* whether an operator presses re-enable in this instance

ASSUME LoopAssumption ==
  /\ Period \in Nat \ {0} /\ PassBound \in Nat
  /\ SendsReenable \in BOOLEAN

VARIABLES
  inbox,       \* what each reader keeps: at most one sample, the last
  next,        \* the reader the pass looks at, then the timer, then the sleep
  lastTick,    \* Timer::last_execution_time_
  passAge,     \* how long the current pass has taken
  answers      \* history: the fault the pending request answers, 0 for none

loopVars == <<vars, inbox, next, lastTick, passAge, answers>>

\* The topics in the order the constructor subscribes to them.
Topics ==
  <<"steering_report">>
  \o (CASE Config = "si_vp" -> <<"reference">> [] Config = "si_autoware" -> <<"trajectory">>
        [] OTHER -> << >>)
  \o <<"odometry">>
  \o (IF "acceleration" \in Feedback THEN <<"acceleration">> ELSE << >>)
  \o (IF "operation_mode" \in Feedback THEN <<"operation_mode">> ELSE << >>)
  \o (IF Config = "vp" THEN <<"command">> ELSE << >>)
  \o <<"reenable", "vp_heartbeat">>

TopicSet == {Topics[i] : i \in 1 .. Len(Topics)}
TimerTurn == Len(Topics) + 1
SleepTurn == Len(Topics) + 2

\* What a producer may write.  An operator's press is written with the fault
\* that is latched when the operator decides (history; the message has no field).
Samples(t) ==
  CASE t = "steering_report" -> SteerReports
    [] t = "reference"       -> References
    [] t = "trajectory"      -> Trajectories
    [] t = "odometry"        -> Odometries
    [] t = "command"         -> Commands
    [] t = "reenable"        -> IF SendsReenable THEN {IF sup.latched THEN sup.faultId ELSE 0}
                                ELSE {}
    [] t = "vp_heartbeat"    -> IF SendsHeartbeat THEN {0} ELSE {}
    [] OTHER                 -> {0}

-----------------------------------------------------------------------------
Arrive(t, m) ==
  /\ inbox' = [inbox EXCEPT ![t] = {m}]
  /\ UNCHANGED <<vars, next, lastTick, passAge, answers>>

Callback(t, m) ==
  CASE t = "steering_report" -> SteeringStatus(m)
    [] t = "reference"       -> DrivingReference(m)
    [] t = "trajectory"      -> Trajectory(m)
    [] t = "odometry"        -> Odometry(m)
    [] t = "command"         -> DrivingCommand(m)
    [] t = "reenable"        -> Reenable
    [] t = "vp_heartbeat"    -> HeartbeatSample
    [] OTHER                 -> OtherFeedback(t)

\* process_next_message of the reader whose turn it is: take at most one.
PollReader ==
  /\ next \in 1 .. Len(Topics)
  /\ LET t == Topics[next]
     IN  \/ inbox[t] = {} /\ UNCHANGED <<vars, inbox, answers>>
         \/ \E m \in inbox[t] :
              /\ Callback(t, m)
              /\ inbox' = [inbox EXCEPT ![t] = {}]
              /\ answers' = IF t = "reenable" THEN m ELSE answers
  /\ next' = next + 1
  /\ UNCHANGED <<lastTick, passAge>>

Elapsed == wall - lastTick

\* Mutants of NextDeadline: a stall is caught up tick by tick; the time noted
\* is the one the next tick is due at, not the one of this tick.
CatchesUpEveryTick == lastTick + Period
NotesNextTick == wall + Period

\* Timer::execute: after a long stall only the latest missed tick is run.
NextDeadline ==
  (IF Elapsed > 2 * Period THEN lastTick + (Elapsed \div Period - 1) * Period ELSE lastTick)
  + Period

PollTimer ==
  /\ next = TimerTurn
  /\ IF Elapsed >= Period
     THEN lastTick' = NextDeadline /\ ControlTick
     ELSE UNCHANGED <<vars, lastTick>>
  /\ next' = SleepTurn
  /\ UNCHANGED <<inbox, passAge, answers>>

Wake ==
  /\ next = SleepTurn
  /\ next' = 1 /\ passAge' = 0
  /\ UNCHANGED <<vars, inbox, lastTick, answers>>

PassTime ==
  /\ passAge < PassBound
  /\ Elapse
  /\ passAge' = passAge + 1
  /\ UNCHANGED <<inbox, next, lastTick, answers>>

StepClock(d) ==
  /\ StepWallClock(d)
  /\ UNCHANGED <<inbox, next, lastTick, passAge, answers>>

LoopInit ==
  /\ Init
  /\ inbox = [t \in TopicSet |-> {}]
  /\ next = 1 /\ lastTick = 0 /\ passAge = 0 /\ answers = 0

LoopNext ==
  \/ \E t \in TopicSet : \E m \in Samples(t) : Arrive(t, m)
  \/ PollReader
  \/ PollTimer
  \/ Wake
  \/ PassTime
  \/ \E d \in WallSteps : StepClock(d)

LoopSpec == LoopInit /\ [][LoopNext]_loopVars

-----------------------------------------------------------------------------
(* Properties.                                                             *)

\* A dead source stops the vehicle in bounded time: however a pass is spread
\* over its readers and however often the timer is missed, the decision in
\* force while a seen source is silent for its limit, one period and two
\* passes is not NORMAL.
DeadSourceStopsInTime ==
  \A s \in Sources \ Unlimited :
    Seen(s) /\ steady - arrival[s] >= Timeout[s] + Period + 2 * PassBound
      => out.decision # "NORMAL"

\* After a stall of any length at most one tick is still due: the loop does not
\* answer a stall with a burst of control commands computed from one input.
StallIsNotReplayed == [][outSeq' # outSeq => wall - lastTick' <= Period]_loopVars

\* A request that ends a stop was made while that stop was latched: a press
\* that predates the fault does not clear it.
PressAnswersThisFault ==
  [][sup.latched /\ ~sup'.latched => answers = sup.faultId]_loopVars

=============================================================================
