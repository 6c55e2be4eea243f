----------------------------- MODULE X5hImage -----------------------------
(***************************************************************************)
(* The X5H image as its console and its rpmsg-si heartbeat show it: main() *)
(* and the launcher, the wait for Linux, the beacon, the tasks that        *)
(* compute or halt below them, and the ways in which everything stops.     *)
(*                                                                         *)
(* A task is absent, idle (blocked until imWake, or on an event), ready,   *)
(* busy (it computes or spins without blocking) or gone.  The scheduler is *)
(* preemptive with fixed priorities; equal ones share the processor.  Time *)
(* passes in ticks, and only when every task that is ready and can run has *)
(* run, unless it is the heartbeat, whose work may take WorkTicks.         *)
(***************************************************************************)
EXTENDS Integers, FiniteSets

CONSTANTS BeaconPeriod, VdevPeriod, HbPeriod, \* in ticks
          WorkTicks,   \* ticks one heartbeat's work may take
          ImMaxTime    \* bound on the clock

ASSUME ImageAssumption ==
  /\ {BeaconPeriod, VdevPeriod, HbPeriod} \subseteq Nat \ {0}
  /\ WorkTicks \in Nat /\ WorkTicks < HbPeriod /\ ImMaxTime \in Nat

VARIABLES imMain,     \* main()'s progress, "running" once the scheduler is
          imVectors,  \* the image's own exception vectors are installed
          imLaunch,   \* the launcher's progress
          imTask,     \* task -> state
          imWake,     \* task -> ticks until it wakes, of the timed tasks
          imDriverOk, \* Linux has bound
          imDead,     \* "no", or why no task runs any more
          imSaid,     \* halts the console has reported
          imNow,
          imBeaconAge, imVdevAge, \* ticks since the last line of each
          imHbStart,  \* when the heartbeat task started
          imHbSent,   \* heartbeats sent
          imHbWork,   \* ticks the heartbeat under way has taken
          imHbLate    \* ghost: something has kept the heartbeat from running

imVars == <<imMain, imVectors, imLaunch, imTask, imWake, imDriverOk, imDead,
            imSaid, imNow, imBeaconAge, imVdevAge, imHbStart, imHbSent, imHbWork, imHbLate>>

clockVars == <<imNow, imBeaconAge, imVdevAge, imHbStart, imHbSent, imHbWork, imHbLate>>

ImTasks == {"beacon", "vdev_hb", "poll", "tcpip", "si_hb", "launcher", "controller"}

(* Mutant of ImPriority: the reporters run at the launcher's priority - 1. *)
PriorityOfReporters(t) ==
  CASE t \in {"beacon", "vdev_hb", "controller"} -> 1 [] t = "poll" -> 5
    [] t \in {"tcpip", "si_hb"} -> 4 [] OTHER -> 2

ImPriority(t) ==
  CASE t \in {"beacon", "vdev_hb"} -> 31 [] t = "poll" -> 5
    [] t \in {"tcpip", "si_hb"} -> 4 [] t = "launcher" -> 2 [] OTHER -> 1

ImRunnable(t) == imTask[t] \in {"ready", "busy"}

(* t gets the processor, alone or in turns with its equals. *)
ImRuns(t) ==
  /\ imDead = "no" /\ imMain = "running" /\ ImRunnable(t)
  /\ \A o \in ImTasks : ImRunnable(o) => ImPriority(o) <= ImPriority(t)

ImSet(t, state) == imTask' = [imTask EXCEPT ![t] = state]

-----------------------------------------------------------------------------
(* main() *)

(* A table that is not aligned leaves the vendor's silent vectors in place. *)
InstallVectors(aligned) ==
  /\ imMain = "vectors"
  /\ imMain' = "launcher" /\ imVectors' = aligned
  /\ UNCHANGED <<imLaunch, imTask, imWake, imDriverOk, imDead, imSaid, clockVars>>

CreateLauncher(ok) ==
  /\ imMain = "launcher"
  /\ imMain' = IF ok THEN "beacon" ELSE "stuck"
  /\ imDead' = IF ok THEN imDead ELSE "stuck"
  /\ imSaid' = IF ok THEN imSaid ELSE imSaid \cup {"no launcher"}
  /\ IF ok THEN ImSet("launcher", "ready") ELSE UNCHANGED imTask
  /\ UNCHANGED <<imVectors, imLaunch, imWake, imDriverOk, clockVars>>

(* Without a beacon the image starts all the same. *)
StartBeacon(ok) ==
  /\ imMain = "beacon"
  /\ imMain' = "running"
  /\ IF ok THEN ImSet("beacon", "ready") ELSE UNCHANGED imTask
  /\ imSaid' = IF ok THEN imSaid ELSE imSaid \cup {"no beacon"}
  /\ UNCHANGED <<imVectors, imLaunch, imWake, imDriverOk, imDead, clockVars>>

-----------------------------------------------------------------------------
(* The launcher: actuation_main up to the join of the controller *)

Launch(from, to) == ImRuns("launcher") /\ imLaunch = from /\ imLaunch' = to

LaunchOnly == UNCHANGED <<imMain, imVectors, imDriverOk, imDead, imSaid>>

(* tcpip_init, platform_init and the task that reports the wait.  A failed *)
(* transport is logged: main() goes on to the controller without it.       *)
NoPlatform ==
  /\ Launch("network", "controller")
  /\ imTask' = [imTask EXCEPT !["launcher"] = "busy", !["tcpip"] = "idle"]
  /\ LaunchOnly /\ UNCHANGED <<imWake, clockVars>>

BeginWait(created) ==
  /\ Launch("network", "wait")
  /\ imTask' = [imTask EXCEPT !["launcher"] = "busy", !["tcpip"] = "idle",
                              !["vdev_hb"] = IF created THEN "idle" ELSE "absent"]
  /\ imWake' = [imWake EXCEPT !["vdev_hb"] = VdevPeriod]
  /\ imVdevAge' = 0
  /\ LaunchOnly /\ UNCHANGED <<imNow, imBeaconAge, imHbStart, imHbSent, imHbWork, imHbLate>>

(* DRIVER_OK ends the busy wait; the reporting task is deleted. *)
EndWait ==
  /\ imDriverOk /\ Launch("wait", "endpoints")
  /\ imTask' = [imTask EXCEPT !["launcher"] = "ready",
                              !["vdev_hb"] = IF @ = "absent" THEN "absent" ELSE "gone"]
  /\ LaunchOnly /\ UNCHANGED <<imWake, clockVars>>

(* rpmsg-si comes after rpmsg-eth and its poll task and is optional; its *)
(* endpoint stays when the heartbeat task cannot be created.             *)
CreateEndpoints(ok, heartbeat) ==
  /\ Launch("endpoints", "controller")
  /\ imTask' = [imTask EXCEPT !["poll"] = IF ok THEN "idle" ELSE "absent",
                              !["si_hb"] = IF ok /\ heartbeat THEN "idle" ELSE "absent",
                              !["launcher"] = "busy"]
  /\ imWake' = [imWake EXCEPT !["si_hb"] = HbPeriod]
  /\ imHbStart' = imNow
  /\ LaunchOnly /\ UNCHANGED <<imNow, imBeaconAge, imVdevAge, imHbSent, imHbWork, imHbLate>>

(* The constructor computes for long; then the launcher joins for ever. *)
StartController ==
  /\ Launch("controller", "join")
  /\ imTask' = [imTask EXCEPT !["controller"] = "idle", !["launcher"] = "idle"]
  /\ LaunchOnly /\ UNCHANGED <<imWake, clockVars>>

-----------------------------------------------------------------------------
(* The tasks that report *)

(* x5h_diag_beacon_task writes its line to the polled port, without a lock. *)
BeaconPrints ==
  /\ imTask["beacon"] = "ready" /\ ImRuns("beacon")
  /\ ImSet("beacon", "idle") /\ imWake' = [imWake EXCEPT !["beacon"] = BeaconPeriod]
  /\ imBeaconAge' = 0
  /\ UNCHANGED <<imMain, imVectors, imLaunch, imDriverOk, imDead, imSaid,
                 imNow, imVdevAge, imHbStart, imHbSent, imHbWork, imHbLate>>

VdevPrints ==
  /\ imTask["vdev_hb"] = "ready" /\ ImRuns("vdev_hb")
  /\ ImSet("vdev_hb", "idle") /\ imWake' = [imWake EXCEPT !["vdev_hb"] = VdevPeriod]
  /\ imVdevAge' = 0
  /\ LaunchOnly /\ UNCHANGED <<imLaunch, imNow, imBeaconAge, imHbStart, imHbSent, imHbWork, imHbLate>>

(* Mutant of NextHeartbeat: a delay relative to the end of the work. *)
HeartbeatAfterWork == HbPeriod

(* vTaskDelayUntil: the next deadline is absolute, a missed one is caught up. *)
NextHeartbeat ==
  LET due == imHbStart + (imHbSent + 2) * HbPeriod
  IN IF due > imNow THEN due - imNow ELSE 0

(* si_heartbeat_task formats a line and sends it without waiting. *)
HeartbeatSends ==
  /\ imTask["si_hb"] = "ready" /\ ImRuns("si_hb")
  /\ imHbSent' = imHbSent + 1 /\ imHbWork' = 0
  /\ ImSet("si_hb", IF NextHeartbeat = 0 THEN "ready" ELSE "idle")
  /\ imWake' = [imWake EXCEPT !["si_hb"] = NextHeartbeat]
  /\ LaunchOnly /\ UNCHANGED <<imLaunch, imNow, imBeaconAge, imVdevAge, imHbStart, imHbLate>>

(* The tasks below do their work; they take the processor and give it back. *)
Works(t) ==
  /\ t \in {"poll", "tcpip", "controller"} /\ imDead = "no" /\ imMain = "running"
  /\ imTask[t] = "idle" /\ ImSet(t, "ready")
  /\ LaunchOnly /\ UNCHANGED <<imLaunch, imWake, clockVars>>

Rests(t) ==
  /\ t \in {"poll", "tcpip", "controller"} /\ imTask[t] = "ready" /\ ImRuns(t)
  /\ ImSet(t, "idle")
  /\ LaunchOnly /\ UNCHANGED <<imLaunch, imWake, clockVars>>

LinuxBinds ==
  /\ ~imDriverOk /\ imDriverOk' = TRUE
  /\ UNCHANGED <<imMain, imVectors, imLaunch, imTask, imWake, imDead, imSaid, clockVars>>

-----------------------------------------------------------------------------
(* Halts *)

Workers == {"poll", "tcpip", "launcher", "controller"}

(* abort() and _exit() report and spin in the caller, at its priority. *)
Halts(t) ==
  /\ ImRuns(t)
  /\ ImSet(t, "busy") /\ imSaid' = imSaid \cup {"halt"}
  /\ imLaunch' = IF t = "launcher" THEN "halted" ELSE imLaunch
  /\ UNCHANGED <<imMain, imVectors, imWake, imDriverOk, imDead, clockVars>>

(* A fault enters the vectors: interrupts are masked, nothing runs again. *)
Exception(t) ==
  /\ ImRuns(t)
  /\ imDead' = "fault"
  /\ imSaid' = IF imVectors THEN imSaid \cup {"exception"} ELSE imSaid
  /\ UNCHANGED <<imMain, imVectors, imLaunch, imTask, imWake, imDriverOk, clockVars>>

(* Mutant of Overflows: the hook only stops. *)
OverflowsSilently(t) ==
  /\ ImRuns(t)
  /\ imDead' = "overflow"
  /\ UNCHANGED <<imMain, imVectors, imLaunch, imTask, imWake, imDriverOk, imSaid, clockVars>>

(* The stack overflow hook reports from inside the context switch. *)
Overflows(t) ==
  /\ ImRuns(t)
  /\ imDead' = "overflow" /\ imSaid' = imSaid \cup {"overflow"}
  /\ UNCHANGED <<imMain, imVectors, imLaunch, imTask, imWake, imDriverOk, clockVars>>

(* vTaskSuspendAll() that is never resumed. *)
LocksScheduler(t) ==
  /\ ImRuns(t)
  /\ imDead' = "locked"
  /\ UNCHANGED <<imMain, imVectors, imLaunch, imTask, imWake, imDriverOk, imSaid, clockVars>>

-----------------------------------------------------------------------------

(* The heartbeat is kept from running by a halt at its priority or above. *)
HeartbeatBlocked ==
  imDead # "no" \/ \E t \in ImTasks \ {"si_hb"} : imTask[t] = "busy" /\ ImPriority(t) >= ImPriority("si_hb")

ImTicks ==
  /\ imNow < ImMaxTime /\ (imMain = "running" \/ imDead # "no")
  /\ \A t \in ImTasks \ {"si_hb"} : ~(imTask[t] = "ready" /\ ImRuns(t))
  /\ imTask["si_hb"] = "ready" /\ ImRuns("si_hb") =>
       imHbWork < WorkTicks
  /\ imNow' = imNow + 1
  /\ imWake' = [t \in ImTasks |-> IF imTask[t] = "idle" /\ imWake[t] > 0 /\ imDead = "no"
                                  THEN imWake[t] - 1 ELSE imWake[t]]
  /\ imTask' = [t \in ImTasks |-> IF imTask[t] = "idle" /\ imWake[t] = 1 /\ imDead = "no"
                                  THEN "ready" ELSE imTask[t]]
  /\ imBeaconAge' = IF imTask["beacon"] = "absent" THEN 0 ELSE imBeaconAge + 1
  /\ imVdevAge' = IF imTask["vdev_hb"] \in {"idle", "ready"} THEN imVdevAge + 1 ELSE 0
  /\ imHbWork' = IF imTask["si_hb"] = "ready" /\ imHbWork < WorkTicks THEN imHbWork + 1 ELSE imHbWork
  /\ imHbLate' = (imHbLate \/ HeartbeatBlocked)
  /\ UNCHANGED <<imMain, imVectors, imLaunch, imDriverOk, imDead, imSaid,
                 imHbStart, imHbSent>>

ImageInit ==
  /\ imMain = "vectors" /\ imVectors = FALSE /\ imLaunch = "network"
  /\ imTask = [t \in ImTasks |-> "absent"] /\ imWake = [t \in ImTasks |-> 0]
  /\ imDriverOk = FALSE /\ imDead = "no" /\ imSaid = {}
  /\ imNow = 0 /\ imBeaconAge = 0 /\ imVdevAge = 0
  /\ imHbStart = 0 /\ imHbSent = 0 /\ imHbWork = 0 /\ imHbLate = FALSE

ImageNext ==
  \/ \E ok \in BOOLEAN : InstallVectors(ok) \/ CreateLauncher(ok) \/ StartBeacon(ok) \/ BeginWait(ok)
  \/ NoPlatform \/ EndWait \/ StartController \/ LinuxBinds
  \/ \E ok, hb \in BOOLEAN : CreateEndpoints(ok, hb)
  \/ BeaconPrints \/ VdevPrints \/ HeartbeatSends
  \/ \E t \in Workers :
       \/ Works(t) \/ Rests(t)
       \/ Halts(t) \/ Exception(t) \/ Overflows(t) \/ LocksScheduler(t)
  \/ ImTicks

-----------------------------------------------------------------------------
(* Properties *)

(* "Silence means dead" (x5h_diag.h): a beacon that was started falls       *)
(* silent only when no task runs any more, and not because tasks below it   *)
(* compute without blocking, wait for Linux or have halted.                 *)
SilenceMeansDead ==
  imTask["beacon"] # "absent" /\ imBeaconAge > BeaconPeriod => imDead # "no"

(* A console that has fallen silent without naming a fault means a          *)
(* scheduler that was suspended and not resumed, provided that the vectors  *)
(* were installed (x5h_diag_exception_report, the overflow hook).           *)
UnnamedSilenceIsLock ==
  imTask["beacon"] # "absent" /\ imVectors /\ imBeaconAge > BeaconPeriod
    /\ imSaid \cap {"exception", "overflow"} = {} => imDead = "locked"

(* The wait for Linux is visible for as long as it lasts: its reporter runs *)
(* above the task that spins (rpmsg_vdev_heartbeat_task).                   *)
WaitIsVisible ==
  imTask["vdev_hb"] \in {"idle", "ready"} /\ imVdevAge > VdevPeriod => imDead # "no"

(* The heartbeat does not drift: whatever its work takes, it has never sent *)
(* fewer than one line per period, less the one under way, unless a task at *)
(* its priority or above has halted (si_heartbeat_task).                    *)
HeartbeatKeepsRate ==
  imTask["si_hb"] # "absent" /\ ~imHbLate /\ imDead = "no" =>
    imNow - imHbStart <= (imHbSent + 1) * HbPeriod + WorkTicks

\* Each thing a reader of the console concludes from it is so.
ConsoleTells == SilenceMeansDead /\ UnnamedSilenceIsLock /\ WaitIsVisible /\ HeartbeatKeepsRate
=============================================================================
