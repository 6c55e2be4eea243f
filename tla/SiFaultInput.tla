---------------------------- MODULE SiFaultInput ----------------------------
(***************************************************************************)
(* The rpmsg-si fault input of the X5H build between its two tasks: the    *)
(* RPMsg poll task writes s_fault and s_fault_events (si_channel.c), the   *)
(* controller thread reads them at two places of a control tick            *)
(* (controller_node.cpp).  Supervisor takes the tick as one step; here the *)
(* poll task may run between any two accesses of the tick.                 *)
(*                                                                         *)
(* The poll task has the higher priority and does not block inside         *)
(* si_channel_rx, so on the single core the controller never runs between  *)
(* its two writes.  All the other sources are one: fresh or stale.         *)
(***************************************************************************)
EXTENDS Naturals

CONSTANT MaxEvents      \* bound of the model: how many rising edges Linux sends

ASSUME EventsAssumption == MaxEvents \in Nat

VARIABLES
  fault, events,   \* s_fault and s_fault_events
  rx,              \* where si_channel_rx stands: "idle" or "counted"
  seen,            \* si_fault_events_seen_
  latch,           \* the fault latch: [latched, reason, pending]
  at, stale,       \* where the tick stands, and whether it found a stale source
  decision,        \* of the last published request
  held,            \* history: the input was 1 ever since the tick began
  new, due         \* history: an edge came up that the latch did not hold yet;
                   \* such an edge came up before the tick began

controller == <<seen, latch, at, stale, decision>>
history    == <<held, new, due>>
siVars == <<fault, events, rx, controller, history>>

-----------------------------------------------------------------------------
(* The poll task.                                                          *)

\* fault=1, first write: only a rising edge is counted.
CountEdge ==
  /\ rx = "idle" /\ ~fault /\ events < MaxEvents
  /\ events' = events + 1
  /\ rx' = "counted"
  /\ new' = (new \/ ~(latch.latched /\ latch.reason = "si_fault_input"))
  /\ UNCHANGED <<fault, controller, held, due>>

\* fault=1, second write.
SetFault ==
  /\ rx = "counted"
  /\ fault' = TRUE
  /\ rx' = "idle"
  /\ UNCHANGED <<events, controller, history>>

\* fault=0.
ClearFault ==
  /\ rx = "idle"
  /\ fault' = FALSE
  /\ held' = FALSE
  /\ UNCHANGED <<events, rx, controller, new, due>>

-----------------------------------------------------------------------------
(* The controller thread.                                                  *)

\* Mutant of ControllerRuns: the controller has the priority of the poll task.
ControllerPreempts == TRUE

\* The controller is below the poll task.
ControllerRuns == rx = "idle"

Latch(latched, reason, pending) ==
  [latched |-> latched, reason |-> reason, pending |-> pending]

LatchFault(l, why) ==
  IF ~l.latched \/ l.reason # why THEN Latch(TRUE, why, FALSE) ELSE l

Press ==
  /\ ControllerRuns /\ at = "idle"
  /\ latch' = Latch(latch.latched, latch.reason, TRUE)
  /\ UNCHANGED <<fault, events, rx, seen, at, stale, decision, history>>

\* A callback that refuses a candidate latches a fault between two ticks.
RefuseCandidate ==
  /\ ControllerRuns /\ at = "idle"
  /\ latch' = LatchFault(latch, "source")
  /\ UNCHANGED <<fault, events, rx, seen, at, stale, decision, history>>

\* Mutant of WatchEvents: the level is watched, not the count.
WatchLevel(l) == IF fault THEN LatchFault(l, "si_fault_input") ELSE l

\* Mutant of WatchEvents: any edge since startup counts, not the new ones.
WatchEver(l) == IF events # 0 THEN LatchFault(l, "si_fault_input") ELSE l

\* The first access of a tick: the edge count against the one seen last.
WatchEvents(l) == IF events # seen THEN LatchFault(l, "si_fault_input") ELSE l

\* A tick begins with the arrival watches, then reads the edge count; an old
\* request may expire.
BeginTick(isStale, expires) ==
  /\ ControllerRuns /\ at = "idle"
  /\ LET watched == WatchEvents(IF isStale THEN LatchFault(latch, "source") ELSE latch)
     IN  latch' = Latch(watched.latched, watched.reason,
                        watched.pending /\ ~(watched.latched /\ expires))
  /\ seen' = events
  /\ at' = "counted" /\ stale' = isStale
  /\ held' = fault /\ due' = new /\ new' = FALSE
  /\ UNCHANGED <<fault, events, rx, decision>>

\* The second access: allSourcesFresh reads the level, and only when a request
\* asks for it.
ReadLevel ==
  /\ ControllerRuns /\ at = "counted"
  /\ latch' = IF latch.latched /\ latch.pending /\ ~stale /\ ~fault
              THEN Latch(FALSE, "none", FALSE)
              ELSE latch
  /\ at' = "decided"
  /\ UNCHANGED <<fault, events, rx, seen, stale, decision, history>>

PublishDecision ==
  /\ ControllerRuns /\ at = "decided"
  /\ decision' = IF latch.latched THEN "SI_STOP" ELSE "NORMAL"
  /\ at' = "idle" /\ held' = FALSE /\ due' = FALSE
  /\ UNCHANGED <<fault, events, rx, seen, latch, stale, new>>

-----------------------------------------------------------------------------
SiInit ==
  /\ fault = FALSE /\ events = 0 /\ rx = "idle"
  /\ seen = 0
  /\ latch = Latch(FALSE, "none", FALSE)
  /\ at = "idle" /\ stale = FALSE /\ decision = "none"
  /\ held = FALSE /\ new = FALSE /\ due = FALSE

SiNext ==
  \/ CountEdge \/ SetFault \/ ClearFault
  \/ Press \/ RefuseCandidate
  \/ \E isStale, expires \in BOOLEAN : BeginTick(isStale, expires)
  \/ ReadLevel
  \/ PublishDecision

\* The poll task sleeps a tick in every round and the control timer fires in
\* every period, so each of them always runs again.
SiFairness ==
  /\ WF_siVars(SetFault)
  /\ WF_siVars(\E isStale, expires \in BOOLEAN : BeginTick(isStale, expires))
  /\ WF_siVars(ReadLevel) /\ WF_siVars(PublishDecision)

SiSpec     == SiInit /\ [][SiNext]_siVars
SiFairSpec == SiSpec /\ SiFairness

-----------------------------------------------------------------------------
(* Properties.                                                             *)

SiTypeOK ==
  /\ fault \in BOOLEAN /\ events \in Nat /\ seen \in Nat
  /\ rx \in {"idle", "counted"}
  /\ latch \in [latched : BOOLEAN, reason : {"none", "source", "si_fault_input"},
                pending : BOOLEAN]
  /\ at \in {"idle", "counted", "decided"}
  /\ stale \in BOOLEAN /\ held \in BOOLEAN /\ new \in BOOLEAN /\ due \in BOOLEAN
  /\ decision \in {"none", "NORMAL", "SI_STOP"}

Approves == at = "decided" /\ at' = "idle" /\ decision' = "NORMAL"

\* A tick during which the input is 1 from its first access to its output
\* stops, wherever in the tick the poll task runs.
HeldThroughTickStops == Approves => ~held

\* A rising edge that comes up before a tick begins, and while no stop of the
\* same reason is latched, stops that tick even when fault=0 follows at once.
EdgeStopsNextTick == Approves => ~due

\* Every such edge ends up as the reason of the latch: no order of the poll
\* task's writes and the tick's reads makes the count miss it.
EdgeLatches == new ~> latch.reason = "si_fault_input"

\* A stop ends: once Linux leaves the input at 0, every candidate is accepted
\* and every source fresh, an operator whose requests reach a tick inside
\* their window gets the vehicle to drive and to keep driving.
StopEnds ==
  /\ <>[](~fault /\ rx = "idle")
  /\ <>[][~RefuseCandidate /\ (at' # at /\ at = "idle" => BeginTick(FALSE, FALSE))]_siVars
  /\ []<>latch.pending
  => <>[](decision = "NORMAL")

\* No tick approves a motion over a fault that is held or new.
FaultTicksStop == [][HeldThroughTickStops /\ EdgeStopsNextTick]_siVars

\* A fault ends in a stop and a stop ends: the edge is never missed, and the
\* operator gets the vehicle back.
FaultThenRecovery == EdgeLatches /\ StopEnds
=============================================================================
