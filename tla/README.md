# Actuation Safety Island: specifications, model checking and proofs

The safety island is a small controller between a driving stack (VisionPilot or
Autoware planning) and a vehicle. It receives a driving candidate and the
vehicle's feedback over DDS, supervises both, and is the only writer of the
approved request the actuator follows. On the R-Car X5H board it runs on a
Cortex-R52 next to Linux and talks to it over RPMsg.

This directory holds TLA+ modules of the parts whose correctness depends on
order, time, interleaving or arithmetic, TLC configurations for them, and TLAPS
proofs.

## 1. Inventory

| Component | State | Operations | Interacts with |
|---|---|---|---|
| Supervision gate and latch (`controller_node.cpp`, `supervision_latch.hpp`) | arrival watches, fault latch and number, pending re-enable, stop ramp, last approved payload, output sequence | one callback per topic, the control tick | candidate identity, followers, fault channel, DDS and CAN surfaces |
| Candidate identity (`candidate_identity.hpp`) | session, cycle, stamp, ring of 16 retired sessions | `check`, `note` | called by the candidate callbacks |
| Vehicle-frame reference (`vp_reference.hpp`) | ring of 400 ego poses | `note`, `find`, conversion to a trajectory | odometry and reference callbacks |
| Control loop (`node.hpp`, `timer.hpp`, `dds.hpp`, `subscriber.hpp`) | one-sample readers, the timer's last execution | poll the readers, run the timer, sleep | runs every callback and the tick on one thread |
| Longitudinal controller (`pid_longitudinal_controller.cpp`, `smooth_stop.cpp`, `pid.cpp`) | control state, previous commands, command and speed histories | `isReady`, `run`, `sync` | called by the tick; told by the lateral one whether the steering converged |
| Lateral controller (`mpc_lateral_controller.cpp`, `mpc.cpp`, `mpc_utils.cpp`) | trajectory buffer, filters, input buffer, steering history | `isReady`, `run`, `sync` | called by the tick before the longitudinal one |
| Numerical libraries (interpolation, motion utils, sparse matrices) | none | pure functions | both controllers |
| Startup (`main.cpp`, `startup_config.hpp`, `network_config.cpp`, constructors) | environment, DDS entities | configuration, construction, `spin` | everything |
| CAN and UDP-tunnel output, and its receivers in `src/demo` | sequence number, send context; replay window, watchdog | encode, send, completion; feed, poll | called by the gate; drives the vehicle |
| Input staleness gate (`input_staleness_gate.hpp`) | last input time, state, last reported edge | `noteInput`, `update` | kept in the repository, unused by the controller |
| rpmsg-si fault channel (`si_channel.c`) | fault level, edge count | `si_channel_rx` and the readers | poll task writes, controller thread reads |
| X5H link (`rpmsg_transport.c`, `rpmsg_netif*.c`, `lwip_bringup.c`, `platform_rcar.c`) | endpoint, rings, `int_source`, interface, tcpip mailbox | bring-up, poll, deliver, send | Linux, MFIS interrupt, lwIP |
| lwIP OS port (`sys_arch.c`) | semaphores, mailboxes, tick counter | post, trypost, fetch, thread creation | lwIP's thread |
| Thread shim and TLS (`pthread.h`, `x5h_emutls.c`) | bookkeeping blocks, TLS arrays, lazily created mutexes | create, join, cancel, lock, first access | every thread of the image |
| Launcher and diagnostics (`freertos_main.cpp`, `x5h_diag.c`) | tasks and priorities, exception state, self-test | task creation, beacon, report, halts | the console |

What is hard about this code:

- one thread runs watchdogs and control, so a slow pass delays both; the readers
  keep one sample and everything else that arrived is gone;
- the watchdogs, the timer and the operator's window are measured on the system
  clock, which may step; the stop ramp is measured on a steady one;
- producers restart, repeat and reorder what they send, and a bridge may keep
  republishing what a dead producer sent last;
- an operator's press races the fault it answers;
- each controller decides on what the other said one cycle earlier, and each of
  them may refuse, fail or hold a cycle;
- interpolations end the process on keys they do not accept, so every sequence of
  arc lengths and times on the way there has to be increasing and inside;
- matrices, cost and constraints of the optimisation are filled by hand;
- a batch of CAN frames may fail in the middle, complete late, be repeated or be
  overtaken, and the receiver must still see whole and fresh commands;
- construction may fail at every step and is partly only logged;
- the poll task of the X5H preempts the controller between two reads of the
  fault input, and the launcher in the middle of `netif_add()`;
- an MFIS kick can be overwritten, the Linux daemon restarts, the outbound ring
  fills up, and the priorities decide who runs at all;
- a thread is cancelled wherever it happens to be; two tasks touch a variable or
  a mutex for the first time at once; what is left of a lost task may fault when
  the diagnostics read it.

The hazards are listed line by line in `PROJECT.json`, each with the properties
that would show it.

## 2. Modules

| Module | Models |
|---|---|
| `CandidateIdentity` | `VpCandidateIdentity` and `AutowareTrajectoryIdentity` as operators on a record |
| `CandidateStream` | the identity alone, fed by producers that restart more often than the ring remembers |
| `Supervisor`, `MCSupervisor` | the controller node: one action per callback and `ControlTick` |
| `StopLatch` | the abstract contract: a latched stop and the permit that ends it |
| `ControlLoop`, `MCControlLoop` | `Supervisor` inside the polling loop: readers, timer, time passing during a pass |
| `Longitudinal`, `Lateral` | one cycle of each controller; `MotionUtils` and `RoadViews` are the trajectories and what the ego sees of them |
| `Followers`, `MCFollowers`, `MCDeparture` | both controllers as the tick runs them: readiness, run, sync |
| `VpReference`, `Interpolation`, `MpcReference`, `MpcMatrices`, `LonPrediction` | the algorithms, as functions over exact integers and fractions |
| `Numerics`, `MCNumerics` | calls of the algorithms with any argument of a set, and what each call promises; the sets are constants, `MCNumerics` names small ones for TLC |
| `MCControllers` | `MCFollowers` and `MCNumerics` side by side |
| `Startup` | from the environment to the first approved command, with every failure |
| `CanPath` | encoder, sink, back ends, decoder and bridge |
| `StalenessGate` | callback threads that note inputs, the control thread that decides |
| `SiFaultInput` | the fault input at the grain of single reads and writes of two tasks |
| `MCEdges` | `CandidateStream`, `SiFaultInput`, `CanPath`, `Startup` and `StalenessGate`, one of them per behaviour |
| `X5hLink`, `X5hOs`, `MCX5hNet` | the RPMsg network link with the tasks that serve it; lwIP's OS port with the wait for `tcpip_init` |
| `X5hThreads`, `X5hImage`, `X5hReport`, `MCX5hTasks` | thread shim, TLS and lazy mutexes; the image's tasks by priority as the console shows them; the diagnostic report and self-test |
| `SupervisorProofs`, `ControlLoopProofs`, `FollowersProofs`, `X5hThreadsProofs`, `NumericsProofs` | the theorems about the module of that name |
| `X5hNetProofs` | the theorems about `X5hLink` and `X5hOs` |
| `EdgeProofs` | the theorems about `CandidateStream`, `SiFaultInput`, `StalenessGate`, `Startup` and `CanPath`, a section each |
| `X5hDiagProofs` | the theorems about `X5hReport` and `X5hImage` |

A module that puts several parts into one run (`MCEdges`, `MCX5hNet`, `MCX5hTasks`,
`MCControllers`) has a variable that says which part moves; the others rest in one
initial state, so the state spaces add up. The parts do not share state in the
code either, or share it through a variable another run covers.

### Supervisor

`Config` is the pair of supervision mode and trajectory source: `vp` (VisionPilot
drives, the island passes or stops), `si_vp` (the island follows a VisionPilot
reference) and `si_autoware`. The state follows the members of `Controller`:
`arrival` is the set of `SourceWatch`es (-1 is "never seen"), `sup` is
`SupervisionState` with `ReenableRequest` and `StopRamp`, `vpId` and `autowareId`
the candidate identities, `ego` the stamps of the pose history, `approved` the
last approved payload, `out` and `outSeq` the last published request. `wall` is
`Clock::now()` and `steady` the clock of the ramp.

`ControlTick` is `callbackTimerControl` from its first line to the request it
publishes: the watches, the fault input's edge, the expiry of the request, the
re-enable, the choice between pass, follow and hold, the envelope check of the
follower's output, and the publication. Speeds, angles and accelerations are small
integers plus a value outside each limit; the reasons are the code's, one each.
The follower's output is any member of `FollowerOutputs`, inside or outside the
envelope. `FollowerOutputs`, messages and clock steps are constants of the model,
`MaxTime`, `MaxSeq` and `MaxSiEvents` its bounds.

### ControlLoop

`Topics` is the order in which the constructor subscribes; a pass polls one
sample of each reader (`PollReader`), then the timer (`PollTimer`), then sleeps
(`Wake`). `PassTime` lets time pass anywhere, up to `PassBound` a pass; samples
arrive anywhere (`Arrive`) and overwrite what was not taken. `NextDeadline` is the
timer's catch-up rule. `answers` is a history variable: the fault that was latched
when the operator pressed.

### Followers

A road is a short trajectory on a line and a view a pose of the ego; what the
controllers compute of both (nearest index, stop distance, deviations) is computed
once per pair in `RoadViews` from the operators of `MotionUtils`. `LonRun` is
`PidLongitudinalController::run`: control data, the far branch, the state machine,
the command by state, the limits in their order, slope compensation, the stored
histories. `LatRun` is `MpcLateralController::run` with every way the MPC fails.
Speeds, accelerations and angles are integers of a coarse unit, chosen so that
each threshold of the parameters is crossed. What the QP solver returns, the PID's
feedback term, the measured steering and the slope are inputs of a cycle. Ages are
relative to the last cycle and saturate above the largest threshold, which keeps
the state finite without a time bound. `Cycle` runs both and then syncs them, so a
cycle reads what the other said one cycle before; `LonCycle` and `LatCycle` run
one of them with the other left open and with more inputs.

### The algorithms

They are written with the code's own steps, in exact integers or fractions
`<<numerator, denominator>>`, and compared with a definition that is not: the
sum over an interval, the model stepped once per sample, the documented cost of
an input sequence, the neighbours of a query, a fitted line. Rounding of doubles
is therefore not modelled; a distance or time that the code compares with a
tolerance has units in which the tolerance is two steps. `Lerp` and the
key checks model the difference between an argument that ends the process
(`std::exit`) and an index that throws (`vector::at`).

### CanPath

A message is a steering angle and a speed in tenths of a wire unit, so rounding
shows; a word has two digits of base `ByteBase`, so a value may not fit. Classic
frames are three per command and delivered in order; a failed send leaves a
prefix of them on the bus. FD and the UDP tunnel carry one unit, and the IP
network may drop, repeat and reorder. On Zephyr a frame may complete after its
wait has timed out. Frames carry `n` and `msg` as ghost fields.

### Startup

One action per step of `main()` and the constructors, each with its failures:
those that exit, those that throw and unwind, and those that are only logged. A
reader that was not created stays in the list and never delivers; one whose
durability is stronger than its writer's never delivers either.

### SiFaultInput

The poll task's two writes and the tick's accesses are separate steps. The
controller has the lower priority and the code runs on one core, so it never runs
while the poll task is between its writes (`ControllerRuns`). `held`, `new` and
`due` are history variables for the properties.

### X5hLink and X5hOs

Three tasks under strict priorities: `Runs(t)` holds when `t` is ready and nothing
of higher priority is. The launcher goes through `rpmsg_transport_init()` and the
second half of `lwip_bring_up_blocking()`, then runs the application; it spins in
the vdev wait and computes without blocking before it joins. `InitStores` is the
order of the stores of `rpmsg_netif_init()`. A message on the ring is a name
service announcement, a frame or an oversized frame; any frame may find no pbuf.
`X5hLink` starts when `tcpip_init()` has returned; the wait for it, with a
timeout that may come first, is in `X5hOs`, which also has the mailbox with its
posters and the fetch that measures its wait on a wrapping tick counter.

### X5hThreads, X5hImage, X5hReport

`X5hThreads` tracks every block of the heap: an access to thread-local storage,
`pthread_create`, the body, `pthread_cancel` and `pthread_join` are sequences of
single steps on them, and `thBroken` is set by any step that uses or frees a block
that is gone. The thread is parked wherever the cancel finds it. `thPort`
distinguishes the X5H (TLS cleanup) from the S32Z2 and static from allocated
bookkeeping. `X5hImage` has one entry per task of the image with its priority
and the ways it can halt. `X5hReport` is the order of the diagnostic report's
reads, any of which may fault, and the TLS self-test with its timeouts.

OpenAMP, lwIP's thread, FreeRTOS's tick, the DDS library, buses and networks and
all of Linux are outside the repository; they are modelled from how this code uses
them and are marked external in the map.

## 3. Runs

| Run | Question | Bounds |
|---|---|---|
| `supervisor_vp` | latch, freshness, envelope and steering in `vp` | two sessions and cycles, time 3, 4 requests |
| `supervisor_autoware` | the follower's output and trajectory stamps | time 3, 2 requests: one to approve, one to stop |
| `supervisor_reference` | references placed by ego poses, repeated frames | ego history of 1 entry, so that it overflows |
| `supervisor_x5h` | the fault input, the ramp under a backward clock step, and `Supervisor` implements `StopLatch` | two edges, 3 requests, a step of 2 |
| `supervisor_fault_edge` | *violation*: an edge of the fault already latched | |
| `control_loop` | a dead source ends NORMAL in bounded time; a stall or a forward clock step is not replayed | pass and period of 1: passes miss ticks; a step of 3 periods; the bound is tight, one unit less is violated |
| `control_loop_press` | *violation*: a press older than the fault clears it | |
| `controllers` | the two controllers cycle after cycle; the algorithms on every argument of a set | 3 roads, 5 views, at most 8 counted emergency cycles; arguments as listed in `MCNumerics` |
| `departure` | *violation*: departure after one converged cycle | |
| `edges` | identity under reordering, the fault input between two tasks, CAN to the vehicle, startup, staleness | 4 sessions and a ring of 2; 3 edges; 3 sends around the wrap of an 8-number sequence; 1 failing reader; 2 callback threads |
| `x5h_net` | bring-up, lost kicks, rebinding, full rings; semaphore, mailbox and clock of the OS port | rings of 2 and 1, mailbox of 2, 3 frames, 1 restart; a tick counter of 4 values |
| `x5h_tasks` | cancel and join, first touches, the console, the report | 2 variables, arrays that grow by 1; periods of 2 and 3 ticks; a name of 2 characters |

A property of a run is one promise of a component, often the conjunction of named
parts that are stated and commented one by one in the module:

| Run | Properties | Parts |
|---|---|---|
| `supervisor_*` | `EverySourceCounts` | `StaleSourceStops`, `OnlyNewsIsFresh`, `OnlyPlacedIsFresh` |
| | `ApprovalEarned` | `NoApprovalUnseen`, `ApprovedInEnvelope` |
| | `StopCarriesFault` | `StopNamesFault`, `NumberIsOneStop` |
| | `StopNeverSpeedsUp` | `TargetOnlyFalls`, `OldSpeedStartsNoRamp` |
| | `FaultInputStops` | `HeldFaultStops`, `EdgeStopsUnlessLatched` |
| | `StopUntilReenabled`, `SteeringHeld`, `ImplementsStopLatch`, `TypeOK` | |
| `control_loop` | `DeadSourceStopsInTime`, `StallIsNotReplayed` | |
| `controllers` | `CommandsInside` | `EmergencyRamp`, `InsideEnvelope`, `SteerWithinLimit`, both histories' bounds, types |
| | `StateChanges`, `EventuallyDeparts` | `StoppedOnlyStanding`, `EmergencyHeld`, `DepartsSteered` |
| | `ConversionFaithful` | `ConvertedRunnable`, `ConvertedNear`, `ConvertedSchedule` |
| | `KeysInside` | `LerpBetweenNeighbours`, `ResampledKeysAccepted`, `HorizonInsideReference` |
| | `OptimisationStated` | `SplineJoins`, `StopTimeIsFitted`, `FilterKeepsLines`, `BatchPredicts`, `CostIsStated`, `SteerWeightIsRate`, `SparseReadsBack` |
| | `PredictionsAndLimits` | `PredictionsFit`: `PredictorCoversInterval`, `PredictorRemembersWindow`, `IntegralUnwinds`, `DelayNeverReverses`; `LimitsKept`: `FilteredSpeedsFollow`, `ConstraintRowsAreRates` |
| `edges` | `StreamSound`, `NoRevival` | `StampsIncrease`, `CyclesIncrease`, `CurrentNotRetired`, types |
| | `CanSound`, `NeverBackwards` | `AcceptedWhole`, `NoOldDrive`, `RefusedOnlyAfterLate`, `OneCompletion`, types |
| | `StartsAsAsked`, `DrivesWhenHeard` | `NeverFallsBack`, `LiveCanAct`, `NeverDrivesDeaf` |
| | `FaultTicksStop`, `FaultThenRecovery` | `HeldThroughTickStops`, `EdgeStopsNextTick`; `EdgeLatches`, `StopEnds` |
| | `GateSound` | `AllowedMeansHeard`, `EdgesRateLimited` |
| `x5h_net` | `LinkSound`, `RingIsDrained` | `NoFrameBeforeFlags`, `NoWorkBeforeUp`, types and sizes |
| | `LinkGoesOn` | `LinkRecovers`, `MailboxIsServed` |
| | `OsSound`, `OsServes` | `LateGiveIsSafe`, `UpMeansServing`, `ElapsedIsTrue`; `EveryPostLands`, `TimedFetchReturns` |
| `x5h_tasks` | `ThreadMemory`, `FirstUseIsSafe` | `MemorySafe`, `NothingLeftBehind`; `ValuesAreOwn`, `MutexExcludes` |
| | `ConsoleTells` | `SilenceMeansDead`, `UnnamedSilenceIsLock`, `WaitIsVisible`, `HeartbeatKeepsRate` |
| | `ReportTells` | `PassMeansOwn`, `FailHasCause`, `NtasksSurvives`, `ItemSurvives` |
| | `EndsAreReached` | `CancelledIsJoined`, `ReportEnds` |

The bounds are small because the properties are about order: a ring has to
overflow, a timeout to pass and come back, a stop to begin, change its reason, end
and begin again, a counter to wrap, an array to grow twice. Each of these happens
inside the bounds, which the mutants confirm: for each property, and for nearly
every part of one, a plausible bug of the code (a dropped guard, swapped stores, the wrong clock, an off-by-one, a
missing reset) is found under the same configuration.

`controllers` has no bound on its length: ages saturate and the histories bound
themselves (`CommandHistoryBounded`, `TrajectoryBufferBounded` say so), so the
followers' state space is finite. `EmgCap` bounds only the history variable that
counts emergency cycles, above the number the ramp needs.

Deadlock checking is off where the bounds or the system end: time and requests
run out, the process exits, and on the X5H an image whose transport failed has
nothing left to do.

`DeadSourceStopsInTime` is checked with a clock that does not step backwards.
`Clock::now()` is the system clock: a backward step stretches every watchdog, and
the loop's timer, by its size, as the contract document says of the watchdogs. On
the X5H the clock is backed by the tick count and does not step. `supervisor_x5h`
shows that the stop ramp does not depend on it.

### Fairness

- `SiFaultInput` (in `edges`): the poll task finishes what it writes, and the
  control timer fires again and again. Weak fairness of those steps; none of what
  Linux sends. `StopEnds` states what else it takes as a premise: the input comes
  to rest at 0, the sources stay fresh, the operator keeps pressing.
- `Startup` (in `edges`): weak fairness of the samples of live readers and of the
  control cycle, once the node spins.
- `Followers` (in `controllers`): the timer fires again. `EventuallyDeparts` has
  its premises in the formula: a road that goes on, a vehicle that stands under
  control, an MPC that solves and a steering that follows, from some cycle on.
- `X5hLink`: weak fairness for the poll task, the tick that wakes it and the
  interrupt. Strong fairness for the tcpip thread and the launcher's bring-up:
  the poll task preempts them over and over, so their steps are not continuously
  enabled, but its pass is shorter than a tick and it then sleeps, so they get the
  CPU again and again. Linux is not assumed to do anything, and the application
  need never block.
- `X5hOs`: weak fairness of lwIP's thread and of the tick; strong fairness of each
  blocked post, because FreeRTOS wakes the waiters of a queue in order.
- `X5hThreads`: the owner of the thread goes on; nothing of the thread it cancels.
- `X5hReport`: the beacon goes on while it has the CPU.

### What the three violations say

- A press that waits in the re-enable reader while a fault latches is read one
  pass later and clears a fault it does not answer. `latchFault()` says the press
  "predates it, so it must not clear it"; that holds for presses already noted.
- An edge of the fault input whose reason is already latched does not withdraw a
  pending request, so the tick that sees it can clear the latch and approve, if
  the level is back at 0. The comment of the tick promises that an edge latches.
- `updateControlState()` remembers in `m_prev_keep_stopped_condition` whether the
  steering had converged in the last cycle *that could depart*. Cycles that could
  not depart leave it alone, so "converged", "not converged" while departure is
  not possible, "converged" departs after a single converged cycle; the comment
  says that it takes two in a row.

## 4. Proofs

Everything below holds for every value of the constants the named assumptions
allow; they say that limits, sizes, periods and message sets are of the right type
and, of two thresholds, which is the larger.

`SupervisorProofs`

- `TypeCorrect`: the type invariant, with the bounds of both rings. It is
  inductive as it stands; one lemma per helper keeps the steps small.
- `LatchedUntilReenabled`, `EveryStaleSourceStops`, `ApprovalNeedsInputs`: action
  properties that follow from the type invariant and from what each branch of the
  tick publishes.
- `OnlyNewsFeeds`: only the three steps that accept a candidate move the selected
  source's arrival, and what the identity accepts is later than what it holds.
  `OnlyPlacedFeeds` says of the reference among them that its own ego pose is in
  the history. With `EveryStaleSourceStops` they give `EverySourceAlwaysCounts`.
- `FaultInputStopsUnlessReenabled`: the held level always stops. That needs
  `FaultAccounted`: the level alone says nothing about the latch; the invariant is
  that a held fault is either an edge the tick has not seen yet or is latched, and
  it is preserved because the latch is cleared only with the level at 0. An edge
  that latches a new reason withdraws every earlier request and stops. An edge
  whose reason is already latched does not: the theorem says exactly what such a
  tick must have found to publish anything but SI_STOP, and `supervisor_fault_edge`
  shows that it happens.
- `ApprovedStaysInside`: needs `EnvelopeInv`. In `vp` the payload published is
  the stored command, so the invariant says that the stored command was inside
  the envelope when it was stored; in the follower's configurations the check is
  in the tick itself. With `ApprovalNeedsInputs` it gives `ApprovalAlwaysEarned`.
- `StopAlwaysCarriesFault`: needs `Named` (a latched stop has a reason and a
  number), which `LatchFaultNames` shows of the helper together with `NextNumber` (a
  latch that starts takes the next number, everything else keeps it). The checks of
  a tick keep both; a refused follower output renumbers a stop only in a tick whose
  checks ended it. `ApprovedRequest` has a field for the number and none for the
  reason, so the reason is a statement about the latch.
- `RefinesStopLatch`: every initial state and step of `Supervisor` is one of
  `StopLatch` under `stopped <- sup.latched, permit <- sup.pending`.
- `SteeringAlwaysHeld`: needs `SteerFollowsApproval` (once something was approved,
  the last output carries its steering angle, whatever was published since).
- `StopNeverSpeedsUpAgain`: needs `StopOnRamp`: the last target published for the
  latched fault is at least what its ramp asks for *now*. It is preserved because
  the ramp reads the monotonic clock, a new reason leaves its start alone, and a
  latch gets a new number whenever the ramp starts again. `SameRamp` also carries
  where a new number starts it: at the ego speed of a fresh sample, or at 0.

`ControlLoopProofs` (extends `SupervisorProofs`)

- `LoopRefinesSupervisor`: `LoopSpec => Spec`. `InboxInv` says that readers hold
  only what a producer sent; then a polled sample is a callback of the supervisor, a
  due timer is its tick, time and arrivals are its clock steps or stutters. Every
  theorem about `Supervisor` therefore holds of the loop.
- `StallsAreNeverReplayed`: the deadline that a tick notes is never ahead of the clock
  and at most one period behind it (`DeadlineIsNear`), whatever the last one, the
  period and the stall.
- `DeadSourceAlwaysStopsInTime`: needs `PassInv`: an approval in force was given at
  some moment `tau` at which no watched source was stale, and that is no older than
  one period and what the passes since then can have taken. It assumes
  `WallSteps \subseteq Nat`: the watchdogs and the timer read `Clock::now()`, so a
  system clock that is set back makes every source look younger by its step, and
  the property is then false of the code.

`FollowersProofs`

- `StateAlwaysChangesForItsReason`: needs `SyncInv` (what the longitudinal
  controller was told is what the lateral one reported in its last run) and assumes
  `keepStopped`, the shipped `enable_keep_stopped_until_steer_convergence`.
- `AccelerationsAlwaysInside`: `EmergencyRamp` and `InsideEnvelope` without a
  hypothesis on inputs. Two rate limits are taken against the last raw and the last
  published command, so neither is inside its limits by itself: `LonInv` keeps the
  raw command inside `minAcc..maxAcc` and the published one inside that widened by
  the slope, and a rate limit moves a command between two values of an interval.
  The ramp is kept by the number of emergency cycles (`RampBound`).
- `TrajectoryBufferAlwaysBounded`: `BufferInv` says that the entry that n newer
  ones follow is at least n older than the newest (a repeated stamp is not
  buffered), so the window bounds the buffer.
- `CommandHistoryAlwaysBounded`: the history loses at most one expired entry per
  cycle. `HistoryInv` says how old an entry at a position must be, so at most one is
  expired in front. It is proved for every least time `least` between two cycles:
  after a stall the catch-up of the timer can bring two cycles closer than a period.
- `CommandsAlwaysInside`: all of it, under two hypotheses the run's inputs satisfy:
  no cycle comes earlier than a period (which fixes `least` to the bound the
  property states), and the measured steering is one the vehicle can take (a
  stopped vehicle that is not under control publishes it as it is).
  `LatInv` is why the filtered angle needs no clamp: with the coefficients
  that the shipped cut-off yields, the zero and the pole of the filter cancel from
  its reset state on, and what goes in comes out.

The parameters are typed by `LonAssumption`, `LatAssumption` and
`FollowersAssumption`, which also say that limits have the right signs and that limits
and slope compensation fit the gate's envelope (300 + 98 and 500 + 98 of 600 cm/s^2 as
shipped). What a view of a road yields is folded point by point;
`GeometryAssumption` says that it is numbers and points, and TLC evaluates it for
every road and view of the runs.

`EdgeProofs`

- Identity: `StreamInvariant` ties the gate to the log (the gate holds
  the last accepted candidate; the session in force is not in the ring; nothing is
  retired before the first). From it `StreamAlwaysSound`, for every ring size.
  `RetiredNeverRevive` needs `RingRemembers`: counted from its end, the ring holds a
  session behind exactly those that were retired after it, until a whole ring of
  them has pushed it out.
- Fault input: `EdgesAreAccounted` is the inductive invariant that ties the
  history variables to the count, the latch and the place in the tick.
  `ApprovalConditions` reads off it what a tick that publishes NORMAL needs, and
  `FaultTicksAlwaysStop` follows.
- Staleness: what is stored is some reading and never a later one than the
  newest, so a late store can make the gate believe less but not more;
  `AllowedAlwaysHeard` follows. `ReportsAlwaysApart` needs no invariant; together they
  are `GateAlwaysSound`.
- Startup: `StartupInv` records, step by step, what a place of `main()` may rely on;
  `StartupAlwaysAsAsked`.
- CAN: `CanAlwaysWhole` needs `CanInv`: every frame on the bus, in the driver's mailbox
  and still to be sent fits behind the one before it, the first of them fits what the
  decoder holds, and a datagram is one whole batch. `NeverGoesBackwards` adds `Turns` (what is still on the way
  comes after what the decoder has, or on the IP network less than `MaxDelay` before it) and `NumberInv` (a
  history of the count each send used, of which the number in the frame is the
  remainder: `Delta` then shows that the wrapped distance is the true one).
  `CanAlwaysSound` adds `RefusalInv`: every refusal is charged to a late send before
  the last one the decoder has met. It assumes `MaxSends <= SeqMod \div 2`:
  the model does not force the receiver's watchdog to run while datagrams are lost, so
  more lost sends than half the sequence range could be followed by one that
  is taken for a replay. The wrap itself is inside the hypothesis: the first number
  is any of `CanStarts`.

`X5hNetProofs`, the link: `BringUpIsOrdered` ties the launcher's place to what is done of the
interface; `FramesNeedFlags` and `WorkNeedsInterfaceUp` follow. `LinkTypeCorrect`
bounds both rings and the mailbox. Together they are `LinkAlwaysSound`.

`X5hNetProofs`, the OS port: `StartIsOrdered` ties the thread, the semaphore and the launcher's place
together (`LateGiveAlwaysSafe`, `UpAlwaysServes`), and `ElapsedAlwaysTrue` comes from
an invariant that the start of a wait is the tick counter minus the age, modulo its
width. `OsAlwaysSound` is their conjunction.

`X5hThreadsProofs`: `ValuesAlwaysOwn` from an invariant of the indices (each is below
the next to be given, no two variables share one, and a task in the middle of a
first touch knows what it has read), and `MutexAlwaysExcludes` from one that ties
each task's place in `pthread_mutex_lock` to the mutex it saw: `FirstUseAlwaysSafe`.
`ThreadMemoryAlwaysSafe` needs `MemoryInv`: at every step of an access the task's storage
on the heap is what its array lists and at most the one block the access has in hand
(`Balanced`, which also says that the array is long enough for the index), and the
places of owner, body and task fit each other (`Stages`, `Slots`).

`X5hDiagProofs`: `ReportAlwaysTells` from `TestInv` (where the two test tasks and their
notifications are, and what each can have found in its cell) and `WireInv` (what
is on the wire before each read that may fault). `ConsoleAlwaysTells` from
`ImageInv`: while the image lives, each reporter's next wake is where its period puts it,
and every end but a locked scheduler has been named.

`NumericsProofs`: the algorithms, for sequences of every length and every integer.
Induction over data cannot be had from the library's theorems, whose parameter is an
operator; stated over *sets* it can (`Induction`, `InductionTo` over the set of the
indices at which a claim holds, `Iterates` and `Recursion` for a function that solves
a recursive equation). A proof about a recursive function exhibits one that satisfies
its equation, so that the one the definition chooses satisfies it, and then goes by
induction over the indices. Fractions are compared by cross-multiplication
(`FracIs`: cancelling by `Gcd` keeps the value).

- `KeysAlwaysInside`. `LerpAlwaysInside` needs the key a query's index is of
  (`LerpIndexIs`: keys strictly increase, so those below a query are a prefix).
  `ResampleAlwaysValid` joins the two halves of the resampled keys and shows that no
  gap is left where they meet (`DenseJoined`). `CycleAlwaysInside` follows a
  cycle's clock through its four interpolations: the arc lengths are sums of steps
  (`PathArcsSums`), the times of the extended reference strictly increase
  (`ReferenceTimesRun`), the ego's time is a portion of one step (`NowInside`), and
  the horizon ends before the reference does (`SpanInside`).
- `ConversionAlwaysFaithful`. The resampled path is `Paced`: a metre or more falls into
  equal pieces of 10 to 12 units (`PiecesAre`), so that an index bounds an arc length
  and an arc length an index. `selectIndices` is a set of indices, and sorting it and
  cutting it to the budget is an argument about ranks: with r members below it a
  member has place r + 1 (`RanksIncrease`), so a member that is at most n is among the
  first n (`SortedPrefixLists`). The farthest near arc has an index of at most 11, which
  leaves it within 13 points, and within 12 when the ego pose takes a place
  (`PointsNear`); a path of a metre has three members (`ThreeCandidates`). The
  points strictly advance because the indices do (`PointsRun`). The speeds and times
  are fractions with different denominators: `From` and `UpTo` put an integer between
  two of them, which the knots give, as they are running sums (`KnotsAre`). Two points
  are then in one segment of the schedule (`InSegment`), in two, or past its end
  (`Past`), and `LaterFollows` covers each; the accelerations follow from that
  (`Slowing`).
- `PredictionsAndLimitsHold` is the two that follow. `LimitsAlwaysKept`: the filter's
  fractions are reduced at every step, so `Val` says what number a fraction is, with any
  denominator, and the operators are shown to compute with these numbers (`ValPlus` to
  `ValAbs`). A point changes the speed by `x / y` (`Changed`), and the lag's step and
  the clamped one both go towards the reference and not past it (`StepTowards`,
  `MostTowards`: where the clamp acts, the step it cuts was longer and did not pass it
  either). The constraints need what a sparse row sums to (`RowIs`, by exhibiting the
  running sum) and that a limit between two entries is no more than one of them, the
  exact one at an entry's own place (`BetweenLimits`, `LimitNear`).
- `PredictionsAlwaysFit`. `KeptIs` is why the predictor forgets nothing: what any
  number of calls leaves is the commands without the first `d`, for a `d` that drops
  only what a later one has superseded before the window. `StretchesChained` says
  that each stretch begins where the one before ends. The PID is an induction over
  the calls with "the integral is between its limits". `HistoryPredicts` carries
  "neither the speed nor what is left of the delay has changed its sign" through the
  recorded commands.

The assumptions are those of `Numerics`: a metre of x is at least a metre of path
and is divided into pieces of whole units, and the polynomial is known up to the cap
(`ReferenceAssumption`), keys and values are integers (`LerpAssumption`), a reference
starts at length 0 and has two points (`ResampleAssumption`), commands come one after the other (`SteerAssumption`,
`DelayAssumption`), the integral's limits enclose zero (`PidAssumption`), the filter
starts on a segment (`FilterAssumption`), the tables of steering rates are sorted by
strictly increasing places (`LimitAssumption`), and in
`CycleAssumption` the delay and the horizon together last no longer than the time that
`mpc.cpp` extends a reference by (100 s; the shipped parameters make it about 5 s, and
a longer horizon would ask for times that the reference does not have).

Only model-checked: every liveness property and everything about `ENABLED`
(`EventuallyDeparts`, `DrivesWhenHeard`, `FaultThenRecovery`, `RingIsDrained`,
`LinkGoesOn`, `OsServes`, `EndsAreReached`), and one invariant of the algorithms,
`OptimisationStated` (sums over matrices of fractions, tridiagonal solutions, sparse
forms). Every other property of a passing run is a theorem.

## 5. Not modelled

- The optimum of the QP and the trigonometric discretisation of the vehicle models:
  real arithmetic. `MpcMatrices` starts from the discrete model of each step and
  ends at the cost and the constraints; the solution is an input of `Lateral`. The
  selectable solver (`unconstraint_fast`) ignores the constraints, which
  `ConstraintRowsAreRates` is nevertheless about.
- Rounding of doubles, the Bezier evaluation and the pose interpolation of a
  reference, the slerp, the steering-offset estimate.
- The OSQP wrapper and `alt_geometry.cpp`: no controller of this build calls them.
- A solver that does not return: the watchdogs run on the same thread and there is
  no second observer in the code, so `ControlLoop` bounds a pass by `PassBound`.
  The contract document lists it as open.
- Undefined behaviour on a failed construction: the destructor joins a thread
  handle that was never set. `Startup` takes it as a choice of outcomes.
- Parameter declarations, debug values, the text of log lines and register dumps,
  statistics, message definitions, build and test scripts, simulators.
- A task that joins a pthread while another cancels it, and a second `stop()` of a
  node that was joined: `X5hThreads` has the one owner that `Node::stop()` is.
- X5H process stubs, register-level board set-up, the S32Z2 Ethernet driver.

Things met while modelling that no text of the repository contradicts, so no run
states them: the loop that prunes the steering history removes about half of the
expired entries; a cycle far from the trajectory replaces the held brake of STOPPED
by a ramp that starts from the last raw command; two interpolation queries past the
end inside the tolerance throw; a late Zephyr completion makes the next good batch
reuse a number and be refused once; after the decoder's watchdog has stopped the
vehicle, an old datagram is accepted as a first one; `addSteerWeightF`
returns early for the one-row gradient it is given, so the terms of the previous
commands never enter the cost.

## 6. Plan

1. Done: identity, supervisor, contract, loop, fault input, link.
2. Done: followers and their algorithms, startup, CAN path, staleness gate, OS port,
   threads, TLS, image and report.
3. Done: proofs of every safety and action property of the passing runs but
   `OptimisationStated`.
4. Next: the rows of `OptimisationStated` one by one, the sparse forms first.
