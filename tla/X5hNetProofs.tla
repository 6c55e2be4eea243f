---------------------------- MODULE X5hNetProofs ----------------------------
(***************************************************************************)
(* Proofs about the X5H's network below lwIP, each part a module of its    *)
(* own.  The link: the order in which the network interface is brought up  *)
(* is safe against the poll task and the tcpip thread, for all ring and    *)
(* mailbox sizes and any number of frames and re-binds.  The OS port:      *)
(* however late the tcpip thread's first step comes and whether or not the *)
(* launcher still waits for it, the semaphore it gives exists, for every   *)
(* mailbox size, tick width and number of posters.                         *)
(***************************************************************************)
EXTENDS X5hLink, X5hOs, TLAPS

-----------------------------------------------------------------------------
(* The link.                                                               *)


\* What is published is complete, only a published interface fills the
\* mailbox, and until it is up the launcher holds the core lock.
Inv ==
  /\ mbox \in 0 .. MboxSize /\ ring \in Seq(Messages)
  /\ "published" \in netif => "flags" \in netif
  /\ mbox > 0 => "published" \in netif
  /\ "published" \in netif /\ "up" \notin netif => CoreLockedByLauncher
  /\ launcher \in {"publish", "up"} => "flags" \in netif
  /\ launcher = "up" => "published" \in netif

LEMMA InitInv == Init => Inv
  BY SizeAssumption DEF Init, Inv, Messages, CoreLockedByLauncher

\* The launcher's steps.
LEMMA LauncherInv ==
  ASSUME Inv, BringUp \/ Join \/ (\E stage \in {"vdev", "endpoint", "poll_task", "lock"} : Fails(stage))
  PROVE  Inv'
<1> USE SizeAssumption DEF Inv, CoreLockedByLauncher, Goto, linux
<1>1. CASE \E stage \in {"vdev", "endpoint", "poll_task", "lock"} : Fails(stage)
  BY <1>1 DEF Fails
<1>2. CASE Join
  BY <1>2 DEF Join
<1>3. CASE VdevReady \/ CreateEndpoint \/ CreatePollTask
  BY <1>3 DEF VdevReady, CreateEndpoint, CreatePollTask
<1>4. CASE LockCore \/ NetifAdd
  BY <1>4 DEF LockCore, NetifAdd
<1>5. CASE NetifInit(1, "fields", "publish")
  BY <1>5 DEF NetifInit, InitStores
<1>6. CASE NetifInit(2, "publish", "up")
  BY <1>6 DEF NetifInit, InitStores
<1>7. CASE NetifUp
  BY <1>7 DEF NetifUp, TransportSend
<1>8. QED
  BY <1>1, <1>2, <1>3, <1>4, <1>5, <1>6, <1>7 DEF BringUp

\* A received message grows the mailbox by one frame behind s_netif, or not at all.
LEMMA ReceiveDelivers ==
  ASSUME Inv, Receive
  PROVE  mbox' = mbox \/ ("published" \in netif /\ mbox < MboxSize /\ mbox' = mbox + 1)
<1>1. Head(ring) \in Messages
  BY DEF Inv, Receive
<1>2. QED
  BY <1>1 DEF Receive, Messages, Deliver

\* Receiving a message: a frame enters the mailbox only behind s_netif.
LEMMA ReceiveInv ==
  ASSUME Inv, Receive
  PROVE  Inv'
<1> USE SizeAssumption DEF Inv, CoreLockedByLauncher, linux
<1>1. ring' \in Seq(Messages)
  BY DEF Receive
<1>2. mbox' \in 0 .. MboxSize /\ (mbox' > 0 => "published" \in netif)
  BY ReceiveDelivers
<1>3. QED
  BY <1>1, <1>2 DEF Receive

LEMMA PollInv ==
  ASSUME Inv, PollTask \/ Tick
  PROVE  Inv'
<1> USE SizeAssumption DEF Inv, CoreLockedByLauncher, linux
<1>1. CASE Receive
  BY <1>1, ReceiveInv
<1>2. CASE Tick
  BY <1>2 DEF Tick
<1>3. CASE PollTask /\ ~Receive
  BY <1>3 DEF PollTask, PlatformPoll, Backstop, PollGoto
<1>4. QED
  BY <1>1, <1>2, <1>3

LEMMA RestInv ==
  ASSUME Inv,
         Fetch \/ Process \/ SetDriverOk \/ Bind \/ Unbind \/ TakeFrame \/ Interrupt
         \/ (\E m \in {"frame", "oversize"} : SendFrame(m)) \/ UNCHANGED vars
  PROVE  Inv'
<1> USE SizeAssumption DEF Inv, CoreLockedByLauncher, linux
<1>1. CASE Fetch
  BY <1>1 DEF Fetch, Runs, Ready
<1>2. CASE Process
  BY <1>2 DEF Process, TransportSend
<1>3. CASE SetDriverOk \/ TakeFrame \/ Interrupt
  BY <1>3 DEF SetDriverOk, TakeFrame, Interrupt
<1>4. CASE Bind
  BY <1>4 DEF Bind, Post, Messages
<1>5. CASE Unbind
  BY <1>5 DEF Unbind, Post, Messages
<1>6. CASE \E m \in {"frame", "oversize"} : SendFrame(m)
  BY <1>6 DEF SendFrame, Post, Messages
<1>7. CASE UNCHANGED vars
  BY <1>7 DEF vars
<1>8. QED
  BY <1>1, <1>2, <1>3, <1>4, <1>5, <1>6, <1>7

LEMMA NextInv == Inv /\ [Next]_vars => Inv'
  BY LauncherInv, PollInv, RestInv DEF Next

\* The interface is never visible half-configured, and no ring or mailbox
\* overflows, for all sizes (rpmsg_netif_init, lwip_bring_up_blocking).
THEOREM BringUpIsOrdered == Spec => []Inv
  BY InitInv, NextInv, PTL DEF Spec

\* Every frame handed to lwIP goes through an interface whose flags are set.
THEOREM FramesNeedFlags == Spec => [][NoFrameBeforeFlags]_vars
<1>1. Inv /\ [Next]_vars => [NoFrameBeforeFlags]_vars
  <2> SUFFICES ASSUME Inv, [Next]_vars, mbox' > mbox
               PROVE  "flags" \in netif
    BY DEF NoFrameBeforeFlags
  <2> USE DEF Inv
  <2>1. CASE Receive
    BY <2>1, ReceiveDelivers
  <2>2. CASE ~Receive
    <3>1. mbox' = mbox \/ mbox' = mbox - 1
      BY <2>2 DEF Next, vars, BringUp, VdevReady, CreateEndpoint, CreatePollTask, LockCore,
         NetifAdd, NetifInit, NetifUp, Fails, Join, PollTask, PlatformPoll, Backstop, PollGoto,
         Tick, Fetch, Process, SetDriverOk, Bind, Unbind, SendFrame, Post, TakeFrame, Interrupt
    <3>2. QED
      BY <3>1
  <2>3. QED
    BY <2>1, <2>2
<1>2. QED
  BY <1>1, BringUpIsOrdered, PTL DEF Spec

\* The tcpip thread takes up a frame only when the interface is up.
THEOREM WorkNeedsInterfaceUp == Spec => [][NoWorkBeforeUp]_vars
<1>1. Inv /\ [Next]_vars => [NoWorkBeforeUp]_vars
  <2> SUFFICES ASSUME Inv, [Next]_vars, tcpip' # "idle", tcpip = "idle"
               PROVE  "up" \in netif
    BY DEF NoWorkBeforeUp
  <2>1. Fetch
    BY DEF Next, vars, BringUp, VdevReady, CreateEndpoint, CreatePollTask, LockCore,
       NetifAdd, NetifInit, NetifUp, Fails, Join, PollTask, PlatformPoll, Backstop, PollGoto, Receive,
       Tick, Process, SetDriverOk, Bind, Unbind, SendFrame, Post, TakeFrame, Interrupt
  <2>2. mbox > 0 /\ ~CoreLockedByLauncher
    BY <2>1 DEF Fetch, Runs, Ready
  <2>3. QED
    BY <2>2 DEF Inv
<1>2. QED
  BY <1>1, BringUpIsOrdered, PTL DEF Spec

-----------------------------------------------------------------------------
(* Type correctness.                                                       *)

LEMMA InitTypeOK == Init => TypeOK
<1> SUFFICES ASSUME Init PROVE TypeOK
  OBVIOUS
<1>1. driverOk \in BOOLEAN /\ bound \in BOOLEAN /\ kick \in BOOLEAN /\ intSource \in BOOLEAN
  BY Zenon DEF Init
<1>2. ring \in Seq(Messages) /\ Len(ring) <= RingSize
  BY SizeAssumption DEF Init, Messages
<1>3. mbox \in 0 .. MboxSize /\ txUsed \in 0 .. TxSize /\ sent \in Nat /\ unbinds \in Nat
  BY SizeAssumption DEF Init
<1>4. QED
  BY <1>1, <1>2, <1>3 DEF Init, TypeOK

\* What a stage of the launcher may write.
LEMMA StageTyped ==
  ASSUME TypeOK,
         launcher' \in {"vdev", "endpoint", "poll_task", "lock", "netif_add", "fields",
                        "publish", "up", "app", "joined"},
         poll' \in {poll, "poll"}, ept' \in {ept, "unbound"}, netif' = netif,
         UNCHANGED <<tcpip, driverOk, bound, sent, unbinds, ring, kick, intSource, mbox, txUsed>>
  PROVE  TypeOK'
BY DEF TypeOK

\* The launcher moves along its stages and touches the outbound ring once.
LEMMA LauncherType ==
  ASSUME TypeOK, BringUp \/ Join \/ (\E stage \in {"vdev", "endpoint", "poll_task", "lock"} : Fails(stage))
  PROVE  TypeOK'
<1> USE SizeAssumption DEF TypeOK, Goto, linux
<1>1. CASE \E stage \in {"vdev", "endpoint", "poll_task", "lock"} : Fails(stage)
  BY <1>1 DEF Fails
<1>2. CASE Join
  BY <1>2 DEF Join
<1>3. CASE VdevReady \/ CreateEndpoint \/ CreatePollTask
  <2> USE DEF VdevReady, CreateEndpoint, CreatePollTask
  <2>1. launcher' \in {"endpoint", "poll_task", "lock"} /\ netif' = netif
    BY <1>3, Zenon
  <2>2. poll' \in {poll, "poll"} /\ ept' \in {ept, "unbound"}
    BY <1>3, Zenon
  <2>3. UNCHANGED <<tcpip, driverOk, bound, sent, unbinds, ring, kick, intSource, mbox, txUsed>>
    BY <1>3
  <2> QED BY <2>1, <2>2, <2>3, StageTyped
<1>4. CASE LockCore \/ NetifAdd
  <2> USE DEF LockCore, NetifAdd
  <2>1. launcher' \in {"netif_add", "fields"} /\ netif' = netif
    BY <1>4, Zenon
  <2>2. poll' \in {poll, "poll"} /\ ept' \in {ept, "unbound"}
    BY <1>4, Zenon
  <2>3. UNCHANGED <<tcpip, driverOk, bound, sent, unbinds, ring, kick, intSource, mbox, txUsed>>
    BY <1>4
  <2> QED BY <2>1, <2>2, <2>3, StageTyped
<1>5. CASE NetifInit(1, "fields", "publish")
  BY <1>5 DEF NetifInit, InitStores
<1>6. CASE NetifInit(2, "publish", "up")
  BY <1>6 DEF NetifInit, InitStores
<1>7. CASE NetifUp
  BY <1>7 DEF NetifUp, TransportSend
<1>8. QED
  BY <1>1, <1>2, <1>3, <1>4, <1>5, <1>6, <1>7 DEF BringUp

\* A received message leaves the ring and finds room in the mailbox or is dropped.
LEMMA ReceiveType ==
  ASSUME TypeOK, Inv, Receive
  PROVE  TypeOK'
<1>1. Head(ring) \in Messages /\ ring' \in Seq(Messages) /\ Len(ring') <= RingSize
  <2>1. ring \in Seq(Messages) /\ ring # << >> /\ Len(ring) <= RingSize /\ RingSize \in Nat
    BY SizeAssumption DEF TypeOK, Receive
  <2>2. QED
    BY <2>1 DEF Receive
<1>2. mbox' \in 0 .. MboxSize
  BY ReceiveDelivers, SizeAssumption DEF TypeOK
<1>3. ept' \in {"absent", "unbound", "bound"}
  <2>1. CASE Head(ring) = "destroy"
    BY <2>1, Zenon DEF Receive, Unbound
  <2>2. CASE Head(ring) = "create"
    BY <2>2 DEF Receive
  <2>3. CASE Head(ring) = "frame"
    BY <2>3 DEF Receive
  <2>4. CASE Head(ring) = "oversize"
    BY <2>4 DEF Receive
  <2>5. QED
    BY <1>1, <2>1, <2>2, <2>3, <2>4 DEF Messages
<1>4. QED
  BY <1>1, <1>2, <1>3 DEF Receive, TypeOK, linux

\* The poll task, the tcpip thread, Linux and the interrupt.
LEMMA RestType ==
  ASSUME TypeOK, Inv,
         PollTask \/ Tick \/ Fetch \/ Process \/ SetDriverOk \/ Bind \/ Unbind \/ TakeFrame
         \/ Interrupt \/ (\E m \in {"frame", "oversize"} : SendFrame(m)) \/ UNCHANGED vars
  PROVE  TypeOK'
<1> USE SizeAssumption DEF TypeOK, linux
<1>1. CASE Receive
  BY <1>1, ReceiveType
<1>2. CASE Tick
  BY <1>2 DEF Tick
<1>3. CASE PollTask /\ ~Receive
  BY <1>3 DEF PollTask, PlatformPoll, Backstop, PollGoto
<1>4. CASE Fetch
  BY <1>4 DEF Fetch, Runs, Ready
<1>5. CASE Process
  BY <1>5 DEF Process, TransportSend
<1>6. CASE SetDriverOk \/ TakeFrame \/ Interrupt
  <2>1. driverOk' \in BOOLEAN /\ bound' \in BOOLEAN /\ kick' \in BOOLEAN /\ intSource' \in BOOLEAN
    BY <1>6, Zenon DEF SetDriverOk, TakeFrame, Interrupt
  <2>2. txUsed' \in 0 .. TxSize
    BY <1>6 DEF SetDriverOk, TakeFrame, Interrupt
  <2>3. UNCHANGED <<launcher, poll, tcpip, ept, ring, netif, mbox, sent, unbinds>>
    BY <1>6, Zenon DEF SetDriverOk, TakeFrame, Interrupt
  <2>4. QED
    BY <2>1, <2>2, <2>3
<1>7. CASE Bind
  BY <1>7 DEF Bind, Post, Messages
<1>8. CASE Unbind
  <2>1. bound' \in BOOLEAN /\ kick' \in BOOLEAN /\ driverOk' \in BOOLEAN /\ intSource' \in BOOLEAN
    BY <1>8, Zenon DEF Unbind, Post
  <2>2. ring' \in Seq(Messages) /\ Len(ring') <= RingSize /\ unbinds' \in Nat
    BY <1>8 DEF Unbind, Post, Messages
  <2>3. UNCHANGED <<launcher, poll, tcpip, ept, netif, mbox, txUsed, sent>>
    BY <1>8, Zenon DEF Unbind, Post
  <2>4. QED
    BY <2>1, <2>2, <2>3
<1>9. CASE \E m \in {"frame", "oversize"} : SendFrame(m)
  BY <1>9 DEF SendFrame, Post, Messages
<1>10. CASE UNCHANGED vars
  BY <1>10 DEF vars
<1>11. QED
  BY <1>1, <1>2, <1>3, <1>4, <1>5, <1>6, <1>7, <1>8, <1>9, <1>10

\* Types, and the bounds of both rings and of the mailbox, for all sizes: no
\* sender and no deliverer ever goes past the room there is.
THEOREM LinkTypeCorrect == Spec => []TypeOK
<1>1. TypeOK /\ Inv /\ [Next]_vars => TypeOK'
  BY LauncherType, RestType DEF Next
<1>2. QED
  BY InitTypeOK, <1>1, BringUpIsOrdered, PTL DEF Spec

\* The three at once, for every ring and mailbox size: types and bounds hold,
\* no frame is handed to an interface without its flags, and none is worked on
\* before the interface is up.
THEOREM LinkAlwaysSound == Spec => LinkSound
BY LinkTypeCorrect, FramesNeedFlags, WorkNeedsInterfaceUp, PTL DEF LinkSound

-----------------------------------------------------------------------------
(* The OS port.                                                            *)


\* A thread that has not given yet finds the semaphore; a count the launcher
\* can take was given by a thread that serves.
Started ==
  /\ ~osBroken
  /\ osUp \in {"start", "init"} => osThread = "none"
  /\ osUp = "start" => osCount = 0
  /\ osUp = "init" => osHandle /\ osSem = "live" /\ osCount = 0
  /\ osThread = "ready" => osHandle /\ osSem = "live" /\ osCount = 0
  /\ osCount = 1 => osThread = "serves"
  /\ osUp = "up" => osThread = "serves"

LEMMA InitStarted == OsInit => Started
  BY DEF OsInit, Started

\* The steps of the launcher and the first step of the tcpip thread.
LEMMA BringUpStarted ==
  ASSUME Started,
         (\E ok \in BOOLEAN : CreateSem(ok) \/ TcpipInit(ok)) \/ InitDone \/ TakeDone \/ TakeTimesOut
  PROVE  Started'
<1> USE DEF Started
<1>1. CASE \E ok \in BOOLEAN : CreateSem(ok)
  BY <1>1 DEF CreateSem
<1>2. CASE \E ok \in BOOLEAN : TcpipInit(ok)
  BY <1>2 DEF TcpipInit
<1>3. CASE InitDone
  BY <1>3 DEF InitDone
<1>4. CASE TakeDone
  BY <1>4 DEF TakeDone
<1>5. CASE TakeTimesOut
  BY <1>5 DEF TakeTimesOut, SemAfterTimeout
<1>6. QED
  BY <1>1, <1>2, <1>3, <1>4, <1>5

\* The mailbox and the tick leave the start of the thread alone.
LEMMA MailboxStarted ==
  ASSUME Started,
         \/ \E p \in OsPosters : BeginPost(p) \/ PostLands(p) \/ TryPost(p)
         \/ \E wait \in FetchWaits : BeginFetch(wait)
         \/ FetchGets \/ FetchTimesOut \/ TryFetch \/ OsTicks
  PROVE  Started'
<1>1. UNCHANGED <<semVars, osThread>>
  BY DEF BeginPost, PostLands, TryPost, BeginFetch, FetchGets, FetchTimesOut, EndFetch, TryFetch,
     OsTicks
<1>2. QED
  BY <1>1 DEF Started, semVars

LEMMA NextStarted == Started /\ [OsNext]_osVars => Started'
<1> SUFFICES ASSUME Started, [OsNext]_osVars PROVE Started'
  OBVIOUS
<1>1. CASE UNCHANGED osVars
  BY <1>1 DEF Started, osVars
<1>2. CASE OsNext
  BY <1>2, BringUpStarted, MailboxStarted DEF OsNext
<1>3. QED
  BY <1>1, <1>2

THEOREM StartIsOrdered == OsSpec => []Started
  BY InitStarted, NextStarted, PTL DEF OsSpec

\* The late first step of the tcpip thread never gives a semaphore that is gone.
THEOREM LateGiveAlwaysSafe == OsSpec => []LateGiveIsSafe
<1>1. Started => LateGiveIsSafe
  BY DEF Started, LateGiveIsSafe
<1>2. QED
  BY <1>1, StartIsOrdered, PTL

\* The launcher goes on with the network only behind a thread that serves.
THEOREM UpAlwaysServes == OsSpec => []UpMeansServing
<1>1. Started => UpMeansServing
  BY DEF Started, UpMeansServing
<1>2. QED
  BY <1>1, StartIsOrdered, PTL

-----------------------------------------------------------------------------
\* The counter is behind the start of a fetch by what has passed, at most once
\* around; what a fetch that lasted less than a whole turn reported is true.
Clock ==
  /\ osTick \in 0 .. TickMod - 1 /\ osAge \in 0 .. TickMod
  /\ osFetch.start \in 0 .. TickMod - 1
  /\ (osFetch.pc = "waits" /\ osAge < TickMod) =>
       osTick = osFetch.start + osAge \/ osTick = osFetch.start + osAge - TickMod
  /\ osResult.age < TickMod => osResult.elapsed = osResult.age

LEMMA ModSmall ==
  ASSUME NEW m \in Nat, m > 0, NEW x \in Int, 0 <= x, x < m
  PROVE  x % m = x /\ (x - m) % m = x
  OBVIOUS

LEMMA NextTick ==
  ASSUME NEW m \in Nat, m > 0, NEW x \in 0 .. m - 1
  PROVE  (x + 1) % m \in 0 .. m - 1 /\ ((x + 1) % m = x + 1 \/ (x + 1) % m = x + 1 - m)
<1>1. CASE x + 1 < m
  BY <1>1, ModSmall
<1>2. CASE x + 1 = m
  BY <1>2
<1>3. QED
  BY <1>1, <1>2

LEMMA InitClock == OsInit => Clock
  BY OsAssumption DEF OsInit, Clock

\* The end of a fetch reports the difference modulo the counter.
LEMMA EndFetchClock ==
  ASSUME Clock, osFetch.pc = "waits", NEW kind, EndFetch(kind)
  PROVE  Clock'
<1>1. osAge < TickMod => Elapsed = osAge
  <2> SUFFICES ASSUME osAge < TickMod PROVE Elapsed = osAge
    OBVIOUS
  <2>1. osTick - osFetch.start = osAge \/ osTick - osFetch.start = osAge - TickMod
    BY OsAssumption DEF Clock
  <2>2. QED
    BY <2>1, OsAssumption, ModSmall DEF Elapsed, Clock
<1>2. osResult'.age = osAge /\ osResult'.elapsed = Elapsed
  BY DEF EndFetch
<1>3. osFetch'.start = osFetch.start /\ osFetch'.pc # "waits"
  BY DEF EndFetch
<1>4. osTick' = osTick /\ osAge' = osAge
  BY DEF EndFetch
<1>5. QED
  BY <1>1, <1>2, <1>3, <1>4 DEF Clock

LEMMA TickClock == ASSUME Clock, OsTicks PROVE Clock'
<1>1. osTick' \in 0 .. TickMod - 1 /\ (osTick' = osTick + 1 \/ osTick' = osTick + 1 - TickMod)
  BY NextTick, OsAssumption DEF OsTicks, Clock
<1>2. UNCHANGED <<osFetch, osResult>>
  BY DEF OsTicks
<1>3. osAge' \in 0 .. TickMod /\ ((osFetch.pc = "waits" /\ osAge' < TickMod) => osAge' = osAge + 1)
  BY OsAssumption DEF OsTicks, Clock
<1>4. QED
  BY <1>1, <1>2, <1>3, OsAssumption DEF Clock

LEMMA NextClock == Clock /\ [OsNext]_osVars => Clock'
<1> SUFFICES ASSUME Clock, [OsNext]_osVars PROVE Clock'
  OBVIOUS
<1>1. CASE FetchGets
  BY <1>1, EndFetchClock DEF FetchGets
<1>2. CASE FetchTimesOut
  BY <1>2, EndFetchClock DEF FetchTimesOut
<1>3. CASE OsTicks
  BY <1>3, TickClock
<1>4. CASE \E wait \in FetchWaits : BeginFetch(wait)
  <2>1. osFetch'.start = osTick /\ osAge' = 0 /\ UNCHANGED <<osTick, osResult>>
    BY <1>4 DEF BeginFetch
  <2>2. QED
    BY <2>1, OsAssumption DEF Clock
<1>5. CASE UNCHANGED <<osTick, osFetch, osAge, osResult>>
  BY <1>5 DEF Clock
<1>6. QED
  BY <1>1, <1>2, <1>3, <1>4, <1>5 DEF OsNext, osVars, boxVars, CreateSem, TcpipInit, InitDone,
     TakeDone, TakeTimesOut, BeginPost, PostLands, TryPost, TryFetch

\* sys_arch_mbox_fetch reports the time that has passed, also around the wrap of
\* the tick counter.
THEOREM ElapsedAlwaysTrue == OsSpec => []ElapsedIsTrue
<1>1. Clock => ElapsedIsTrue
  BY DEF Clock, ElapsedIsTrue
<1>2. QED
  BY <1>1, InitClock, NextClock, PTL DEF OsSpec

\* The port starts in order and reports the time that passed, for every number
\* of posters and every width of the tick counter.
THEOREM OsAlwaysSound == OsSpec => []OsSound
<1>1. LateGiveIsSafe /\ UpMeansServing /\ ElapsedIsTrue => OsSound
  BY DEF OsSound
<1>2. QED
  BY <1>1, LateGiveAlwaysSafe, UpAlwaysServes, ElapsedAlwaysTrue, PTL
=============================================================================
