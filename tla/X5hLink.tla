------------------------------ MODULE X5hLink ------------------------------
(***************************************************************************)
(* The network link of the X5H port: the CR52 firmware exchanges Ethernet  *)
(* frames with Linux over two RPMsg rings (rpmsg_transport.c,              *)
(* platform_rcar.c, rpmsg_netif.c, lwip_bringup.c).                        *)
(*                                                                         *)
(* Three tasks share one CPU under strict priorities: the launcher brings  *)
(* the transport and the network interface up and then runs the            *)
(* application; the poll task drains the inbound ring into lwIP's mailbox; *)
(* the tcpip thread takes frames from the mailbox and answers.  Linux and  *)
(* the MFIS interrupt act at any time.  The module starts when tcpip_init  *)
(* has returned.  OpenAMP, lwIP and the Linux side are external.           *)
(***************************************************************************)
EXTENDS Naturals, Sequences

CONSTANTS
  RingSize,    \* buffers of the inbound ring
  TxSize,      \* buffers of the outbound ring
  MboxSize     \* TCPIP_MBOX_SIZE

CONSTANTS      \* bounds of the model, not of the code
  MaxFrames,   \* frames Linux sends
  MaxUnbinds   \* restarts of the Linux daemon

ASSUME SizeAssumption ==
  /\ {RingSize, TxSize, MboxSize} \subseteq Nat \ {0}
  /\ {MaxFrames, MaxUnbinds} \subseteq Nat

VARIABLES
  launcher,    \* where the launcher is
  poll,        \* where the poll task is
  tcpip,       \* where the tcpip thread is
  driverOk,    \* Linux has set DRIVER_OK in the shared vdev status
  bound,       \* the Linux daemon has its endpoint open
  ept,         \* our endpoint: absent, unbound (dest ANY) or bound
  ring,        \* inbound messages, oldest first
  kick,        \* an MFIS interrupt is on its way
  intSource,   \* mfis->int_source # 0
  netif,       \* what is done of the interface: flags set, published, up
  mbox,        \* frames in the tcpip mailbox
  txUsed,      \* used buffers of the outbound ring
  sent, unbinds \* counters of the bounds

vars == <<launcher, poll, tcpip, driverOk, bound, ept, ring, kick, intSource,
          netif, mbox, txUsed, sent, unbinds>>

linux == <<driverOk, bound, sent, unbinds>>

-----------------------------------------------------------------------------
(* Strict-priority scheduling.                                             *)

Tasks == {"launcher", "poll", "tcpip"}

\* Mutant of Priority: the launcher above the network tasks.
LauncherFirst == [launcher |-> 30, poll |-> 5, tcpip |-> 4]

\* ACTUATION_TASK_PRIORITY, RPMSG_POLL_TASK_PRIORITY and TCPIP_THREAD_PRIO.
Priority == [launcher |-> 2, poll |-> 5, tcpip |-> 4]

\* Mutant of CoreLockedByLauncher: the interface is brought up unlocked.
NeverLocked == FALSE

\* LOCK_TCPIP_CORE() around netif_add() and what follows it.
CoreLockedByLauncher == launcher \in {"netif_add", "fields", "publish", "up"}

\* The vdev wait is a busy spin: it keeps the CPU from everything below it.
Ready(t) ==
  CASE t = "poll"     -> poll \notin {"absent", "asleep"}
    [] t = "tcpip"    -> tcpip # "idle" \/ (mbox > 0 /\ ~CoreLockedByLauncher)
    [] t = "launcher" -> launcher # "joined" /\ ~(launcher = "lock" /\ tcpip # "idle")

Runs(t) == Ready(t) /\ \A u \in Tasks : Priority[u] > Priority[t] => ~Ready(u)

-----------------------------------------------------------------------------
(* Sending: called by lwIP with the core lock held.                        *)

\* Mutant of TransportSend: rpmsg_send() waits for a buffer.
SendWaits == IF ept # "bound" THEN txUsed' = txUsed ELSE txUsed < TxSize /\ txUsed' = txUsed + 1

\* rpmsg_transport_send: no peer and no buffer are errors; lwIP drops the frame.
TransportSend == txUsed' = IF ept = "bound" /\ txUsed < TxSize THEN txUsed + 1 ELSE txUsed

-----------------------------------------------------------------------------
(* The launcher: rpmsg_transport_init() and lwip_bring_up_blocking().      *)

Goto(from, to) == Runs("launcher") /\ launcher = from /\ launcher' = to

\* A failure is logged and the application starts without the network.
Fails(stage) ==
  /\ Goto(stage, "app")
  /\ ept' = IF stage = "poll_task" THEN "absent" ELSE ept
  /\ UNCHANGED <<poll, tcpip, linux, ring, kick, intSource, netif, mbox, txUsed>>

\* platform_create_rpmsg_vdev waits for Linux without a timeout.
VdevReady ==
  /\ driverOk
  /\ Goto("vdev", "endpoint")
  /\ UNCHANGED <<poll, tcpip, linux, ept, ring, kick, intSource, netif, mbox, txUsed>>

CreateEndpoint ==
  /\ Goto("endpoint", "poll_task")
  /\ ept' = "unbound"
  /\ UNCHANGED <<poll, tcpip, linux, ring, kick, intSource, netif, mbox, txUsed>>

CreatePollTask ==
  /\ Goto("poll_task", "lock")
  /\ poll' = "poll"
  /\ UNCHANGED <<tcpip, linux, ept, ring, kick, intSource, netif, mbox, txUsed>>

LockCore ==
  /\ Goto("lock", "netif_add")
  /\ UNCHANGED <<poll, tcpip, linux, ept, ring, kick, intSource, netif, mbox, txUsed>>

\* netif_add() arms netif->input with no flags set, then calls the init callback.
NetifAdd ==
  /\ Goto("netif_add", "fields")
  /\ UNCHANGED <<poll, tcpip, linux, ept, ring, kick, intSource, netif, mbox, txUsed>>

\* Mutant of InitStores: s_netif is published before the fields are set.
PublishesFirst == <<"published", "flags">>

\* The stores of rpmsg_netif_init in their order: the fields, and last the
\* pointer the rx path looks at.
InitStores == <<"flags", "published">>

NetifInit(n, from, to) ==
  /\ Goto(from, to)
  /\ netif' = netif \cup {InitStores[n]}
  /\ UNCHANGED <<poll, tcpip, linux, ept, ring, kick, intSource, mbox, txUsed>>

\* netif_set_up, the gratuitous ARP, and the unlock.
NetifUp ==
  /\ Goto("up", "app")
  /\ netif' = netif \cup {"up"}
  /\ TransportSend
  /\ UNCHANGED <<poll, tcpip, linux, ept, ring, kick, intSource, mbox>>

\* The application computes for as long as it likes before it blocks.
Join ==
  /\ Goto("app", "joined")
  /\ UNCHANGED <<poll, tcpip, linux, ept, ring, kick, intSource, netif, mbox, txUsed>>

BringUp ==
  \/ VdevReady \/ CreateEndpoint \/ CreatePollTask
  \/ LockCore \/ NetifAdd
  \/ NetifInit(1, "fields", "publish") \/ NetifInit(2, "publish", "up") \/ NetifUp

-----------------------------------------------------------------------------
(* The poll task.                                                          *)

\* Mutant of Deliver: the mailbox is posted to without looking for room.
DeliverBlindly ==
  \E pbuf \in BOOLEAN : mbox' = IF "published" \in netif /\ pbuf THEN mbox + 1 ELSE mbox

\* glue_rx_deliver: without an interface, a pbuf or room the frame is dropped.
Deliver ==
  \E pbuf \in BOOLEAN :
    mbox' = IF "published" \in netif /\ pbuf /\ mbox < MboxSize THEN mbox + 1 ELSE mbox

\* Mutant of Unbound: ept_unbind() destroys the endpoint.
DestroysEndpoint == "absent"

\* The endpoint after the peer's NS DESTROY: dest ANY, kept for a re-bind.
Unbound == "unbound"

\* The OpenAMP rx loop on the oldest message, with our callbacks.
Receive ==
  /\ ring # << >>
  /\ ring' = Tail(ring)
  /\ CASE Head(ring) = "destroy" ->
            ept' = (IF ept = "absent" THEN "absent" ELSE Unbound) /\ mbox' = mbox
       [] Head(ring) = "create" ->
            ept' = (IF ept = "absent" THEN "absent" ELSE "bound") /\ mbox' = mbox
       [] Head(ring) = "frame" ->
            IF ept = "absent" THEN ept' = ept /\ mbox' = mbox
            ELSE ept' = "bound" /\ Deliver
       [] Head(ring) = "oversize" ->
            ept' = (IF ept = "absent" THEN "absent" ELSE "bound") /\ mbox' = mbox
  /\ UNCHANGED <<launcher, poll, tcpip, linux, kick, intSource, netif, txUsed>>

PollGoto(from, to) ==
  /\ poll = from /\ poll' = to
  /\ UNCHANGED <<launcher, tcpip, linux, ept, ring, kick, netif, mbox, txUsed>>

\* platform_poll: read int_source, process, clear it.
PlatformPoll ==
  \/ intSource /\ PollGoto("poll", "drain") /\ UNCHANGED intSource
  \/ ~intSource /\ PollGoto("poll", "backstop") /\ UNCHANGED intSource
  \/ poll = "drain" /\ Receive
  \/ ring = << >> /\ PollGoto("drain", "clear") /\ UNCHANGED intSource
  \/ PollGoto("clear", "backstop") /\ intSource' = FALSE

\* Mutant of Backstop: the poll task trusts the kick alone.
NoBackstop == PollGoto("backstop", "asleep") /\ UNCHANGED intSource

\* The second, unconditional look at the ring, then vTaskDelay(1).
Backstop ==
  \/ poll = "backstop" /\ Receive
  \/ ring = << >> /\ PollGoto("backstop", "asleep") /\ UNCHANGED intSource

PollTask == Runs("poll") /\ (PlatformPoll \/ Backstop)

Tick ==
  /\ poll = "asleep" /\ poll' = "poll"
  /\ UNCHANGED <<launcher, tcpip, linux, ept, ring, kick, intSource, netif, mbox, txUsed>>

-----------------------------------------------------------------------------
(* The tcpip thread.                                                       *)

\* The frame taken calls for an answer or it does not.
Fetch ==
  /\ Runs("tcpip") /\ tcpip = "idle"
  /\ tcpip' \in {"busy", "answering"} /\ mbox' = mbox - 1
  /\ UNCHANGED <<launcher, poll, linux, ept, ring, kick, intSource, netif, txUsed>>

\* Protocol processing under the core lock; an answer goes out through linkoutput.
Process ==
  /\ Runs("tcpip") /\ tcpip # "idle"
  /\ tcpip' = "idle"
  /\ IF tcpip = "answering" THEN TransportSend ELSE UNCHANGED txUsed
  /\ UNCHANGED <<launcher, poll, linux, ept, ring, kick, intSource, netif, mbox>>

-----------------------------------------------------------------------------
(* Linux and the interrupt.                                                *)

SetDriverOk ==
  /\ ~driverOk /\ driverOk' = TRUE
  /\ UNCHANGED <<launcher, poll, tcpip, bound, ept, ring, kick, intSource, netif, mbox,
                 txUsed, sent, unbinds>>

Post(m) ==
  /\ Len(ring) < RingSize
  /\ ring' = Append(ring, m) /\ kick' = TRUE
  /\ UNCHANGED <<launcher, poll, tcpip, driverOk, ept, intSource, netif, mbox, txUsed>>

\* Linux learns of the service when the endpoint is announced.
Bind   == ~bound /\ ept # "absent" /\ bound' = TRUE /\ Post("create") /\ UNCHANGED <<sent, unbinds>>
Unbind == /\ bound /\ unbinds < MaxUnbinds /\ bound' = FALSE /\ Post("destroy")
          /\ unbinds' = unbinds + 1 /\ UNCHANGED sent
SendFrame(m) == /\ bound /\ sent < MaxFrames /\ Post(m)
                /\ sent' = sent + 1 /\ UNCHANGED <<bound, unbinds>>

TakeFrame ==
  /\ txUsed > 0 /\ txUsed' = txUsed - 1
  /\ UNCHANGED <<launcher, poll, tcpip, linux, ept, ring, kick, intSource, netif, mbox>>

\* The MFIS interrupt handler only notes the source.
Interrupt ==
  /\ kick /\ kick' = FALSE /\ intSource' = TRUE
  /\ UNCHANGED <<launcher, poll, tcpip, linux, ept, ring, netif, mbox, txUsed>>

-----------------------------------------------------------------------------
Init ==
  /\ launcher = "vdev" /\ poll = "absent" /\ tcpip = "idle"
  /\ driverOk = FALSE /\ bound = FALSE /\ ept = "absent"
  /\ ring = << >> /\ kick = FALSE /\ intSource = FALSE
  /\ netif = {}
  /\ mbox = 0 /\ txUsed = 0 /\ sent = 0 /\ unbinds = 0

Next ==
  \/ BringUp
  \/ \E stage \in {"vdev", "endpoint", "poll_task", "lock"} : Fails(stage)
  \/ Join
  \/ PollTask \/ Tick
  \/ Fetch \/ Process
  \/ SetDriverOk \/ Bind \/ Unbind
  \/ \E m \in {"frame", "oversize"} : SendFrame(m)
  \/ TakeFrame \/ Interrupt

Spec == Init /\ [][Next]_vars

\* The CPU runs the ready task of the highest priority, the tick and the
\* interrupt come.  The poll task's pass is shorter than a tick, so what it
\* preempts gets the CPU again and again.  Linux promises nothing.
FairSpec ==
  /\ Spec
  /\ WF_vars(PollTask) /\ WF_vars(Tick) /\ WF_vars(Interrupt)
  /\ SF_vars(Fetch) /\ SF_vars(Process) /\ SF_vars(BringUp)

-----------------------------------------------------------------------------
(* Properties.                                                             *)

Messages == {"frame", "oversize", "create", "destroy"}

\* Type invariant.  No ring or mailbox holds more than it has room for.
TypeOK ==
  /\ launcher \in {"vdev", "endpoint", "poll_task", "lock", "netif_add", "fields",
                   "publish", "up", "app", "joined"}
  /\ poll \in {"absent", "asleep", "poll", "drain", "clear", "backstop"}
  /\ tcpip \in {"idle", "busy", "answering"}
  /\ driverOk \in BOOLEAN /\ bound \in BOOLEAN
  /\ ept \in {"absent", "unbound", "bound"}
  /\ ring \in Seq(Messages) /\ Len(ring) <= RingSize
  /\ kick \in BOOLEAN /\ intSource \in BOOLEAN
  /\ netif \subseteq {"flags", "published", "up"}
  /\ mbox \in 0 .. MboxSize /\ txUsed \in 0 .. TxSize
  /\ sent \in Nat /\ unbinds \in Nat

\* No frame is handed to lwIP through an interface whose flags are not set
\* yet: tcpip_input() would parse an Ethernet frame as an IP header.  The
\* poll task may preempt the launcher anywhere inside netif_add().
NoFrameBeforeFlags == mbox' > mbox => "flags" \in netif

\* The tcpip thread works on an interface only when it is fully up, although
\* frames reach its mailbox while the launcher is still configuring it.
NoWorkBeforeUp == tcpip' # "idle" /\ tcpip = "idle" => "up" \in netif

\* No kick is lost for good: once the poll task exists, whatever Linux puts
\* into the ring is taken out, however the interrupt falls between the read
\* and the clear of int_source, and even if the application never blocks.
RingIsDrained == (poll # "absent" /\ ring # << >>) ~> (ring = << >>)

\* A restarted Linux daemon gets its link back without a reset: as long as it
\* stays bound our endpoint is bound again and again.
LinkRecovers == []<>(poll = "absent" \/ ~bound \/ ept = "bound")

\* A frame accepted into the mailbox is processed even if Linux stops taking
\* ours: no send waits for a buffer while it holds the core lock.
MailboxIsServed == mbox > 0 ~> mbox = 0

\* Frames meet an interface that is ready for them, in rings of their size.
LinkSound == [][TypeOK' /\ NoFrameBeforeFlags /\ NoWorkBeforeUp]_vars

\* The link goes on: it comes back after a restart and what it takes is served.
LinkGoesOn == LinkRecovers /\ MailboxIsServed
=============================================================================
