------------------------------- MODULE X5hOs -------------------------------
(***************************************************************************)
(* The OS port of lwIP on the X5H: semaphores, mailboxes and time on the   *)
(* FreeRTOS kernel (lwip_port/sys_arch.c), as the start of the tcpip       *)
(* thread (lwip_bringup.c) and the mailbox of that thread use them.        *)
(*                                                                         *)
(* The launcher waits for the tcpip thread's first step with a timeout;    *)
(* main() ignores the failure, so that the rest of the image goes on and   *)
(* posts to the mailbox of a thread that may start late or not at all.     *)
(* Kernel queues and semaphores are external.                              *)
(***************************************************************************)
EXTENDS Integers, Sequences

CONSTANTS OsBoxSize,   \* TCPIP_MBOX_SIZE
          TickMod,     \* TickType_t counts modulo this
          FetchWaits,  \* timeouts lwIP passes to the fetch, 0 for none
          OsPosters    \* tasks that post

ASSUME OsAssumption ==
  /\ OsBoxSize \in Nat \ {0} /\ TickMod \in Nat \ {0}
  /\ FetchWaits \subseteq Nat /\ \A w \in FetchWaits : w < TickMod

VARIABLES osUp,      \* lwip_bring_up_blocking
          osSem,     \* the kernel object: none, live or deleted
          osHandle,  \* s_tcpip_done points to it
          osCount,   \* its count
          osThread,  \* the tcpip thread
          osBroken,  \* ghost: a deleted semaphore or a null handle was used
          osTick,    \* xTaskGetTickCount()
          osBox,     \* messages in the mailbox, by poster
          osPost,    \* poster -> idle, or blocked in sys_mbox_post
          osFetch,   \* [pc, start, wait]: the fetch under way
          osAge,     \* ghost: ticks since the fetch began, up to TickMod
          osResult   \* the last fetch: [kind, elapsed, age]

osVars == <<osUp, osSem, osHandle, osCount, osThread, osBroken, osTick, osBox,
            osPost, osFetch, osAge, osResult>>

semVars == <<osUp, osSem, osHandle, osCount, osBroken>>

boxVars == <<osTick, osBox, osPost, osFetch, osAge, osResult>>

-----------------------------------------------------------------------------
(* lwip_bring_up_blocking, up to the end of tcpip_init *)

(* sys_sem_new, called directly: a binary semaphore starts empty. *)
CreateSem(ok) ==
  /\ osUp = "start"
  /\ osUp' = IF ok THEN "init" ELSE "failed"
  /\ osSem' = IF ok THEN "live" ELSE "none"
  /\ osHandle' = ok /\ osCount' = 0
  /\ UNCHANGED <<osThread, osBroken, boxVars>>

(* tcpip_init makes the mailbox, then the thread; sys_thread_new must not *)
(* fail and halts if it does.                                             *)
TcpipInit(ok) ==
  /\ osUp = "init"
  /\ osUp' = IF ok THEN "take" ELSE "halted"
  /\ osThread' = IF ok THEN "ready" ELSE osThread
  /\ UNCHANGED <<osSem, osHandle, osCount, osBroken, boxVars>>

(* tcpip_init_done, in the tcpip thread: it gives through the handle. *)
InitDone ==
  /\ osThread = "ready"
  /\ osThread' = "serves" /\ osCount' = 1
  /\ osBroken' = (osBroken \/ ~osHandle \/ osSem # "live")
  /\ UNCHANGED <<osUp, osSem, osHandle, boxVars>>

(* Mutant of TakeDone: the wait is not checked. *)
TakesWithoutWaiting ==
  /\ osUp = "take"
  /\ osUp' = "up" /\ osCount' = 0
  /\ osSem' = "deleted" /\ osHandle' = FALSE
  /\ UNCHANGED <<osThread, osBroken, boxVars>>

TakeDone ==
  /\ osUp = "take" /\ osCount = 1
  /\ osUp' = "up" /\ osCount' = 0
  /\ osSem' = "deleted" /\ osHandle' = FALSE
  /\ UNCHANGED <<osThread, osBroken, boxVars>>

(* Mutant of SemAfterTimeout: the failure path deletes it like the other. *)
DeletedOnTimeout == "deleted"

(* The callback may still come: the semaphore is left alone. *)
SemAfterTimeout == osSem

TakeTimesOut ==
  /\ osUp = "take" /\ osCount = 0
  /\ osUp' = "failed" /\ osSem' = SemAfterTimeout
  /\ UNCHANGED <<osHandle, osCount, osThread, osBroken, boxVars>>

-----------------------------------------------------------------------------
(* Mailboxes *)

Posting == osUp \in {"up", "failed"} /\ osThread # "none"

(* sys_mbox_post waits for ever for room. *)
BeginPost(p) ==
  /\ Posting /\ osPost[p] = "idle"
  /\ osPost' = [osPost EXCEPT ![p] = "blocked"]
  /\ UNCHANGED <<semVars, osThread, osTick, osBox, osFetch, osAge, osResult>>

PostLands(p) ==
  /\ osPost[p] = "blocked" /\ Len(osBox) < OsBoxSize
  /\ osBox' = Append(osBox, p)
  /\ osPost' = [osPost EXCEPT ![p] = "idle"]
  /\ UNCHANGED <<semVars, osThread, osTick, osFetch, osAge, osResult>>

(* sys_mbox_trypost and its variant for interrupts refuse when it is full. *)
TryPost(p) ==
  /\ Posting /\ osPost[p] = "idle"
  /\ osBox' = IF Len(osBox) < OsBoxSize THEN Append(osBox, p) ELSE osBox
  /\ UNCHANGED <<semVars, osThread, osTick, osPost, osFetch, osAge, osResult>>

(* Mutant of Ticks: every wait is for ever. *)
AlwaysMaxDelay(wait) == TickMod + 1

(* The longest wait: the timeout in ticks, or portMAX_DELAY, never reached. *)
Ticks(wait) == IF wait = 0 THEN TickMod + 1 ELSE wait

BeginFetch(wait) ==
  /\ osThread = "serves" /\ osFetch.pc = "idle"
  /\ osFetch' = [pc |-> "waits", start |-> osTick, wait |-> wait] /\ osAge' = 0
  /\ UNCHANGED <<semVars, osThread, osTick, osBox, osPost, osResult>>

(* Mutant of Elapsed: the difference is not taken modulo the counter. *)
ElapsedSigned == IF osTick >= osFetch.start THEN osTick - osFetch.start ELSE 0

(* The unsigned difference of two tick counts. *)
Elapsed == (osTick - osFetch.start) % TickMod

EndFetch(kind) ==
  /\ osFetch' = [pc |-> "idle", start |-> osFetch.start, wait |-> osFetch.wait]
  /\ osResult' = [kind |-> kind, elapsed |-> Elapsed, age |-> osAge]
  /\ UNCHANGED <<semVars, osThread, osTick, osPost, osAge>>

(* Mutant of Received: the message stays in the queue. *)
Peeked == osBox

(* xQueueReceive removes the message. *)
Received == Tail(osBox)

FetchGets ==
  /\ osFetch.pc = "waits" /\ osBox # <<>>
  /\ osBox' = Received
  /\ EndFetch("message")

(* xQueueReceive gives up when the wait is over and the queue still empty. *)
FetchTimesOut ==
  /\ osFetch.pc = "waits" /\ osBox = <<>> /\ osAge >= Ticks(osFetch.wait)
  /\ EndFetch("timeout") /\ UNCHANGED osBox

(* sys_arch_mbox_tryfetch *)
TryFetch ==
  /\ osThread = "serves" /\ osFetch.pc = "idle"
  /\ osBox' = IF osBox = <<>> THEN osBox ELSE Tail(osBox)
  /\ UNCHANGED <<semVars, osThread, osTick, osPost, osFetch, osAge, osResult>>

(* The tick waits for a timeout that is due. *)
OsTicks ==
  /\ ~(osFetch.pc = "waits" /\ osAge >= Ticks(osFetch.wait))
  /\ osTick' = (osTick + 1) % TickMod
  /\ osAge' = IF osFetch.pc = "waits" /\ osAge < TickMod THEN osAge + 1 ELSE osAge
  /\ UNCHANGED <<semVars, osThread, osBox, osPost, osFetch, osResult>>

OsInit ==
  /\ osUp = "start" /\ osSem = "none" /\ osHandle = FALSE /\ osCount = 0
  /\ osThread = "none" /\ osBroken = FALSE /\ osTick \in 0 .. TickMod - 1
  /\ osBox = <<>> /\ osPost = [p \in OsPosters |-> "idle"]
  /\ osFetch = [pc |-> "idle", start |-> 0, wait |-> 0] /\ osAge = 0
  /\ osResult = [kind |-> "none", elapsed |-> 0, age |-> 0]

OsNext ==
  \/ \E ok \in BOOLEAN : CreateSem(ok) \/ TcpipInit(ok)
  \/ InitDone \/ TakeDone \/ TakeTimesOut
  \/ \E p \in OsPosters : BeginPost(p) \/ PostLands(p) \/ TryPost(p)
  \/ \E wait \in FetchWaits : BeginFetch(wait)
  \/ FetchGets \/ FetchTimesOut \/ TryFetch \/ OsTicks

OsSpec == OsInit /\ [][OsNext]_osVars

(* The tcpip thread is scheduled and fetches again and again; time passes; *)
(* the kernel serves the blocked posters in turn.                          *)
OsFairness ==
  /\ WF_osVars(InitDone) /\ WF_osVars(\E wait \in FetchWaits : BeginFetch(wait))
  /\ WF_osVars(FetchGets) /\ WF_osVars(FetchTimesOut) /\ WF_osVars(OsTicks)
  /\ \A p \in OsPosters : SF_osVars(PostLands(p))

-----------------------------------------------------------------------------
(* Properties *)

(* The tcpip thread never gives a semaphore that is gone, however late its  *)
(* first step comes: after the launcher has given up on it, the image lives *)
(* on and the late callback finds the semaphore (lwip_bring_up_blocking).   *)
LateGiveIsSafe == ~osBroken

(* The launcher goes on to the transport only with a tcpip thread that has  *)
(* started.                                                                 *)
UpMeansServing == osUp = "up" => osThread = "serves"

(* The wait that a fetch reports is the time that has passed, also when the *)
(* tick counter wraps around in between (sys_arch_mbox_fetch).              *)
ElapsedIsTrue == osResult.age < TickMod => osResult.elapsed = osResult.age

(* Every post gets its place, also one that began while the mailbox was     *)
(* full and the tcpip thread had not yet started (sys_mbox_post).           *)
EveryPostLands == \A p \in OsPosters : osPost[p] = "blocked" ~> osPost[p] = "idle"

(* A fetch with a timeout returns: with a message or without                *)
(* (sys_arch_mbox_fetch).                                                   *)
TimedFetchReturns == osFetch.pc = "waits" /\ osFetch.wait # 0 ~> osFetch.pc = "idle"

(* The port starts in order and reports the time that passed.               *)
OsSound == LateGiveIsSafe /\ UpMeansServing /\ ElapsedIsTrue

(* Nobody waits for ever on a mailbox.                                      *)
OsServes == EveryPostLands /\ TimedFetchReturns
=============================================================================
