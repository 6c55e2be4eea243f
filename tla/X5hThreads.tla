---------------------------- MODULE X5hThreads ----------------------------
(***************************************************************************)
(* The pthread shim of the X5H and S32Z2 ports on FreeRTOS tasks, and the  *)
(* X5H's runtime for __thread variables.                                   *)
(*                                                                         *)
(* An owner creates one pthread, may cancel it, and joins it, as Node does *)
(* (spin, stop, wait_for_completion).  The pthread and a peer task touch   *)
(* __thread variables and lock one lazily created mutex; the boot context  *)
(* touches variables before the scheduler starts.  Any task may be         *)
(* preempted between two steps; a critical section is one step.            *)
(*                                                                         *)
(* The heap is a set of live blocks.  A step that reads, writes or frees a *)
(* block that is not live sets thBroken.                                   *)
(***************************************************************************)
EXTENDS Integers, FiniteSets

CONSTANTS ThVars,    \* the __thread variables
          ThGrow     \* X5H_EMUTLS_GROW

ASSUME ThreadsAssumption == IsFiniteSet(ThVars) /\ ThGrow \in Nat \ {0}

VARIABLES thPort,    \* [tls, static, locks]: X5H or S32Z2, the kind of stack,
                     \* and whether the tasks lock or touch in this behaviour
          thOwner,   \* program counter of the owner
          thInfo,    \* pthread_internal_t: [task, tcb]
          thDone,    \* count of the binary semaphore info->done
          thTask,    \* kernel state of the pthread's task
          thPc,      \* context -> place inside __emutls_get_address
          thVar,     \* context -> the variable it asks for
          thIdx,     \* context -> the index it found
          thLoc,     \* variable -> loc of its control record
          thNext,    \* s_emutls_next_index
          thSlot,    \* context -> capacity of its array, 0 for none
          thVals,    \* context -> indices whose slot holds a value
          thGot,     \* ghost: context -> variable -> index first used
          thHeap,    \* live blocks
          thBroken,  \* ghost: a dead block was used
          thMutex,   \* number of mutexes created; the last one is current
          thLock     \* task -> [pc, mutex]: its use of the mutex

thVars == <<thPort, thOwner, thInfo, thDone, thTask, thPc, thVar, thIdx, thLoc, thNext,
            thSlot, thVals, thGot, thHeap, thBroken, thMutex, thLock>>

ownerVars == <<thOwner, thInfo, thDone, thTask>>

tlsVars == <<thPc, thVar, thIdx, thLoc, thNext, thSlot, thVals, thGot>>

lockVars == <<thMutex, thLock>>

Contexts == {"boot", "pthread", "peer"}

Locals == {"pthread", "peer"}

Arr(c, n) == <<c, "array", n>>

Val(c, i) == <<c, "value", i>>

Info == <<"pthread", "info", 0>>

Done == <<"pthread", "done", 0>>

Tcb == <<"pthread", "tcb", 0>>

(* Every block named must be live when the step uses it. *)
Uses(blocks) == thBroken' = (thBroken \/ ~(blocks \subseteq thHeap))

Booting == thOwner = "boot"

(* A task runs when it exists and is not suspended. *)
ThRuns(c) ==
  CASE c = "boot" -> Booting
    [] c = "peer" -> ~Booting
    [] OTHER -> thTask = "ready"

-----------------------------------------------------------------------------
(* __emutls_get_address *)

Touch(c, v) ==
  /\ thPort.tls /\ ~thPort.locks /\ ThRuns(c) /\ thPc[c] = "idle"
  /\ thPc' = [thPc EXCEPT ![c] = IF thLoc[v] = 0 THEN "assign" ELSE "array"]
  /\ thVar' = [thVar EXCEPT ![c] = v]
  /\ thIdx' = [thIdx EXCEPT ![c] = thLoc[v]]
  /\ UNCHANGED <<thPort, ownerVars, thLoc, thNext, thSlot, thVals, thGot, thHeap, thBroken, lockVars>>

(* Mutant of IndexOf: the record is not read again inside the section. *)
IndexBlindly(v) == thNext + 1

(* The index of a variable, read again inside the critical section. *)
IndexOf(v) == IF thLoc[v] = 0 THEN thNext + 1 ELSE thLoc[v]

Assign(c) ==
  /\ ThRuns(c) /\ thPc[c] = "assign"
  /\ LET i == IndexOf(thVar[c])
     IN /\ thIdx' = [thIdx EXCEPT ![c] = i]
        /\ thLoc' = [thLoc EXCEPT ![thVar[c]] = i]
        /\ thNext' = IF i > thNext THEN i ELSE thNext
  /\ thPc' = [thPc EXCEPT ![c] = "array"]
  /\ UNCHANGED <<thPort, ownerVars, thVar, thSlot, thVals, thGot, thHeap, thBroken, lockVars>>

Capacity(i) == ((i + ThGrow - 1) \div ThGrow) * ThGrow

(* The array is long enough, or a longer one is allocated and filled. *)
FindArray(c) ==
  /\ ThRuns(c) /\ thPc[c] = "array"
  /\ IF thSlot[c] >= thIdx[c]
     THEN thPc' = [thPc EXCEPT ![c] = "value"] /\ UNCHANGED thHeap
     ELSE /\ thPc' = [thPc EXCEPT ![c] = "grown"]
          /\ thHeap' = thHeap \cup {Arr(c, Capacity(thIdx[c]))}
  /\ Uses(IF thSlot[c] = 0 THEN {} ELSE {Arr(c, thSlot[c])})
  /\ UNCHANGED <<thPort, ownerVars, thVar, thIdx, thLoc, thNext, thSlot, thVals, thGot, lockVars>>

(* The grown array is published in the task's slot, the old one freed. *)
Grow(c) ==
  /\ ThRuns(c) /\ thPc[c] = "grown"
  /\ thSlot' = [thSlot EXCEPT ![c] = Capacity(thIdx[c])]
  /\ thPc' = [thPc EXCEPT ![c] = IF thSlot[c] = 0 THEN "value" ELSE "old"]
  /\ UNCHANGED <<thPort, ownerVars, thVar, thIdx, thLoc, thNext, thVals, thGot, thHeap, thBroken, lockVars>>

FreeOld(c) ==
  /\ ThRuns(c) /\ thPc[c] = "old"
  /\ LET old == {b \in thHeap : b[1] = c /\ b[2] = "array" /\ b[3] < thSlot[c]}
     IN thHeap' = thHeap \ old /\ thBroken' = (thBroken \/ old = {})
  /\ thPc' = [thPc EXCEPT ![c] = "value"]
  /\ UNCHANGED <<thPort, ownerVars, thVar, thIdx, thLoc, thNext, thSlot, thVals, thGot, lockVars>>

(* A first touch allocates the value; every touch returns it. *)
FindValue(c) ==
  /\ ThRuns(c) /\ thPc[c] = "value"
  /\ thPc' = [thPc EXCEPT ![c] = IF thIdx[c] \in thVals[c] THEN "idle" ELSE "filled"]
  /\ thHeap' = thHeap \cup {Val(c, thIdx[c])}
  /\ thGot' = IF thIdx[c] \in thVals[c] /\ thGot[c][thVar[c]] = 0
              THEN [thGot EXCEPT ![c][thVar[c]] = thIdx[c]] ELSE thGot
  /\ Uses({Arr(c, thSlot[c])}
          \cup IF thIdx[c] \in thVals[c] THEN {Val(c, thIdx[c])} ELSE {})
  /\ UNCHANGED <<thPort, ownerVars, thVar, thIdx, thLoc, thNext, thSlot, thVals, lockVars>>

StoreValue(c) ==
  /\ ThRuns(c) /\ thPc[c] = "filled"
  /\ thVals' = [thVals EXCEPT ![c] = @ \cup {thIdx[c]}]
  /\ thGot' = IF thGot[c][thVar[c]] = 0 THEN [thGot EXCEPT ![c][thVar[c]] = thIdx[c]] ELSE thGot
  /\ thPc' = [thPc EXCEPT ![c] = "idle"]
  /\ Uses({Arr(c, thSlot[c])})
  /\ UNCHANGED <<thPort, ownerVars, thVar, thIdx, thLoc, thNext, thSlot, thHeap, lockVars>>

(* x5h_emutls_task_cleanup: what the slot of the pthread's TCB leads to. *)
TlsBlocks ==
  IF thSlot["pthread"] = 0 THEN {}
  ELSE {Arr("pthread", thSlot["pthread"])} \cup {Val("pthread", i) : i \in thVals["pthread"]}

Cleanup ==
  /\ Uses(TlsBlocks \cup {Tcb})
  /\ thHeap' = thHeap \ TlsBlocks
  /\ thSlot' = [thSlot EXCEPT !["pthread"] = 0]
  /\ thVals' = [thVals EXCEPT !["pthread"] = {}]

-----------------------------------------------------------------------------
(* pthread_create *)

ThQuiet == UNCHANGED <<thPort, tlsVars, lockVars>>

StartScheduler ==
  /\ Booting /\ thPc["boot"] = "idle"
  /\ thOwner' = "start"
  /\ ThQuiet /\ UNCHANGED <<thInfo, thDone, thTask, thHeap, thBroken>>

AllocInfo(ok) ==
  /\ thOwner = "start"
  /\ thOwner' = IF ok THEN "semaphore" ELSE "failed"
  /\ thHeap' = IF ok THEN thHeap \cup {Info} ELSE thHeap
  /\ ThQuiet /\ UNCHANGED <<thInfo, thDone, thTask, thBroken>>

CreateDone(ok) ==
  /\ thOwner = "semaphore"
  /\ thOwner' = IF ok THEN "task" ELSE "failed"
  /\ thHeap' = IF ok THEN thHeap \cup {Done} ELSE thHeap \ {Info}
  /\ ThQuiet /\ UNCHANGED <<thInfo, thDone, thTask, thBroken>>

(* xTaskCreate stores the handle before the task can run; the handle that *)
(* xTaskCreateStatic returns is stored afterwards.  A task that cannot be *)
(* created leaves nothing behind, its TCB included.                       *)
CreateTask(ok) ==
  /\ thOwner = "task"
  /\ thOwner' = IF ~ok THEN "failed" ELSE IF thPort.static THEN "store" ELSE "created"
  /\ thTask' = IF ok THEN "ready" ELSE "none"
  /\ thInfo' = IF ok /\ ~thPort.static THEN [thInfo EXCEPT !.task = TRUE] ELSE thInfo
  /\ thHeap' = IF ok THEN thHeap \cup {Tcb} ELSE thHeap \ {Info, Done}
  /\ ThQuiet /\ UNCHANGED <<thDone, thBroken>>

StoreTask ==
  /\ thOwner = "store"
  /\ thOwner' = "created"
  /\ thInfo' = [task |-> TRUE, tcb |-> TRUE]
  /\ Uses({Info})
  /\ ThQuiet /\ UNCHANGED <<thDone, thTask, thHeap>>

-----------------------------------------------------------------------------
(* pthread_x5h_entry_ after the thread function has returned *)

Finish ==
  /\ thTask = "ready" /\ thPc["pthread"] = "idle" /\ thLock["pthread"].pc = "out"
  /\ thTask' = "gave" /\ thDone' = 1
  /\ Uses({Info, Done})
  /\ ThQuiet /\ UNCHANGED <<thOwner, thInfo, thHeap>>

Suspends ==
  /\ thTask = "gave"
  /\ thTask' = "suspended"
  /\ Uses({Tcb})
  /\ ThQuiet /\ UNCHANGED <<thOwner, thInfo, thDone, thHeap>>

-----------------------------------------------------------------------------
(* pthread_cancel *)

CancelClaims ==
  /\ thOwner = "created" /\ thInfo.task
  /\ thOwner' = "give" /\ thInfo' = [thInfo EXCEPT !.task = FALSE]
  /\ Uses({Info})
  /\ ThQuiet /\ UNCHANGED <<thDone, thTask, thHeap>>

(* Mutant of Given: the joiner is not told. *)
NotGiven == thDone

Given == 1

CancelGives ==
  /\ thOwner = "give"
  /\ thOwner' = IF thPort.tls THEN "suspend" ELSE "delete"
  /\ thDone' = Given
  /\ Uses({Info, Done})
  /\ ThQuiet /\ UNCHANGED <<thInfo, thTask, thHeap>>

(* Only the X5H parks the thread, to free its storage in peace. *)
CancelSuspends ==
  /\ thOwner = "suspend"
  /\ thOwner' = "clean"
  /\ thTask' = "suspended"
  /\ Uses({Tcb})
  /\ ThQuiet /\ UNCHANGED <<thInfo, thDone, thHeap>>

CancelCleans ==
  /\ thOwner = "clean"
  /\ thOwner' = "delete"
  /\ Cleanup
  /\ UNCHANGED <<thPort, lockVars, thInfo, thDone, thTask, thPc, thVar, thIdx, thLoc, thNext, thGot>>

CancelDeletes ==
  /\ thOwner = "delete"
  /\ thOwner' = "cancelled" /\ thTask' = "deleted"
  /\ Uses({Tcb})
  /\ ThQuiet /\ UNCHANGED <<thInfo, thDone, thHeap>>

-----------------------------------------------------------------------------
(* pthread_join *)

(* Mutant of Completed: the wait may return without the signal. *)
AbortedOrCompleted == TRUE

(* The wait for info->done is repeated until it really was given. *)
Completed == thDone = 1

JoinTakes ==
  /\ thOwner \in {"created", "cancelled"} /\ Completed
  /\ thDone' = 0
  /\ thOwner' = IF ~thInfo.task THEN "free" ELSE IF thPort.tls THEN "joinclean" ELSE "joindelete"
  /\ Uses({Info, Done})
  /\ ThQuiet /\ UNCHANGED <<thInfo, thTask, thHeap>>

JoinCleans ==
  /\ thOwner = "joinclean"
  /\ thOwner' = "joindelete"
  /\ Cleanup
  /\ UNCHANGED <<thPort, lockVars, thInfo, thDone, thTask, thPc, thVar, thIdx, thLoc, thNext, thGot>>

JoinDeletes ==
  /\ thOwner = "joindelete"
  /\ thOwner' = "free" /\ thTask' = "deleted"
  /\ Uses({Tcb})
  /\ ThQuiet /\ UNCHANGED <<thInfo, thDone, thHeap>>

(* Mutant of Freed: the static TCB is left to the kernel. *)
FreedByKernel == {Info, Done}

Freed == {Info, Done} \cup IF thInfo.tcb THEN {Tcb} ELSE {}

JoinFrees ==
  /\ thOwner = "free"
  /\ thOwner' = "joined"
  /\ Uses(Freed)
  /\ thHeap' = thHeap \ Freed
  /\ ThQuiet /\ UNCHANGED <<thInfo, thDone, thTask>>

(* The kernel frees the TCB it allocated once the task is deleted. *)
KernelFrees ==
  /\ thTask = "deleted" /\ ~thPort.static /\ Tcb \in thHeap
  /\ thHeap' = thHeap \ {Tcb}
  /\ ThQuiet /\ UNCHANGED <<ownerVars, thBroken>>

-----------------------------------------------------------------------------
(* pthread_mutex_lock and unlock *)

Place(c, pc, mutex) ==
  /\ thLock' = [thLock EXCEPT ![c] = [pc |-> pc, mutex |-> mutex]]
  /\ UNCHANGED <<thPort, ownerVars, tlsVars, thHeap, thBroken>>

LockReads(c) ==
  /\ thPort.locks /\ ThRuns(c) /\ thLock[c].pc = "out"
  /\ Place(c, IF thMutex = 0 THEN "create" ELSE "take", 0)
  /\ UNCHANGED thMutex

(* Mutant of MutexAfter: the handle is not read again inside the section. *)
MutexBlindly(ok) == IF ok THEN thMutex + 1 ELSE thMutex

(* The handle after the critical section; creation may fail. *)
MutexAfter(ok) == IF ok /\ thMutex = 0 THEN 1 ELSE thMutex

LockCreates(c, ok) ==
  /\ ThRuns(c) /\ thLock[c].pc = "create"
  /\ thMutex' = MutexAfter(ok)
  /\ Place(c, "take", 0)

Taken(mutex) == \E c \in Locals : thLock[c].pc = "in" /\ thLock[c].mutex = mutex

LockTakes(c) ==
  /\ ThRuns(c) /\ thLock[c].pc = "take" /\ ~Taken(thMutex)
  /\ IF thMutex = 0 THEN Place(c, "out", 0) ELSE Place(c, "in", thMutex)
  /\ UNCHANGED thMutex

Unlock(c) ==
  /\ ThRuns(c) /\ thLock[c].pc = "in"
  /\ Place(c, "out", 0)
  /\ UNCHANGED thMutex

-----------------------------------------------------------------------------

ThreadsInit ==
  /\ thPort \in [tls : BOOLEAN, static : BOOLEAN, locks : BOOLEAN]
  /\ thOwner = "boot" /\ thInfo = [task |-> FALSE, tcb |-> FALSE] /\ thDone = 0
  /\ thTask = "none"
  /\ thPc = [c \in Contexts |-> "idle"] /\ thVar \in [Contexts -> {CHOOSE v \in ThVars : TRUE}]
  /\ thIdx = [c \in Contexts |-> 0] /\ thLoc = [v \in ThVars |-> 0] /\ thNext = 0
  /\ thSlot = [c \in Contexts |-> 0] /\ thVals = [c \in Contexts |-> {}]
  /\ thGot = [c \in Contexts |-> [v \in ThVars |-> 0]]
  /\ thHeap = {} /\ thBroken = FALSE /\ thMutex = 0
  /\ thLock = [c \in Locals |-> [pc |-> "out", mutex |-> 0]]

OwnerSteps ==
  \/ StartScheduler
  \/ \E ok \in BOOLEAN : AllocInfo(ok) \/ CreateDone(ok) \/ CreateTask(ok)
  \/ StoreTask
  \/ CancelClaims \/ CancelGives \/ CancelSuspends \/ CancelCleans \/ CancelDeletes
  \/ JoinTakes \/ JoinCleans \/ JoinDeletes \/ JoinFrees

ThreadsNext ==
  \/ OwnerSteps
  \/ Finish \/ Suspends \/ KernelFrees
  \/ \E c \in Contexts :
       \/ \E v \in ThVars : Touch(c, v)
       \/ Assign(c) \/ FindArray(c) \/ Grow(c) \/ FreeOld(c) \/ FindValue(c) \/ StoreValue(c)
  \/ \E c \in Locals :
       \/ LockReads(c) \/ (\E ok \in BOOLEAN : LockCreates(c, ok)) \/ LockTakes(c) \/ Unlock(c)

ThreadsSpec == ThreadsInit /\ [][ThreadsNext]_thVars

(* The owner, which runs above the pthread, is scheduled. *)
ThreadsFairness == WF_thVars(OwnerSteps)

-----------------------------------------------------------------------------
(* Properties *)

(* No step of any task uses memory that has been freed: not the join of a   *)
(* thread that has finished or was cancelled, not the cancelled thread      *)
(* itself, wherever it was parked, and nothing is freed twice               *)
(* (pthread_cancel, pthread_join, x5h_emutls_task_cleanup).                 *)
MemorySafe == ~thBroken

(* A thread that is gone leaves nothing behind: after a join, or after a    *)
(* creation that failed half-way, every block it had is free again.  A      *)
(* cancelled thread loses at most what its interrupted access had allocated *)
(* and not yet published, or replaced and not yet freed.                    *)
NothingLeftBehind ==
  thOwner \in {"joined", "failed"} /\ (thTask = "deleted" => thPort.static \/ Tcb \notin thHeap) =>
    LET left == {b \in thHeap : b[1] = "pthread"}
    IN /\ Cardinality(left) <= 1
       /\ left # {} => thPc["pthread"] \in {"grown", "old", "filled"}

(* Every variable is one value for the whole life of a task and no two      *)
(* variables share it, whichever tasks touch a variable for the first time  *)
(* at once (__emutls_get_address).                                          *)
ValuesAreOwn ==
  \A c \in Contexts, v, w \in ThVars :
    /\ thGot[c][v] # 0 => thGot[c][v] = thLoc[v]
    /\ v # w /\ thLoc[v] # 0 => thLoc[v] # thLoc[w]

(* A mutex that two tasks lock for the first time at once still excludes    *)
(* them from each other (pthread_mutex_lock).                               *)
MutexExcludes == \A c, d \in Locals : thLock[c].pc = "in" /\ thLock[d].pc = "in" => c = d

(* A cancelled thread is joined, wherever it was when it was parked: it may *)
(* hold a mutex or be in the middle of an access.                           *)
CancelledIsJoined == thOwner = "give" ~> thOwner = "joined"

\* The books of a task are freed once, by the last that needs them.
ThreadMemory == MemorySafe /\ NothingLeftBehind

\* First use by two tasks at once is as good as by one after the other.
FirstUseIsSafe == ValuesAreOwn /\ MutexExcludes
=============================================================================
