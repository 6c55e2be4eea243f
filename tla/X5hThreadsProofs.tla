-------------------------- MODULE X5hThreadsProofs --------------------------
(***************************************************************************)
(* Proofs about the X5H's thread shim, for any number of __thread          *)
(* variables and every interleaving of the pthread, its owner and a peer:  *)
(* first touches agree on a variable's index, first locks on a mutex, and  *)
(* no block is used after it was freed, freed twice or left behind.        *)
(***************************************************************************)
EXTENDS X5hThreads, FiniteSetTheorems, TLAPS

Places == {"idle", "assign", "array", "grown", "old", "value", "filled"}

\* The variables of the index allocator and of the accesses in progress.
TlsTypes ==
  /\ thPc \in [Contexts -> Places]
  /\ thVar = [c \in Contexts |-> thVar[c]]
  /\ \A c \in Contexts : thPc[c] # "idle" => thVar[c] \in ThVars
  /\ thIdx \in [Contexts -> Nat]
  /\ thLoc \in [ThVars -> Nat]
  /\ thNext \in Nat
  /\ thGot \in [Contexts -> [ThVars -> Nat]]

\* An index once stored is the variable's for good; no index above the
\* counter is given out; an access past its look-up holds the stored index.
Indices ==
  /\ \A v \in ThVars : thLoc[v] <= thNext
  /\ \A v, w \in ThVars : v # w /\ thLoc[v] # 0 => thLoc[v] # thLoc[w]
  /\ \A c \in Contexts : thPc[c] \notin {"idle", "assign"} =>
       thIdx[c] # 0 /\ thIdx[c] = thLoc[thVar[c]]
  /\ \A c \in Contexts, v \in ThVars : thGot[c][v] # 0 => thGot[c][v] = thLoc[v]

TlsInv == TlsTypes /\ Indices

LEMMA InitTls == ThreadsInit => TlsInv
  BY DEF ThreadsInit, TlsInv, TlsTypes, Indices, Places, Contexts

\* A touch starts at the look-up, or with the index it found.
LEMMA TouchTls ==
  ASSUME TlsInv, NEW c \in Contexts, NEW v \in ThVars, Touch(c, v)
  PROVE  TlsInv'
<1> USE DEF TlsInv
<1>1. TlsTypes'
  BY DEF Touch, TlsTypes, Places
<1>2. Indices'
  BY DEF Touch, TlsTypes, Indices, Places
<1> QED BY <1>1, <1>2

\* The look-up is repeated inside the critical section: an index that another
\* task stored meanwhile is kept, a new one is above all others.
LEMMA AssignTls ==
  ASSUME TlsInv, NEW c \in Contexts, Assign(c)
  PROVE  TlsInv'
<1> DEFINE v == thVar[c]
           i == IndexOf(v)
<1>1. v \in ThVars /\ thPc[c] = "assign"
  BY DEF Assign, TlsInv, TlsTypes
<1>2. i \in Nat \ {0} /\ (thLoc[v] # 0 => i = thLoc[v]) /\ (thLoc[v] = 0 => i = thNext + 1)
  BY <1>1 DEF IndexOf, TlsInv, TlsTypes
<1>3. /\ thIdx' = [thIdx EXCEPT ![c] = i]
      /\ thLoc' = [thLoc EXCEPT ![v] = i]
      /\ thNext' = (IF i > thNext THEN i ELSE thNext)
      /\ thPc' = [thPc EXCEPT ![c] = "array"]
      /\ thVar' = thVar /\ thGot' = thGot
  BY DEF Assign
<1> HIDE DEF v, i
<1>4. TlsTypes'
  BY <1>1, <1>2, <1>3 DEF TlsInv, TlsTypes, Places
<1>5. \A w \in ThVars : thLoc[w] # 0 => thLoc'[w] = thLoc[w]
  BY <1>1, <1>2, <1>3 DEF TlsInv, TlsTypes
<1>6. \A w \in ThVars : thLoc'[w] <= thNext'
  BY <1>1, <1>2, <1>3 DEF TlsInv, TlsTypes, Indices
<1>7. \A w, u \in ThVars : w # u /\ thLoc'[w] # 0 => thLoc'[w] # thLoc'[u]
  BY <1>1, <1>2, <1>3 DEF TlsInv, TlsTypes, Indices
<1>8. ASSUME NEW d \in Contexts, thPc'[d] \notin {"idle", "assign"}
      PROVE  thIdx'[d] # 0 /\ thIdx'[d] = thLoc'[thVar'[d]]
  <2>1. CASE d = c
    BY <1>1, <1>2, <1>3, <2>1 DEF TlsInv, TlsTypes, v
  <2>2. CASE d # c
    <3>1. thPc[d] \notin {"idle", "assign"} /\ thIdx'[d] = thIdx[d] /\ thVar[d] \in ThVars
      BY <1>3, <1>8, <2>2 DEF TlsInv, TlsTypes
    <3>2. thIdx[d] # 0 /\ thIdx[d] = thLoc[thVar[d]]
      BY <3>1 DEF TlsInv, Indices
    <3> QED BY <1>3, <1>5, <3>1, <3>2
  <2> QED BY <2>1, <2>2
<1>9. \A d \in Contexts, w \in ThVars : thGot'[d][w] # 0 => thGot'[d][w] = thLoc'[w]
  BY <1>3, <1>5 DEF TlsInv, Indices
<1> QED BY <1>4, <1>6, <1>7, <1>8, <1>9 DEF TlsInv, Indices

\* The rest of an access uses the index it holds.
LEMMA AccessTls ==
  ASSUME TlsInv, NEW c \in Contexts,
         FindArray(c) \/ Grow(c) \/ FreeOld(c) \/ FindValue(c) \/ StoreValue(c)
  PROVE  TlsInv'
<1>1. /\ UNCHANGED <<thVar, thIdx, thLoc, thNext>>
      /\ thPc[c] \notin {"idle", "assign"}
      /\ thPc' \in [Contexts -> Places]
      /\ \A d \in Contexts : d # c => thPc'[d] = thPc[d]
  BY DEF FindArray, Grow, FreeOld, FindValue, StoreValue, TlsInv, TlsTypes, Places
<1>2. thVar[c] \in ThVars /\ thIdx[c] = thLoc[thVar[c]] /\ thIdx[c] \in Nat
  BY <1>1 DEF TlsInv, TlsTypes, Indices
<1>3. thGot' = thGot \/ thGot' = [thGot EXCEPT ![c][thVar[c]] = thIdx[c]]
  BY DEF FindArray, Grow, FreeOld, FindValue, StoreValue
<1>4. /\ thGot' \in [Contexts -> [ThVars -> Nat]]
      /\ \A d \in Contexts, v \in ThVars : thGot'[d][v] # 0 => thGot'[d][v] = thLoc[v]
  <2>1. CASE thGot' = thGot
    BY <2>1 DEF TlsInv, TlsTypes, Indices
  <2>2. CASE thGot' = [thGot EXCEPT ![c][thVar[c]] = thIdx[c]]
    BY <1>2, <2>2 DEF TlsInv, TlsTypes, Indices
  <2> QED BY <1>3, <2>1, <2>2
<1>5. \A d \in Contexts : thPc'[d] # "idle" => thVar[d] \in ThVars
  BY <1>1, <1>2 DEF TlsInv, TlsTypes
<1>6. \A d \in Contexts : thPc'[d] \notin {"idle", "assign"} =>
        thIdx[d] # 0 /\ thIdx[d] = thLoc[thVar[d]]
  BY <1>1, <1>2 DEF TlsInv, TlsTypes, Indices
<1> QED BY <1>1, <1>4, <1>5, <1>6 DEF TlsInv, TlsTypes, Indices

\* The owner's steps, the ends of the thread and the mutex leave all of it alone.
LEMMA OthersTls ==
  ASSUME TlsInv, UNCHANGED <<thPc, thVar, thIdx, thLoc, thNext, thGot>>
  PROVE  TlsInv'
  BY DEF TlsInv, TlsTypes, Indices

LEMMA OwnerQuiet ==
  ASSUME OwnerSteps \/ Finish \/ Suspends \/ KernelFrees
  PROVE  UNCHANGED <<thPc, thVar, thIdx, thLoc, thNext, thGot, thMutex, thLock>>
  BY DEF OwnerSteps, Finish, Suspends, KernelFrees, StartScheduler, AllocInfo, CreateDone,
         CreateTask, StoreTask, CancelClaims, CancelGives, CancelSuspends, CancelCleans,
         CancelDeletes, JoinTakes, JoinCleans, JoinDeletes, JoinFrees, ThQuiet, tlsVars, lockVars

LEMMA LockQuiet ==
  ASSUME NEW c \in Locals,
         LockReads(c) \/ (\E ok \in BOOLEAN : LockCreates(c, ok)) \/ LockTakes(c) \/ Unlock(c)
  PROVE  UNCHANGED tlsVars
  BY DEF LockReads, LockCreates, LockTakes, Unlock, Place

LEMMA NextTls == TlsInv /\ [ThreadsNext]_thVars => TlsInv'
<1> SUFFICES ASSUME TlsInv, [ThreadsNext]_thVars PROVE TlsInv'
  OBVIOUS
<1>1. CASE OwnerSteps \/ Finish \/ Suspends \/ KernelFrees
  BY <1>1, OwnerQuiet, OthersTls
<1>2. ASSUME NEW c \in Contexts, NEW v \in ThVars, Touch(c, v) PROVE TlsInv'
  BY <1>2, TouchTls
<1>3. ASSUME NEW c \in Contexts, Assign(c) PROVE TlsInv'
  BY <1>3, AssignTls
<1>4. ASSUME NEW c \in Contexts,
             FindArray(c) \/ Grow(c) \/ FreeOld(c) \/ FindValue(c) \/ StoreValue(c)
      PROVE  TlsInv'
  BY <1>4, AccessTls
<1>5. ASSUME NEW c \in Locals,
             LockReads(c) \/ (\E ok \in BOOLEAN : LockCreates(c, ok)) \/ LockTakes(c) \/ Unlock(c)
      PROVE  TlsInv'
  BY <1>5, LockQuiet, OthersTls DEF tlsVars
<1>6. CASE UNCHANGED thVars
  BY <1>6, OthersTls DEF thVars
<1> QED BY <1>1, <1>2, <1>3, <1>4, <1>5, <1>6 DEF ThreadsNext

\* Every variable is one value of its task for as long as the task lives and
\* no two share one, however many first touches race (__emutls_get_address).
THEOREM ValuesAlwaysOwn == ThreadsSpec => []ValuesAreOwn
<1>1. TlsInv => ValuesAreOwn
  BY DEF TlsInv, Indices, ValuesAreOwn
<1> QED BY InitTls, NextTls, <1>1, PTL DEF ThreadsSpec

-----------------------------------------------------------------------------
(* The lazily created mutex.                                               *)

\* There is one mutex at most; who is inside holds it, alone.
MutexInv ==
  /\ thMutex \in {0, 1}
  /\ thLock \in [Locals -> [pc : {"out", "create", "take", "in"}, mutex : {0, 1}]]
  /\ \A c \in Locals : thLock[c].pc = "in" => thMutex = 1 /\ thLock[c].mutex = 1
  /\ MutexExcludes

\* A task that waits, creates or leaves is not inside.
LEMMA PlaceOutside ==
  ASSUME MutexInv, NEW c \in Locals, NEW pc \in {"out", "create", "take"},
         Place(c, pc, 0), thMutex' \in {0, 1}, thMutex = 1 => thMutex' = 1
  PROVE  MutexInv'
<1>1. thLock' = [thLock EXCEPT ![c] = [pc |-> pc, mutex |-> 0]]
  BY DEF Place
<1>2. thLock'[c] = [pc |-> pc, mutex |-> 0] /\ \A d \in Locals : d # c => thLock'[d] = thLock[d]
  BY <1>1 DEF MutexInv
<1>3. thLock' \in [Locals -> [pc : {"out", "create", "take", "in"}, mutex : {0, 1}]]
  BY <1>1 DEF MutexInv
<1> QED BY <1>2, <1>3 DEF MutexInv, MutexExcludes

\* A task enters only with the one mutex, and only when nobody holds it.
LEMMA EnterAlone ==
  ASSUME MutexInv, NEW c \in Locals, LockTakes(c), thMutex # 0
  PROVE  MutexInv'
<1>1. thLock' = [thLock EXCEPT ![c] = [pc |-> "in", mutex |-> thMutex]] /\ thMutex' = 1 /\ thMutex = 1
  BY DEF LockTakes, Place, MutexInv
<1>2. thLock'[c] = [pc |-> "in", mutex |-> 1] /\ \A d \in Locals : d # c => thLock'[d] = thLock[d]
  BY <1>1 DEF MutexInv
<1>3. \A d \in Locals : thLock[d].pc # "in"
  BY <1>1 DEF LockTakes, Taken, MutexInv
<1>4. thLock' \in [Locals -> [pc : {"out", "create", "take", "in"}, mutex : {0, 1}]]
  BY <1>1 DEF MutexInv
<1> QED BY <1>1, <1>2, <1>3, <1>4 DEF MutexInv, MutexExcludes

LEMMA NextMutex == MutexInv /\ [ThreadsNext]_thVars => MutexInv'
<1> SUFFICES ASSUME MutexInv, [ThreadsNext]_thVars PROVE MutexInv'
  OBVIOUS
<1>1. ASSUME UNCHANGED <<thMutex, thLock>> PROVE MutexInv'
  BY <1>1 DEF MutexInv, MutexExcludes
<1>2. CASE OwnerSteps \/ Finish \/ Suspends \/ KernelFrees
  BY <1>1, <1>2, OwnerQuiet
<1>3. ASSUME NEW c \in Contexts,
             \/ \E v \in ThVars : Touch(c, v)
             \/ Assign(c) \/ FindArray(c) \/ Grow(c) \/ FreeOld(c) \/ FindValue(c) \/ StoreValue(c)
      PROVE  MutexInv'
  BY <1>1, <1>3 DEF Touch, Assign, FindArray, Grow, FreeOld, FindValue, StoreValue, lockVars
<1>4. ASSUME NEW c \in Locals, LockReads(c) PROVE MutexInv'
  BY <1>4, PlaceOutside DEF LockReads, MutexInv
<1>5. ASSUME NEW c \in Locals, NEW ok \in BOOLEAN, LockCreates(c, ok) PROVE MutexInv'
  BY <1>5, PlaceOutside DEF LockCreates, MutexAfter, MutexInv
<1>6. ASSUME NEW c \in Locals, LockTakes(c) PROVE MutexInv'
  BY <1>6, PlaceOutside, EnterAlone DEF LockTakes, MutexInv
<1>7. ASSUME NEW c \in Locals, Unlock(c) PROVE MutexInv'
  BY <1>7, PlaceOutside DEF Unlock, MutexInv
<1>8. CASE UNCHANGED thVars
  BY <1>1, <1>8 DEF thVars
<1> QED BY <1>2, <1>3, <1>4, <1>5, <1>6, <1>7, <1>8 DEF ThreadsNext

\* Two tasks that lock a mutex for the first time at once still exclude each
\* other: the loser of the race uses the winner's mutex (pthread_mutex_lock).
THEOREM MutexAlwaysExcludes == ThreadsSpec => []MutexExcludes
<1>1. ThreadsInit => MutexInv
  BY DEF ThreadsInit, MutexInv, MutexExcludes
<1>2. MutexInv => MutexExcludes
  BY DEF MutexInv
<1> QED BY <1>1, <1>2, NextMutex, PTL DEF ThreadsSpec

\* First use by two tasks at once is as good as by one after the other, for any
\* number of tasks and of variables.
THEOREM FirstUseAlwaysSafe == ThreadsSpec => []FirstUseIsSafe
<1>1. ValuesAreOwn /\ MutexExcludes => FirstUseIsSafe
  BY DEF FirstUseIsSafe
<1> QED BY <1>1, ValuesAlwaysOwn, MutexAlwaysExcludes, PTL
-----------------------------------------------------------------------------
(* The blocks of the heap.                                                 *)

Kinds == {"array", "value"}

Blocks == (Contexts \X Kinds \X Nat) \cup {Info, Done, Tcb}

\* The array in the slot of a context and the values the array holds.
Slotted(c) ==
  (IF thSlot[c] = 0 THEN {} ELSE {Arr(c, thSlot[c])}) \cup {Val(c, i) : i \in thVals[c]}

\* What the accesses of a context have allocated and not yet freed.
Storage(c) == {b \in thHeap : b[1] = c /\ b[2] \in {"array", "value"}}

Live(c) == c # "pthread" \/ thTask = "ready"

\* The one block outside the slot while an access is half-way: the longer
\* array or the value it has not yet published, or the array it replaced.
Loose(c, x) ==
  /\ thPc[c] = "grown" => x = Arr(c, Capacity(thIdx[c]))
  /\ thPc[c] = "filled" => x = Val(c, thIdx[c])
  /\ thPc[c] = "old" => \E n \in Nat \ {0} : x = Arr(c, n) /\ (Live(c) => n < thSlot[c])

\* The books of a context agree with the heap, wherever it was parked.
Balanced(c) ==
  /\ Slotted(c) \subseteq Storage(c)
  /\ thSlot[c] = 0 => thVals[c] = {}
  /\ \E x : /\ Loose(c, x)
            /\ Storage(c) \ Slotted(c) = IF thPc[c] \in {"grown", "old", "filled"} THEN {x} ELSE {}
  /\ Live(c) => /\ thPc[c] = "grown" => thSlot[c] < thIdx[c]
                /\ thPc[c] \in {"old", "value", "filled"} => thSlot[c] >= thIdx[c]

BeforeTask == {"boot", "start", "semaphore", "task", "failed"}

Cleaned == {"delete", "cancelled", "joindelete", "free", "joined"}

\* How far the owner is, what the task is doing, and which blocks they share.
Stages ==
  /\ thPort \in [tls : BOOLEAN, static : BOOLEAN, locks : BOOLEAN]
  /\ thOwner \in BeforeTask \cup Cleaned \cup
       {"store", "created", "give", "suspend", "clean", "joinclean"}
  /\ thTask \in {"none", "ready", "gave", "suspended", "deleted"}
  /\ thInfo \in [task : BOOLEAN, tcb : BOOLEAN] /\ thDone \in {0, 1}
  /\ Info \in thHeap <=> thOwner \notin {"boot", "start", "failed", "joined"}
  /\ Done \in thHeap <=> thOwner \notin {"boot", "start", "semaphore", "failed", "joined"}
  /\ thTask = "none" <=> thOwner \in BeforeTask
  /\ thTask = "none" => Tcb \notin thHeap /\ thDone = 0
  /\ thTask \in {"ready", "gave", "suspended"} => Tcb \in thHeap
  /\ thTask = "deleted" <=> thOwner \in {"cancelled", "free", "joined"}
  /\ thTask = "deleted" /\ thPort.static => (Tcb \in thHeap <=> thOwner # "joined")
  /\ thOwner \in {"clean", "joinclean", "joindelete"} => thTask # "ready"
  /\ thOwner = "delete" /\ thPort.tls => thTask # "ready"
  /\ thOwner \in {"store", "created"} /\ thDone = 1 => thTask # "ready"
  /\ thOwner = "store" => thPort.static
  /\ thOwner = "created" => thInfo.task
  /\ thOwner \in {"give", "suspend", "clean", "delete", "cancelled"} => ~thInfo.task
  /\ thInfo.tcb <=> thPort.static /\ thOwner \notin BeforeTask \cup {"store"}

\* Without __thread nothing is ever touched; a task that has not started or
\* has been cleaned up has no slot.
Slots ==
  /\ thSlot \in [Contexts -> Nat] /\ thVals \in [Contexts -> SUBSET Nat]
  /\ thHeap \subseteq Blocks
  /\ ~thPort.tls => \A c \in Contexts : thSlot[c] = 0 /\ thPc[c] = "idle"
  /\ thTask = "none" => thSlot["pthread"] = 0 /\ thPc["pthread"] = "idle"
  /\ thOwner \in Cleaned => thSlot["pthread"] = 0

MemoryInv ==
  TlsInv /\ Stages /\ Slots /\ (\A c \in Contexts : Balanced(c)) /\ ~thBroken

LEMMA DivideNat ==
  ASSUME NEW x \in Nat, NEW b \in Nat, b > 0
  PROVE  (x % b) + b * (x \div b) = x /\ x % b \in 0 .. b - 1 /\ x \div b \in Nat
OBVIOUS

\* An array is long enough for the index it was allocated for.
LEMMA CapacityFits ==
  ASSUME NEW i \in Nat
  PROVE  Capacity(i) \in Nat /\ Capacity(i) >= i
<1> DEFINE x == i + ThGrow - 1
           q == x \div ThGrow
           r == x % ThGrow
<1>1. ThGrow \in Nat /\ ThGrow > 0
  BY ThreadsAssumption DEF ThreadsAssumption
<1>2. x \in Nat /\ x = i + ThGrow - 1
  BY <1>1
<1>3. Capacity(i) = q * ThGrow
  BY DEF Capacity
<1> HIDE DEF x
<1>4. r + ThGrow * q = x /\ r \in 0 .. ThGrow - 1 /\ q \in Nat
  BY <1>1, <1>2, DivideNat
<1> HIDE DEF q, r
<1>5. q * ThGrow = ThGrow * q /\ q * ThGrow \in Nat
  BY <1>1, <1>4
<1> QED BY <1>1, <1>2, <1>3, <1>4, <1>5

\* What a block allocated or freed for one context does to the others.
LEMMA Allocates ==
  ASSUME NEW c, NEW b, b[1] = c, b[2] \in {"array", "value"}, thHeap' = thHeap \cup {b}
  PROVE  /\ Storage(c)' = Storage(c) \cup {b}
         /\ \A d : d # c => Storage(d)' = Storage(d)
         /\ \A a \in {Info, Done, Tcb} : a \in thHeap' <=> a \in thHeap
<1>1. b \notin {Info, Done, Tcb}
  BY DEF Info, Done, Tcb
<1> QED BY <1>1 DEF Storage

LEMMA Releases ==
  ASSUME NEW c, NEW S, S \subseteq Storage(c), thHeap' = thHeap \ S
  PROVE  /\ Storage(c)' = Storage(c) \ S
         /\ \A d : d # c => Storage(d)' = Storage(d)
         /\ \A a \in {Info, Done, Tcb} : a \in thHeap' <=> a \in thHeap
<1>1. \A b \in S : b[1] = c /\ b[2] \in {"array", "value"}
  BY DEF Storage
<1>2. \A a \in {Info, Done, Tcb} : a \notin S
  BY <1>1 DEF Info, Done, Tcb
<1> QED BY <1>1, <1>2 DEF Storage

LEMMA BooksMove ==
  ASSUME NEW c, \A b : b \notin {Info, Done, Tcb} => (b \in thHeap' <=> b \in thHeap)
  PROVE  Storage(c)' = Storage(c)
<1>1. \A b \in {Info, Done, Tcb} : b[2] \notin {"array", "value"}
  BY DEF Info, Done, Tcb
<1> QED BY <1>1 DEF Storage

LEMMA BlockShape ==
  ASSUME NEW c, NEW n
  PROVE  /\ Arr(c, n)[1] = c /\ Arr(c, n)[2] = "array" /\ Arr(c, n)[3] = n
         /\ Val(c, n)[1] = c /\ Val(c, n)[2] = "value" /\ Val(c, n)[3] = n
         /\ \A d, m : Arr(c, n) # Val(d, m)
         /\ \A m : m # n => Arr(c, m) # Arr(c, n) /\ Val(c, m) # Val(c, n)
BY DEF Arr, Val

LEMMA BalancedRests ==
  ASSUME NEW c, Balanced(c), Storage(c)' = Storage(c), thSlot'[c] = thSlot[c],
         thVals'[c] = thVals[c], thPc'[c] = thPc[c], thIdx'[c] = thIdx[c], Live(c)' => Live(c)
  PROVE  Balanced(c)'
<1>1. Slotted(c)' = Slotted(c)
  BY DEF Slotted
<1>2. \A x : Loose(c, x) => Loose(c, x)'
  BY DEF Loose
<1> QED BY <1>1, <1>2 DEF Balanced

LEMMA StagesRest ==
  ASSUME Stages, UNCHANGED <<thPort, thOwner, thInfo, thDone, thTask>>,
         \A a \in {Info, Done, Tcb} : a \in thHeap' <=> a \in thHeap
  PROVE  Stages'
<1>1. Info' = Info /\ Done' = Done /\ Tcb' = Tcb
  BY DEF Info, Done, Tcb
<1>2. (Info \in thHeap)' <=> Info \in thHeap
  BY DEF Info
<1>3. (Done \in thHeap)' <=> Done \in thHeap
  BY DEF Done
<1>4. (Tcb \in thHeap)' <=> Tcb \in thHeap
  BY DEF Tcb
<1> QED BY <1>2, <1>3, <1>4 DEF Stages

\* A step of an access of context c: what is left to show is that its own books
\* still agree and that it used live blocks.
LEMMA AccessMemory ==
  ASSUME MemoryInv, TlsInv', NEW c \in Contexts, ThRuns(c), thPort.tls,
         UNCHANGED <<thPort, thOwner, thInfo, thDone, thTask>>,
         \A d \in Contexts : d # c =>
           /\ thPc'[d] = thPc[d] /\ thIdx'[d] = thIdx[d] /\ thSlot'[d] = thSlot[d]
           /\ thVals'[d] = thVals[d] /\ Storage(d)' = Storage(d),
         \A a \in {Info, Done, Tcb} : a \in thHeap' <=> a \in thHeap,
         thSlot' \in [Contexts -> Nat], thVals' \in [Contexts -> SUBSET Nat],
         thHeap' \subseteq Blocks,
         Balanced(c)', ~thBroken'
  PROVE  MemoryInv'
<1>1. Stages'
  BY StagesRest DEF MemoryInv
<1>2. c = "pthread" => thTask = "ready" /\ thOwner \notin Cleaned
  BY DEF MemoryInv, Stages, ThRuns, Cleaned
<1>3. Slots'
  BY <1>2 DEF MemoryInv, Slots, Contexts
<1>4. ASSUME NEW d \in Contexts PROVE Balanced(d)'
  <2>1. CASE d = c
    BY <2>1
  <2>2. CASE d # c
    <3>1. Live(d)' => Live(d)
      BY DEF Live
    <3> QED BY <2>2, <3>1, BalancedRests DEF MemoryInv
  <2> QED BY <2>1, <2>2
<1> QED BY <1>1, <1>3, <1>4 DEF MemoryInv
\* An access that has passed its look-up runs only with __thread, and holds the
\* index it looked up; its context is alive.
LEMMA AccessHolds ==
  ASSUME MemoryInv, NEW c \in Contexts, ThRuns(c)
  PROVE  /\ thPc[c] # "idle" => thPort.tls
         /\ thPc[c] \notin {"idle", "assign"} => thIdx[c] \in Nat \ {0}
         /\ Live(c) /\ Balanced(c) /\ thSlot[c] \in Nat /\ thVals[c] \subseteq Nat
         /\ ~thBroken /\ Storage(c) \subseteq thHeap
<1>1. thPc[c] # "idle" => thPort.tls
  BY DEF MemoryInv, Slots
<1>2. thPc[c] \notin {"idle", "assign"} => thIdx[c] \in Nat \ {0}
  BY DEF MemoryInv, TlsInv, TlsTypes, Indices
<1>3. thSlot[c] \in Nat /\ thVals[c] \in SUBSET Nat
  BY DEF MemoryInv, Slots
<1>4. Live(c)
  BY DEF Live, ThRuns, Contexts
<1>5. Storage(c) \subseteq thHeap
  BY DEF Storage
<1> QED BY <1>1, <1>2, <1>3, <1>4, <1>5 DEF MemoryInv

LEMMA HeapRests ==
  ASSUME thHeap' = thHeap
  PROVE  /\ \A d : Storage(d)' = Storage(d)
         /\ \A a \in {Info, Done, Tcb} : a \in thHeap' <=> a \in thHeap
BY DEF Storage

\* A step between places at which the slot accounts for every block.
LEMMA BalancedSettled ==
  ASSUME NEW c, Balanced(c), Storage(c)' = Storage(c), thSlot'[c] = thSlot[c],
         thVals'[c] = thVals[c], thPc[c] \notin {"grown", "old", "filled"},
         thPc'[c] \notin {"grown", "old", "filled"},
         thPc'[c] = "value" => thSlot[c] >= thIdx'[c]
  PROVE  Balanced(c)'
<1>1. Slotted(c)' = Slotted(c)
  BY DEF Slotted
<1>2. \A x : Loose(c, x)'
  BY DEF Loose
<1> QED BY <1>1, <1>2 DEF Balanced

LEMMA TouchMemory ==
  ASSUME MemoryInv, NEW c \in Contexts, NEW v \in ThVars, Touch(c, v)
  PROVE  MemoryInv'
<1>1. TlsInv'
  BY TouchTls DEF MemoryInv
<1>2. /\ thPort.tls /\ ThRuns(c) /\ thPc[c] = "idle" /\ thPc'[c] \in {"assign", "array"}
      /\ UNCHANGED <<thPort, thOwner, thInfo, thDone, thTask, thSlot, thVals, thHeap, thBroken>>
      /\ \A d \in Contexts : d # c => thPc'[d] = thPc[d] /\ thIdx'[d] = thIdx[d]
  BY DEF Touch, ownerVars, MemoryInv, TlsInv, TlsTypes
<1>3. /\ \A d : Storage(d)' = Storage(d)
      /\ \A a \in {Info, Done, Tcb} : a \in thHeap' <=> a \in thHeap
  BY <1>2, HeapRests
<1>4. Balanced(c)'
  BY <1>2, <1>3, BalancedSettled DEF MemoryInv
<1> QED BY <1>1, <1>2, <1>3, <1>4, AccessMemory DEF MemoryInv, Slots

LEMMA AssignMemory ==
  ASSUME MemoryInv, NEW c \in Contexts, Assign(c)
  PROVE  MemoryInv'
<1>1. TlsInv'
  BY AssignTls DEF MemoryInv
<1>2. /\ ThRuns(c) /\ thPc[c] = "assign" /\ thPc'[c] = "array"
      /\ UNCHANGED <<thPort, thOwner, thInfo, thDone, thTask, thSlot, thVals, thHeap, thBroken>>
      /\ \A d \in Contexts : d # c => thPc'[d] = thPc[d] /\ thIdx'[d] = thIdx[d]
  BY DEF Assign, ownerVars, MemoryInv, TlsInv, TlsTypes
<1>3. /\ \A d : Storage(d)' = Storage(d)
      /\ \A a \in {Info, Done, Tcb} : a \in thHeap' <=> a \in thHeap
  BY <1>2, HeapRests
<1>4. Balanced(c)'
  BY <1>2, <1>3, BalancedSettled DEF MemoryInv
<1>5. thPort.tls
  BY <1>2, AccessHolds
<1> QED BY <1>1, <1>2, <1>3, <1>4, <1>5, AccessMemory DEF MemoryInv, Slots

\* What every later step of an access leaves alone.
LEMMA AccessFrame ==
  ASSUME MemoryInv, NEW c \in Contexts,
         FindArray(c) \/ Grow(c) \/ FreeOld(c) \/ FindValue(c) \/ StoreValue(c)
  PROVE  /\ TlsInv' /\ ThRuns(c) /\ thPort.tls /\ thPc[c] \notin {"idle", "assign"}
         /\ UNCHANGED <<thPort, thOwner, thInfo, thDone, thTask, thIdx>>
         /\ \A d \in Contexts : d # c =>
              thPc'[d] = thPc[d] /\ thSlot'[d] = thSlot[d] /\ thVals'[d] = thVals[d]
<1>1. TlsInv'
  BY AccessTls DEF MemoryInv
<1>2. ThRuns(c) /\ thPc[c] \notin {"idle", "assign"}
  BY DEF FindArray, Grow, FreeOld, FindValue, StoreValue
<1>3. thPort.tls
  BY <1>2, AccessHolds
<1>4. UNCHANGED <<thPort, thOwner, thInfo, thDone, thTask, thIdx>>
  BY DEF FindArray, Grow, FreeOld, FindValue, StoreValue, ownerVars
<1>5. \A d \in Contexts : d # c =>
        thPc'[d] = thPc[d] /\ thSlot'[d] = thSlot[d] /\ thVals'[d] = thVals[d]
  BY DEF FindArray, Grow, FreeOld, FindValue, StoreValue, MemoryInv, TlsInv, TlsTypes, Slots
<1> QED BY <1>1, <1>2, <1>3, <1>4, <1>5

\* A step of an access that leaves the heap alone, or adds or frees one block
\* of its own context.
LEMMA AccessConcludes ==
  ASSUME MemoryInv, NEW c \in Contexts,
         FindArray(c) \/ Grow(c) \/ FreeOld(c) \/ FindValue(c) \/ StoreValue(c),
         \A d : d # c => Storage(d)' = Storage(d),
         \A a \in {Info, Done, Tcb} : a \in thHeap' <=> a \in thHeap,
         thSlot' \in [Contexts -> Nat], thVals' \in [Contexts -> SUBSET Nat],
         thHeap' \subseteq Blocks,
         Balanced(c)', ~thBroken'
  PROVE  MemoryInv'
<1>1. /\ TlsInv' /\ ThRuns(c) /\ thPort.tls
      /\ UNCHANGED <<thPort, thOwner, thInfo, thDone, thTask, thIdx>>
      /\ \A d \in Contexts : d # c =>
           thPc'[d] = thPc[d] /\ thSlot'[d] = thSlot[d] /\ thVals'[d] = thVals[d]
  BY AccessFrame
<1> QED BY <1>1, AccessMemory
\* The array serves if it is long enough; otherwise a longer one is loose.
LEMMA FindArrayMemory ==
  ASSUME MemoryInv, NEW c \in Contexts, FindArray(c)
  PROVE  MemoryInv'
<1>1. /\ ThRuns(c) /\ thPc[c] = "array" /\ UNCHANGED <<thSlot, thVals, thIdx>>
      /\ thPc \in [Contexts -> Places]
  BY DEF FindArray, MemoryInv, TlsInv, TlsTypes
<1>2. /\ thIdx[c] \in Nat \ {0} /\ Live(c) /\ Balanced(c) /\ thSlot[c] \in Nat
      /\ ~thBroken /\ Storage(c) \subseteq thHeap
  BY <1>1, AccessHolds
<1>3. Slotted(c)' = Slotted(c) /\ Slotted(c) \subseteq Storage(c) /\ Storage(c) \ Slotted(c) = {}
  BY <1>1, <1>2 DEF Slotted, Balanced
<1>4. ~thBroken'
  BY <1>2, <1>3 DEF FindArray, Uses, Slotted
<1>5. /\ thHeap \subseteq Blocks
      /\ thSlot' \in [Contexts -> Nat] /\ thVals' \in [Contexts -> SUBSET Nat]
  BY <1>1 DEF MemoryInv, Slots
<1>6. CASE thSlot[c] >= thIdx[c]
  <2>1. thHeap' = thHeap /\ thPc'[c] = "value"
    BY <1>1, <1>6 DEF FindArray
  <2>2. /\ \A d : Storage(d)' = Storage(d)
        /\ \A a \in {Info, Done, Tcb} : a \in thHeap' <=> a \in thHeap
    BY <2>1, HeapRests
  <2>3. Balanced(c)'
    BY <1>1, <1>2, <1>6, <2>1, <2>2, BalancedSettled
  <2> QED BY <1>4, <1>5, <2>1, <2>2, <2>3, AccessConcludes
<1>7. CASE ~(thSlot[c] >= thIdx[c])
  <2> DEFINE x == Arr(c, Capacity(thIdx[c]))
  <2>1. thHeap' = thHeap \cup {x} /\ thPc'[c] = "grown"
    BY <1>1, <1>7 DEF FindArray
  <2>2. Capacity(thIdx[c]) \in Nat /\ Capacity(thIdx[c]) # thSlot[c] /\ thSlot[c] < thIdx[c]
    BY <1>2, <1>7, CapacityFits
  <2>3. /\ x[1] = c /\ x[2] = "array" /\ x # Arr(c, thSlot[c]) /\ \A i : x # Val(c, i)
        /\ x \in Blocks
    BY <2>2, BlockShape DEF Blocks, Kinds, Arr
  <2>4. \E y : y = x /\ Loose(c, y)'
    <3>1. PICK y : y = x
      OBVIOUS
    <3> QED BY <1>1, <2>1, <3>1 DEF Loose, Capacity, Arr
  <2> HIDE DEF x
  <2>5. /\ Storage(c)' = Storage(c) \cup {x}
        /\ \A d : d # c => Storage(d)' = Storage(d)
        /\ \A a \in {Info, Done, Tcb} : a \in thHeap' <=> a \in thHeap
    BY <2>1, <2>3, Allocates
  <2>6. x \notin Slotted(c)
    BY <2>3 DEF Slotted
  <2>7. Storage(c)' \ Slotted(c)' = {x} /\ Slotted(c)' \subseteq Storage(c)'
    BY <1>3, <2>5, <2>6
  <2>8. Balanced(c)'
    <3>1. PICK y : y = x /\ Loose(c, y)'
      BY <2>4
    <3>2. Storage(c)' \ Slotted(c)' = {y}
      BY <2>7, <3>1
    <3> QED BY <1>1, <1>2, <2>1, <2>2, <2>7, <3>1, <3>2 DEF Balanced
  <2>9. thHeap' \subseteq Blocks
    BY <1>5, <2>1, <2>3
  <2> QED BY <1>4, <1>5, <2>5, <2>8, <2>9, AccessConcludes
<1> QED BY <1>6, <1>7

\* Publishing the longer array leaves the one it replaced loose, if there was one.
LEMMA GrowMemory ==
  ASSUME MemoryInv, NEW c \in Contexts, Grow(c)
  PROVE  MemoryInv'
<1> DEFINE n == Capacity(thIdx[c])
           V == {Val(c, i) : i \in thVals[c]}
<1>1. /\ ThRuns(c) /\ thPc[c] = "grown" /\ UNCHANGED <<thVals, thIdx, thHeap, thBroken>>
      /\ thPc'[c] = IF thSlot[c] = 0 THEN "value" ELSE "old"
      /\ thSlot' = [thSlot EXCEPT ![c] = n]
  BY DEF Grow, MemoryInv, TlsInv, TlsTypes
<1>2. /\ thIdx[c] \in Nat \ {0} /\ Live(c) /\ Balanced(c) /\ thSlot[c] \in Nat
      /\ ~thBroken /\ Storage(c) \subseteq thHeap
  BY <1>1, AccessHolds
<1>3. n \in Nat \ {0} /\ n >= thIdx[c]
  BY <1>2, CapacityFits
<1>4. thSlot[c] < thIdx[c] /\ (thSlot[c] = 0 => thVals[c] = {})
  BY <1>1, <1>2 DEF Balanced
<1>5. thSlot[c] < n
  BY <1>2, <1>3, <1>4
<1>6. /\ Slotted(c) \subseteq Storage(c)
      /\ \E x : Loose(c, x) /\ Storage(c) \ Slotted(c) = {x}
  BY <1>1, <1>2 DEF Balanced
<1>7. Storage(c) \ Slotted(c) = {Arr(c, n)}
  BY <1>1, <1>6 DEF Loose
<1>8. thSlot'[c] = n /\ thSlot' \in [Contexts -> Nat]
  BY <1>1, <1>3 DEF MemoryInv, Slots
<1> HIDE DEF n
<1>9. Slotted(c)' = {Arr(c, n)} \cup V
  BY <1>1, <1>3, <1>8 DEF Slotted, Val, Arr
<1>10. /\ \A d : Storage(d)' = Storage(d)
       /\ \A a \in {Info, Done, Tcb} : a \in thHeap' <=> a \in thHeap
  BY <1>1, HeapRests
<1>11. thSlot'[c] >= thIdx'[c] /\ thSlot'[c] # 0
  BY <1>1, <1>3, <1>8
<1>12. Balanced(c)'
  <2>1. CASE thSlot[c] = 0
    <3>1. Slotted(c) = {} /\ V = {}
      BY <1>4, <2>1 DEF Slotted
    <3>2. Storage(c)' = Slotted(c)'
      BY <1>6, <1>7, <1>9, <1>10, <3>1
    <3>3. thPc'[c] = "value" /\ \A x : Loose(c, x)'
      BY <1>1, <2>1 DEF Loose
    <3> QED BY <1>11, <3>2, <3>3 DEF Balanced
  <2>2. CASE thSlot[c] # 0
    <3> DEFINE x == Arr(c, thSlot[c])
    <3>1. Slotted(c) = {x} \cup V
      BY <2>2 DEF Slotted
    <3>2. x # Arr(c, n) /\ x \notin V
      BY <1>5, <1>2, <1>3, BlockShape
    <3>3. Arr(c, n) \notin V
      BY BlockShape
    <3>4. thPc'[c] = "old" /\ thSlot[c] \in Nat \ {0} /\ thSlot[c] < thSlot'[c]
      BY <1>1, <1>2, <1>5, <1>8, <2>2
    <3>5. PICK m \in Nat \ {0} : m = thSlot[c]
      BY <3>4
    <3>6. x = Arr(c, m) /\ m < thSlot'[c]
      BY <3>4, <3>5
    <3> HIDE DEF x, V
    <3>7. Storage(c)' \ Slotted(c)' = {x} /\ Slotted(c)' \subseteq Storage(c)'
      BY <1>6, <1>7, <1>9, <1>10, <3>1, <3>2, <3>3
    <3>8. PICK y : y = x
      OBVIOUS
    <3>9. Loose(c, y)'
      BY <3>4, <3>6, <3>8 DEF Loose, Arr
    <3> QED BY <1>11, <3>4, <3>7, <3>8, <3>9 DEF Balanced
  <2> QED BY <2>1, <2>2
<1>13. thHeap' \subseteq Blocks /\ thVals' \in [Contexts -> SUBSET Nat] /\ ~thBroken'
  BY <1>1, <1>2 DEF MemoryInv, Slots
<1> QED BY <1>8, <1>10, <1>12, <1>13, AccessConcludes

\* The array that was replaced is the only shorter one.
LEMMA FreeOldMemory ==
  ASSUME MemoryInv, NEW c \in Contexts, FreeOld(c)
  PROVE  MemoryInv'
<1> DEFINE old == {b \in thHeap : b[1] = c /\ b[2] = "array" /\ b[3] < thSlot[c]}
<1>1. /\ ThRuns(c) /\ thPc[c] = "old" /\ UNCHANGED <<thVals, thIdx, thSlot>>
      /\ thPc'[c] = "value" /\ thHeap' = thHeap \ old /\ thBroken' = (thBroken \/ old = {})
  BY DEF FreeOld, MemoryInv, TlsInv, TlsTypes
<1>2. /\ thIdx[c] \in Nat \ {0} /\ Live(c) /\ Balanced(c) /\ thSlot[c] \in Nat
      /\ ~thBroken /\ Storage(c) \subseteq thHeap
  BY <1>1, AccessHolds
<1>3. /\ Slotted(c) \subseteq Storage(c) /\ thSlot[c] >= thIdx[c]
      /\ \E x : Loose(c, x) /\ Storage(c) \ Slotted(c) = {x}
  BY <1>1, <1>2 DEF Balanced
<1>4. PICK x : Loose(c, x) /\ Storage(c) \ Slotted(c) = {x}
  BY <1>3
<1>5. PICK n \in Nat \ {0} : x = Arr(c, n) /\ n < thSlot[c]
  BY <1>1, <1>2, <1>4 DEF Loose
<1>6. x \in old
  BY <1>2, <1>4, <1>5, BlockShape
<1>7. ASSUME NEW b \in old PROVE b = x
  <2>1. b \in Storage(c) /\ b[2] = "array" /\ b[3] < thSlot[c]
    BY DEF Storage
  <2>2. b # Arr(c, thSlot[c])
    BY <1>2, <2>1, BlockShape
  <2>3. \A i : b # Val(c, i)
    BY <2>1, BlockShape
  <2>4. b \notin Slotted(c)
    BY <2>2, <2>3 DEF Slotted
  <2> QED BY <1>4, <2>1, <2>4
<1>8. old = {x} /\ {x} \subseteq Storage(c)
  BY <1>4, <1>6, <1>7
<1> HIDE DEF old
<1>9. /\ Storage(c)' = Storage(c) \ {x}
      /\ \A d : d # c => Storage(d)' = Storage(d)
      /\ \A a \in {Info, Done, Tcb} : a \in thHeap' <=> a \in thHeap
  BY <1>1, <1>8, Releases
<1>10. Slotted(c)' = Slotted(c)
  BY <1>1 DEF Slotted
<1>11. \A y : Loose(c, y)'
  BY <1>1 DEF Loose
<1>12. Balanced(c)'
  <2>1. Storage(c)' = Slotted(c)'
    BY <1>3, <1>4, <1>9, <1>10
  <2>2. thSlot'[c] = thSlot[c] /\ thIdx'[c] = thIdx[c] /\ thSlot'[c] # 0
    BY <1>1, <1>2, <1>3
  <2> QED BY <1>1, <1>3, <1>11, <2>1, <2>2 DEF Balanced
<1>13. /\ thHeap' \subseteq Blocks /\ ~thBroken'
       /\ thSlot' \in [Contexts -> Nat] /\ thVals' \in [Contexts -> SUBSET Nat]
  BY <1>1, <1>2, <1>8 DEF MemoryInv, Slots
<1> QED BY <1>9, <1>12, <1>13, AccessConcludes
\* A first touch leaves the new value loose; a later one finds it in the array.
LEMMA FindValueMemory ==
  ASSUME MemoryInv, NEW c \in Contexts, FindValue(c)
  PROVE  MemoryInv'
<1> DEFINE x == Val(c, thIdx[c])
<1>1. /\ ThRuns(c) /\ thPc[c] = "value" /\ UNCHANGED <<thSlot, thVals, thIdx>>
      /\ thHeap' = thHeap \cup {x}
      /\ thPc'[c] = IF thIdx[c] \in thVals[c] THEN "idle" ELSE "filled"
  BY DEF FindValue, MemoryInv, TlsInv, TlsTypes
<1>2. /\ thIdx[c] \in Nat \ {0} /\ Live(c) /\ Balanced(c) /\ thSlot[c] \in Nat
      /\ ~thBroken /\ Storage(c) \subseteq thHeap
  BY <1>1, AccessHolds
<1>3. /\ Slotted(c)' = Slotted(c) /\ Slotted(c) \subseteq Storage(c)
      /\ Storage(c) \ Slotted(c) = {} /\ thSlot[c] >= thIdx[c] /\ thSlot[c] # 0
  BY <1>1, <1>2 DEF Slotted, Balanced
<1>4. Arr(c, thSlot[c]) \in thHeap /\ \A i \in thVals[c] : Val(c, i) \in thHeap
  BY <1>2, <1>3 DEF Slotted
<1>5. ~thBroken'
  BY <1>2, <1>4 DEF FindValue, Uses
<1>6. x \in Blocks /\ x[1] = c /\ x[2] = "value"
  BY <1>2, BlockShape DEF Blocks, Kinds, Val
<1>7. /\ thHeap' \subseteq Blocks
      /\ thSlot' \in [Contexts -> Nat] /\ thVals' \in [Contexts -> SUBSET Nat]
  BY <1>1, <1>6 DEF MemoryInv, Slots
<1>8. CASE thIdx[c] \in thVals[c]
  <2>1. thHeap' = thHeap
    BY <1>1, <1>4, <1>8
  <2>2. /\ \A d : Storage(d)' = Storage(d)
        /\ \A a \in {Info, Done, Tcb} : a \in thHeap' <=> a \in thHeap
    BY <2>1, HeapRests
  <2>3. Balanced(c)'
    BY <1>1, <1>2, <1>8, <2>2, BalancedSettled
  <2> QED BY <1>5, <1>7, <2>2, <2>3, AccessConcludes
<1>9. CASE thIdx[c] \notin thVals[c]
  <2>1. thPc'[c] = "filled"
    BY <1>1, <1>9
  <2>2. \E y : y = x /\ Loose(c, y)'
    <3>1. PICK y : y = x
      OBVIOUS
    <3> QED BY <1>1, <2>1, <3>1 DEF Loose, Val
  <2>3. x \notin Slotted(c)
    BY <1>9, BlockShape DEF Slotted
  <2> HIDE DEF x
  <2>4. /\ Storage(c)' = Storage(c) \cup {x}
        /\ \A d : d # c => Storage(d)' = Storage(d)
        /\ \A a \in {Info, Done, Tcb} : a \in thHeap' <=> a \in thHeap
    BY <1>1, <1>6, Allocates
  <2>5. Storage(c)' \ Slotted(c)' = {x} /\ Slotted(c)' \subseteq Storage(c)'
    BY <1>3, <2>3, <2>4
  <2>6. Balanced(c)'
    <3>1. PICK y : y = x /\ Loose(c, y)'
      BY <2>2
    <3>2. Storage(c)' \ Slotted(c)' = {y}
      BY <2>5, <3>1
    <3> QED BY <1>1, <1>3, <2>1, <2>5, <3>1, <3>2 DEF Balanced
  <2> QED BY <1>5, <1>7, <2>4, <2>6, AccessConcludes
<1> QED BY <1>8, <1>9

\* The value that was loose is stored in the array.
LEMMA StoreValueMemory ==
  ASSUME MemoryInv, NEW c \in Contexts, StoreValue(c)
  PROVE  MemoryInv'
<1> DEFINE x == Val(c, thIdx[c])
<1>1. /\ ThRuns(c) /\ thPc[c] = "filled" /\ UNCHANGED <<thSlot, thIdx, thHeap>>
      /\ thVals' = [thVals EXCEPT ![c] = @ \cup {thIdx[c]}] /\ thPc'[c] = "idle"
  BY DEF StoreValue, MemoryInv, TlsInv, TlsTypes
<1>2. /\ thIdx[c] \in Nat \ {0} /\ Live(c) /\ Balanced(c) /\ thSlot[c] \in Nat
      /\ ~thBroken /\ Storage(c) \subseteq thHeap
  BY <1>1, AccessHolds
<1>3. /\ Slotted(c) \subseteq Storage(c) /\ thSlot[c] >= thIdx[c] /\ thSlot[c] # 0
      /\ \E y : Loose(c, y) /\ Storage(c) \ Slotted(c) = {y}
  BY <1>1, <1>2 DEF Balanced
<1>4. Storage(c) \ Slotted(c) = {x}
  BY <1>1, <1>3 DEF Loose
<1>5. /\ thVals'[c] = thVals[c] \cup {thIdx[c]} /\ thVals' \in [Contexts -> SUBSET Nat]
      /\ thSlot' \in [Contexts -> Nat] /\ thHeap' \subseteq Blocks
  BY <1>1, <1>2 DEF MemoryInv, Slots
<1>6. Slotted(c)' = Slotted(c) \cup {x}
  BY <1>1, <1>5 DEF Slotted, Arr, Val
<1>7. Arr(c, thSlot[c]) \in thHeap
  BY <1>2, <1>3 DEF Slotted
<1>8. ~thBroken'
  BY <1>2, <1>7 DEF StoreValue, Uses
<1>9. /\ \A d : Storage(d)' = Storage(d)
      /\ \A a \in {Info, Done, Tcb} : a \in thHeap' <=> a \in thHeap
  BY <1>1, HeapRests
<1>10. \A y : Loose(c, y)'
  BY <1>1 DEF Loose
<1> HIDE DEF x
<1>11. Storage(c)' = Slotted(c)'
  BY <1>3, <1>4, <1>6, <1>9
<1>12. thSlot'[c] # 0
  BY <1>1, <1>3
<1>13. Balanced(c)'
  BY <1>1, <1>10, <1>11, <1>12 DEF Balanced
<1> QED BY <1>5, <1>8, <1>9, <1>13, AccessConcludes

-----------------------------------------------------------------------------
(* The owner and the ends of the thread.                                   *)

\* A step that moves only the books of the thread, and does not start it, keeps
\* every context's storage as it is.
LEMMA OwnerMemory ==
  ASSUME MemoryInv, UNCHANGED tlsVars, thHeap' \subseteq Blocks,
         \A b : b \notin {Info, Done, Tcb} => (b \in thHeap' <=> b \in thHeap),
         thTask' = "ready" => thTask \in {"none", "ready"},
         thTask' = "none" => thTask = "none", thPort' = thPort,
         thOwner' \in Cleaned => thOwner \in Cleaned \/ thSlot["pthread"] = 0,
         Stages', ~thBroken'
  PROVE  MemoryInv'
<1>1. TlsInv'
  BY OthersTls DEF MemoryInv, tlsVars
<1>2. Slots'
  BY DEF MemoryInv, Slots, tlsVars
<1>3. ASSUME NEW c \in Contexts PROVE Balanced(c)'
  <2>1. Storage(c)' = Storage(c) /\ Balanced(c)
    BY BooksMove DEF MemoryInv
  <2>2. CASE Live(c)' => Live(c)
    BY <2>1, <2>2, BalancedRests DEF tlsVars
  <2>3. CASE ~(Live(c)' => Live(c))
    <3>1. c = "pthread" /\ thTask = "none"
      BY <2>3 DEF Live
    <3>2. thPc[c] = "idle" /\ thPc'[c] = "idle"
      BY <3>1 DEF MemoryInv, Slots, tlsVars
    <3>3. thSlot'[c] = thSlot[c] /\ thVals'[c] = thVals[c]
      BY DEF tlsVars
    <3> QED BY <2>1, <3>2, <3>3, BalancedSettled
  <2> QED BY <2>2, <2>3
<1> QED BY <1>1, <1>2, <1>3 DEF MemoryInv
\* The scheduler starts when the boot context is between two accesses.
LEMMA StartSchedulerMemory ==
  ASSUME MemoryInv, StartScheduler
  PROVE  MemoryInv'
<1> USE DEF MemoryInv
<1>1. UNCHANGED tlsVars /\ thPort' = thPort
  BY DEF StartScheduler, ThQuiet
<1>2. /\ Stages' /\ ~thBroken'
      /\ \A b : b \notin {Info, Done, Tcb} => (b \in thHeap' <=> b \in thHeap)
  BY <1>1 DEF StartScheduler, Stages, BeforeTask, Cleaned, Info, Done, Tcb, Uses, ownerVars, Booting
<1>3. /\ thTask' = "ready" => thTask \in {"none", "ready"}
      /\ thTask' = "none" => thTask = "none"
      /\ thOwner' \in Cleaned => thOwner \in Cleaned \/ thSlot["pthread"] = 0
  BY <1>1 DEF StartScheduler, Stages, Slots, BeforeTask, Cleaned, Contexts, ownerVars, Booting
<1>4. thHeap' \subseteq Blocks
  BY DEF StartScheduler, Slots, Blocks
<1> QED BY <1>1, <1>2, <1>3, <1>4, OwnerMemory

\* pthread_create allocates the record, the semaphore and the task, or undoes it all.
LEMMA AllocInfoMemory ==
  ASSUME MemoryInv, NEW ok \in BOOLEAN, AllocInfo(ok)
  PROVE  MemoryInv'
<1> USE DEF MemoryInv
<1>1. UNCHANGED tlsVars /\ thPort' = thPort
  BY DEF AllocInfo, ThQuiet
<1>2. /\ Stages' /\ ~thBroken'
      /\ \A b : b \notin {Info, Done, Tcb} => (b \in thHeap' <=> b \in thHeap)
  BY <1>1 DEF AllocInfo, Stages, BeforeTask, Cleaned, Info, Done, Tcb, Uses, ownerVars
<1>3. /\ thTask' = "ready" => thTask \in {"none", "ready"}
      /\ thTask' = "none" => thTask = "none"
      /\ thOwner' \in Cleaned => thOwner \in Cleaned \/ thSlot["pthread"] = 0
  BY <1>1 DEF AllocInfo, Stages, Slots, BeforeTask, Cleaned, Contexts, ownerVars
<1>4. thHeap' \subseteq Blocks
  BY DEF AllocInfo, Slots, Blocks
<1> QED BY <1>1, <1>2, <1>3, <1>4, OwnerMemory

LEMMA CreateDoneMemory ==
  ASSUME MemoryInv, NEW ok \in BOOLEAN, CreateDone(ok)
  PROVE  MemoryInv'
<1> USE DEF MemoryInv
<1>1. UNCHANGED tlsVars /\ thPort' = thPort
  BY DEF CreateDone, ThQuiet
<1>2. /\ Stages' /\ ~thBroken'
      /\ \A b : b \notin {Info, Done, Tcb} => (b \in thHeap' <=> b \in thHeap)
  BY <1>1 DEF CreateDone, Stages, BeforeTask, Cleaned, Info, Done, Tcb, Uses, ownerVars
<1>3. /\ thTask' = "ready" => thTask \in {"none", "ready"}
      /\ thTask' = "none" => thTask = "none"
      /\ thOwner' \in Cleaned => thOwner \in Cleaned \/ thSlot["pthread"] = 0
  BY <1>1 DEF CreateDone, Stages, Slots, BeforeTask, Cleaned, Contexts, ownerVars
<1>4. thHeap' \subseteq Blocks
  BY DEF CreateDone, Slots, Blocks
<1> QED BY <1>1, <1>2, <1>3, <1>4, OwnerMemory

LEMMA CreateTaskMemory ==
  ASSUME MemoryInv, NEW ok \in BOOLEAN, CreateTask(ok)
  PROVE  MemoryInv'
<1> USE DEF MemoryInv
<1>1. UNCHANGED tlsVars /\ thPort' = thPort
  BY DEF CreateTask, ThQuiet
<1>2. /\ Stages' /\ ~thBroken'
      /\ \A b : b \notin {Info, Done, Tcb} => (b \in thHeap' <=> b \in thHeap)
  <2>1. CASE ok
    <3>1. /\ thOwner = "task" /\ thOwner' = (IF thPort.static THEN "store" ELSE "created")
          /\ thTask' = "ready" /\ thHeap' = thHeap \cup {Tcb} /\ thDone' = thDone
          /\ thInfo' = (IF ~thPort.static THEN [thInfo EXCEPT !.task = TRUE] ELSE thInfo)
      BY <2>1 DEF CreateTask
    <3>2. /\ thTask = "none" /\ thInfo.tcb = FALSE /\ thDone = 0
          /\ thPort.static \in BOOLEAN /\ thInfo \in [task : BOOLEAN, tcb : BOOLEAN]
          /\ Info \in thHeap /\ Done \in thHeap
      BY <3>1 DEF Stages, BeforeTask
    <3>3. /\ thInfo' \in [task : BOOLEAN, tcb : BOOLEAN] /\ thInfo'.tcb = FALSE
          /\ ~thPort.static => thInfo'.task
      BY <3>1, <3>2
    <3>4. Stages'
      <4>1. CASE thPort.static
        BY <1>1, <3>1, <3>2, <3>3, <4>1 DEF Stages, BeforeTask, Cleaned, Info, Done, Tcb
      <4>2. CASE ~thPort.static
        BY <1>1, <3>1, <3>2, <3>3, <4>2 DEF Stages, BeforeTask, Cleaned, Info, Done, Tcb
      <4> QED BY <4>1, <4>2
    <3> QED BY <3>1, <3>4, <2>1 DEF CreateTask
  <2>2. CASE ~ok
    BY <1>1, <2>2 DEF CreateTask, Stages, BeforeTask, Cleaned, Info, Done, Tcb
  <2> QED BY <2>1, <2>2
<1>3. /\ thTask' = "ready" => thTask \in {"none", "ready"}
      /\ thTask' = "none" => thTask = "none"
      /\ thOwner' \in Cleaned => thOwner \in Cleaned \/ thSlot["pthread"] = 0
  BY <1>1 DEF CreateTask, Stages, Slots, BeforeTask, Cleaned, Contexts, ownerVars
<1>4. thHeap' \subseteq Blocks
  BY DEF CreateTask, Slots, Blocks
<1> QED BY <1>1, <1>2, <1>3, <1>4, OwnerMemory

LEMMA StoreTaskMemory ==
  ASSUME MemoryInv, StoreTask
  PROVE  MemoryInv'
<1> USE DEF MemoryInv
<1>1. UNCHANGED tlsVars /\ thPort' = thPort
  BY DEF StoreTask, ThQuiet
<1>2. /\ Stages' /\ ~thBroken'
      /\ \A b : b \notin {Info, Done, Tcb} => (b \in thHeap' <=> b \in thHeap)
  BY <1>1 DEF StoreTask, Stages, BeforeTask, Cleaned, Info, Done, Tcb, Uses, ownerVars
<1>3. /\ thTask' = "ready" => thTask \in {"none", "ready"}
      /\ thTask' = "none" => thTask = "none"
      /\ thOwner' \in Cleaned => thOwner \in Cleaned \/ thSlot["pthread"] = 0
  BY <1>1 DEF StoreTask, Stages, Slots, BeforeTask, Cleaned, Contexts, ownerVars
<1>4. thHeap' \subseteq Blocks
  BY DEF StoreTask, Slots, Blocks
<1> QED BY <1>1, <1>2, <1>3, <1>4, OwnerMemory

\* The thread signals its end and parks itself.
LEMMA FinishMemory ==
  ASSUME MemoryInv, Finish
  PROVE  MemoryInv'
<1> USE DEF MemoryInv
<1>1. UNCHANGED tlsVars /\ thPort' = thPort
  BY DEF Finish, ThQuiet
<1>2. /\ Stages' /\ ~thBroken'
      /\ \A b : b \notin {Info, Done, Tcb} => (b \in thHeap' <=> b \in thHeap)
  BY <1>1 DEF Finish, Stages, BeforeTask, Cleaned, Info, Done, Tcb, Uses, ownerVars
<1>3. /\ thTask' = "ready" => thTask \in {"none", "ready"}
      /\ thTask' = "none" => thTask = "none"
      /\ thOwner' \in Cleaned => thOwner \in Cleaned \/ thSlot["pthread"] = 0
  BY <1>1 DEF Finish, Stages, Slots, BeforeTask, Cleaned, Contexts, ownerVars
<1>4. thHeap' \subseteq Blocks
  BY DEF Finish, Slots, Blocks
<1> QED BY <1>1, <1>2, <1>3, <1>4, OwnerMemory

LEMMA SuspendsMemory ==
  ASSUME MemoryInv, Suspends
  PROVE  MemoryInv'
<1> USE DEF MemoryInv
<1>1. UNCHANGED tlsVars /\ thPort' = thPort
  BY DEF Suspends, ThQuiet
<1>2. /\ Stages' /\ ~thBroken'
      /\ \A b : b \notin {Info, Done, Tcb} => (b \in thHeap' <=> b \in thHeap)
  BY <1>1 DEF Suspends, Stages, BeforeTask, Cleaned, Info, Done, Tcb, Uses, ownerVars
<1>3. /\ thTask' = "ready" => thTask \in {"none", "ready"}
      /\ thTask' = "none" => thTask = "none"
      /\ thOwner' \in Cleaned => thOwner \in Cleaned \/ thSlot["pthread"] = 0
  BY <1>1 DEF Suspends, Stages, Slots, BeforeTask, Cleaned, Contexts, ownerVars
<1>4. thHeap' \subseteq Blocks
  BY DEF Suspends, Slots, Blocks
<1> QED BY <1>1, <1>2, <1>3, <1>4, OwnerMemory

\* pthread_cancel takes the task's handle, signals, parks and deletes the task.
LEMMA CancelClaimsMemory ==
  ASSUME MemoryInv, CancelClaims
  PROVE  MemoryInv'
<1> USE DEF MemoryInv
<1>1. UNCHANGED tlsVars /\ thPort' = thPort
  BY DEF CancelClaims, ThQuiet
<1>2. /\ Stages' /\ ~thBroken'
      /\ \A b : b \notin {Info, Done, Tcb} => (b \in thHeap' <=> b \in thHeap)
  BY <1>1 DEF CancelClaims, Stages, BeforeTask, Cleaned, Info, Done, Tcb, Uses, ownerVars
<1>3. /\ thTask' = "ready" => thTask \in {"none", "ready"}
      /\ thTask' = "none" => thTask = "none"
      /\ thOwner' \in Cleaned => thOwner \in Cleaned \/ thSlot["pthread"] = 0
  BY <1>1 DEF CancelClaims, Stages, Slots, BeforeTask, Cleaned, Contexts, ownerVars
<1>4. thHeap' \subseteq Blocks
  BY DEF CancelClaims, Slots, Blocks
<1> QED BY <1>1, <1>2, <1>3, <1>4, OwnerMemory

LEMMA CancelGivesMemory ==
  ASSUME MemoryInv, CancelGives
  PROVE  MemoryInv'
<1> USE DEF MemoryInv
<1>1. UNCHANGED tlsVars /\ thPort' = thPort
  BY DEF CancelGives, ThQuiet
<1>2. /\ Stages' /\ ~thBroken'
      /\ \A b : b \notin {Info, Done, Tcb} => (b \in thHeap' <=> b \in thHeap)
  BY <1>1 DEF CancelGives, Stages, BeforeTask, Cleaned, Info, Done, Tcb, Uses, ownerVars, Given
<1>3. /\ thTask' = "ready" => thTask \in {"none", "ready"}
      /\ thTask' = "none" => thTask = "none"
      /\ thOwner' \in Cleaned => thOwner \in Cleaned \/ thSlot["pthread"] = 0
  BY <1>1 DEF CancelGives, Stages, Slots, BeforeTask, Cleaned, Contexts, ownerVars
<1>4. thHeap' \subseteq Blocks
  BY DEF CancelGives, Slots, Blocks
<1> QED BY <1>1, <1>2, <1>3, <1>4, OwnerMemory

LEMMA CancelSuspendsMemory ==
  ASSUME MemoryInv, CancelSuspends
  PROVE  MemoryInv'
<1> USE DEF MemoryInv
<1>1. UNCHANGED tlsVars /\ thPort' = thPort
  BY DEF CancelSuspends, ThQuiet
<1>2. /\ Stages' /\ ~thBroken'
      /\ \A b : b \notin {Info, Done, Tcb} => (b \in thHeap' <=> b \in thHeap)
  BY <1>1 DEF CancelSuspends, Stages, BeforeTask, Cleaned, Info, Done, Tcb, Uses, ownerVars
<1>3. /\ thTask' = "ready" => thTask \in {"none", "ready"}
      /\ thTask' = "none" => thTask = "none"
      /\ thOwner' \in Cleaned => thOwner \in Cleaned \/ thSlot["pthread"] = 0
  BY <1>1 DEF CancelSuspends, Stages, Slots, BeforeTask, Cleaned, Contexts, ownerVars
<1>4. thHeap' \subseteq Blocks
  BY DEF CancelSuspends, Slots, Blocks
<1> QED BY <1>1, <1>2, <1>3, <1>4, OwnerMemory

LEMMA CancelDeletesMemory ==
  ASSUME MemoryInv, CancelDeletes
  PROVE  MemoryInv'
<1> USE DEF MemoryInv
<1>1. UNCHANGED tlsVars /\ thPort' = thPort
  BY DEF CancelDeletes, ThQuiet
<1>2. /\ Stages' /\ ~thBroken'
      /\ \A b : b \notin {Info, Done, Tcb} => (b \in thHeap' <=> b \in thHeap)
  BY <1>1 DEF CancelDeletes, Stages, BeforeTask, Cleaned, Info, Done, Tcb, Uses, ownerVars
<1>3. /\ thTask' = "ready" => thTask \in {"none", "ready"}
      /\ thTask' = "none" => thTask = "none"
      /\ thOwner' \in Cleaned => thOwner \in Cleaned \/ thSlot["pthread"] = 0
  BY <1>1 DEF CancelDeletes, Stages, Slots, BeforeTask, Cleaned, Contexts, ownerVars
<1>4. thHeap' \subseteq Blocks
  BY DEF CancelDeletes, Slots, Blocks
<1> QED BY <1>1, <1>2, <1>3, <1>4, OwnerMemory

\* pthread_join takes the signal, deletes the task and frees its books.
LEMMA JoinTakesMemory ==
  ASSUME MemoryInv, JoinTakes
  PROVE  MemoryInv'
<1> USE DEF MemoryInv
<1>1. UNCHANGED tlsVars /\ thPort' = thPort
  BY DEF JoinTakes, ThQuiet
<1>2. /\ Stages' /\ ~thBroken'
      /\ \A b : b \notin {Info, Done, Tcb} => (b \in thHeap' <=> b \in thHeap)
  BY <1>1 DEF JoinTakes, Stages, BeforeTask, Cleaned, Info, Done, Tcb, Uses, ownerVars, Completed
<1>3. /\ thTask' = "ready" => thTask \in {"none", "ready"}
      /\ thTask' = "none" => thTask = "none"
      /\ thOwner' \in Cleaned => thOwner \in Cleaned \/ thSlot["pthread"] = 0
  BY <1>1 DEF JoinTakes, Stages, Slots, BeforeTask, Cleaned, Contexts, ownerVars, Completed
<1>4. thHeap' \subseteq Blocks
  BY DEF JoinTakes, Slots, Blocks
<1> QED BY <1>1, <1>2, <1>3, <1>4, OwnerMemory

LEMMA JoinDeletesMemory ==
  ASSUME MemoryInv, JoinDeletes
  PROVE  MemoryInv'
<1> USE DEF MemoryInv
<1>1. UNCHANGED tlsVars /\ thPort' = thPort
  BY DEF JoinDeletes, ThQuiet
<1>2. /\ Stages' /\ ~thBroken'
      /\ \A b : b \notin {Info, Done, Tcb} => (b \in thHeap' <=> b \in thHeap)
  BY <1>1 DEF JoinDeletes, Stages, BeforeTask, Cleaned, Info, Done, Tcb, Uses, ownerVars
<1>3. /\ thTask' = "ready" => thTask \in {"none", "ready"}
      /\ thTask' = "none" => thTask = "none"
      /\ thOwner' \in Cleaned => thOwner \in Cleaned \/ thSlot["pthread"] = 0
  BY <1>1 DEF JoinDeletes, Stages, Slots, BeforeTask, Cleaned, Contexts, ownerVars
<1>4. thHeap' \subseteq Blocks
  BY DEF JoinDeletes, Slots, Blocks
<1> QED BY <1>1, <1>2, <1>3, <1>4, OwnerMemory

LEMMA JoinFreesMemory ==
  ASSUME MemoryInv, JoinFrees
  PROVE  MemoryInv'
<1> USE DEF MemoryInv
<1>1. UNCHANGED tlsVars /\ thPort' = thPort
  BY DEF JoinFrees, ThQuiet
<1>2. /\ Stages' /\ ~thBroken'
      /\ \A b : b \notin {Info, Done, Tcb} => (b \in thHeap' <=> b \in thHeap)
  BY <1>1 DEF JoinFrees, Stages, BeforeTask, Cleaned, Info, Done, Tcb, Uses, ownerVars, Freed
<1>3. /\ thTask' = "ready" => thTask \in {"none", "ready"}
      /\ thTask' = "none" => thTask = "none"
      /\ thOwner' \in Cleaned => thOwner \in Cleaned \/ thSlot["pthread"] = 0
  BY <1>1 DEF JoinFrees, Stages, Slots, BeforeTask, Cleaned, Contexts, ownerVars
<1>4. thHeap' \subseteq Blocks
  BY DEF JoinFrees, Slots, Blocks
<1> QED BY <1>1, <1>2, <1>3, <1>4, OwnerMemory

\* The kernel frees what it allocated of a deleted task.
LEMMA KernelFreesMemory ==
  ASSUME MemoryInv, KernelFrees
  PROVE  MemoryInv'
<1> USE DEF MemoryInv
<1>1. UNCHANGED tlsVars /\ thPort' = thPort
  BY DEF KernelFrees, ThQuiet
<1>2. /\ Stages' /\ ~thBroken'
      /\ \A b : b \notin {Info, Done, Tcb} => (b \in thHeap' <=> b \in thHeap)
  BY <1>1 DEF KernelFrees, Stages, BeforeTask, Cleaned, Info, Done, Tcb, Uses, ownerVars
<1>3. /\ thTask' = "ready" => thTask \in {"none", "ready"}
      /\ thTask' = "none" => thTask = "none"
      /\ thOwner' \in Cleaned => thOwner \in Cleaned \/ thSlot["pthread"] = 0
  BY <1>1 DEF KernelFrees, Stages, Slots, BeforeTask, Cleaned, Contexts, ownerVars
<1>4. thHeap' \subseteq Blocks
  BY DEF KernelFrees, Slots, Blocks
<1> QED BY <1>1, <1>2, <1>3, <1>4, OwnerMemory
\* What the cleanup frees is what the slot accounts for; the block an access
\* had loose, if the thread was parked in the middle of one, stays behind.
LEMMA CleanupMemory ==
  ASSUME MemoryInv, CancelCleans \/ JoinCleans
  PROVE  MemoryInv'
<1> DEFINE p == "pthread"
<1> USE DEF MemoryInv
<1>1. /\ thOwner \in {"clean", "joinclean"} /\ thOwner' \in {"delete", "joindelete"}
      /\ Cleanup
      /\ thOwner = "clean" => thOwner' = "delete"
      /\ thOwner = "joinclean" => thOwner' = "joindelete"
      /\ UNCHANGED <<thPort, thInfo, thDone, thTask, thPc, thVar, thIdx, thLoc, thNext, thGot>>
  BY DEF CancelCleans, JoinCleans
<1>2. TlsInv'
  BY <1>1, OthersTls
<1>3. /\ p \in Contexts /\ thSlot \in [Contexts -> Nat] /\ thVals \in [Contexts -> SUBSET Nat]
      /\ thHeap \subseteq Blocks /\ Balanced(p)
  BY DEF Slots, Contexts
<1>4. thTask \in {"gave", "suspended"} /\ Tcb \in thHeap /\ ~Live(p) /\ ~Live(p)'
  BY <1>1 DEF Stages, BeforeTask, Live
<1>5. Slotted(p) \subseteq Storage(p) /\ (thSlot[p] = 0 => thVals[p] = {})
  BY <1>3 DEF Balanced
<1>6. TlsBlocks = Slotted(p)
  BY <1>5 DEF TlsBlocks, Slotted
<1>7. Storage(p) \subseteq thHeap
  BY DEF Storage
<1>8. /\ ~thBroken' /\ thHeap' = thHeap \ Slotted(p)
      /\ thSlot' = [thSlot EXCEPT ![p] = 0] /\ thVals' = [thVals EXCEPT ![p] = {}]
  <2>1. TlsBlocks \cup {Tcb} \subseteq thHeap
    BY <1>4, <1>5, <1>6, <1>7
  <2>2. Uses(TlsBlocks \cup {Tcb})
    BY <1>1 DEF Cleanup
  <2>3. ~thBroken'
    BY <2>1, <2>2 DEF Uses
  <2> QED BY <1>1, <1>6, <2>3 DEF Cleanup
<1>9. /\ thSlot'[p] = 0 /\ thVals'[p] = {}
      /\ \A d \in Contexts : d # p => thSlot'[d] = thSlot[d] /\ thVals'[d] = thVals[d]
      /\ thSlot' \in [Contexts -> Nat] /\ thVals' \in [Contexts -> SUBSET Nat]
      /\ thHeap' \subseteq Blocks
  BY <1>3, <1>8
<1>10. /\ Storage(p)' = Storage(p) \ Slotted(p)
       /\ \A d : d # p => Storage(d)' = Storage(d)
       /\ \A a \in {Info, Done, Tcb} : a \in thHeap' <=> a \in thHeap
  BY <1>5, <1>8, Releases
<1>11. Stages'
  <2>1. (Info \in thHeap)' <=> Info \in thHeap
    BY <1>10 DEF Info
  <2>2. (Done \in thHeap)' <=> Done \in thHeap
    BY <1>10 DEF Done
  <2>3. (Tcb \in thHeap)' <=> Tcb \in thHeap
    BY <1>10 DEF Tcb
  <2> QED BY <1>1, <1>4, <2>1, <2>2, <2>3 DEF Stages, BeforeTask, Cleaned
<1>12. Slots'
  BY <1>1, <1>4, <1>9 DEF Slots, Cleaned, Contexts
<1>13. Balanced(p)'
  <2>1. PICK x : /\ Loose(p, x)
                 /\ Storage(p) \ Slotted(p) =
                      IF thPc[p] \in {"grown", "old", "filled"} THEN {x} ELSE {}
    BY <1>3 DEF Balanced
  <2>2. Loose(p, x)'
    BY <1>1, <1>4, <2>1 DEF Loose, Capacity, Arr, Val
  <2>3. Slotted(p)' = {}
    BY <1>9 DEF Slotted
  <2>4. Storage(p)' \ Slotted(p)' = IF thPc'[p] \in {"grown", "old", "filled"} THEN {x} ELSE {}
    BY <1>1, <1>10, <2>1, <2>3
  <2> QED BY <1>4, <1>9, <2>2, <2>3, <2>4 DEF Balanced
<1>14. ASSUME NEW c \in Contexts PROVE Balanced(c)'
  <2>1. CASE c = p
    BY <1>13, <2>1
  <2>2. CASE c # p
    <3>1. Live(c)' => Live(c)
      BY <2>2 DEF Live
    <3> QED BY <1>1, <1>9, <1>10, <2>2, <3>1, BalancedRests
  <2> QED BY <2>1, <2>2
<1> QED BY <1>2, <1>8, <1>11, <1>12, <1>14

\* The mutex's steps, and none, leave all of it alone.
LEMMA MemoryRests ==
  ASSUME MemoryInv, UNCHANGED <<thPort, ownerVars, tlsVars, thHeap, thBroken>>
  PROVE  MemoryInv'
<1>1. \A b : b \notin {Info, Done, Tcb} => (b \in thHeap' <=> b \in thHeap)
  OBVIOUS
<1>2. \A a \in {Info, Done, Tcb} : a \in thHeap' <=> a \in thHeap
  OBVIOUS
<1>3. Stages'
  BY <1>2, StagesRest DEF MemoryInv, ownerVars
<1>4. thHeap' \subseteq Blocks
  BY DEF MemoryInv, Slots
<1>5. ~thBroken'
  BY DEF MemoryInv
<1>6. thTask' = thTask /\ thOwner' = thOwner
  BY DEF ownerVars
<1> QED BY <1>1, <1>3, <1>4, <1>5, <1>6, OwnerMemory

LEMMA NextMemory == MemoryInv /\ [ThreadsNext]_thVars => MemoryInv'
<1> SUFFICES ASSUME MemoryInv, [ThreadsNext]_thVars PROVE MemoryInv'
  OBVIOUS
<1>1. ASSUME NEW ok \in BOOLEAN, AllocInfo(ok) \/ CreateDone(ok) \/ CreateTask(ok)
      PROVE  MemoryInv'
  BY <1>1, AllocInfoMemory, CreateDoneMemory, CreateTaskMemory
<1>2. CASE StartScheduler \/ StoreTask \/ CancelClaims \/ CancelGives \/ CancelSuspends
             \/ CancelDeletes \/ JoinTakes \/ JoinDeletes \/ JoinFrees
  BY <1>2, StartSchedulerMemory, StoreTaskMemory, CancelClaimsMemory, CancelGivesMemory,
     CancelSuspendsMemory, CancelDeletesMemory, JoinTakesMemory, JoinDeletesMemory,
     JoinFreesMemory
<1>3. CASE CancelCleans \/ JoinCleans
  BY <1>3, CleanupMemory
<1>4. CASE OwnerSteps
  BY <1>1, <1>2, <1>3, <1>4 DEF OwnerSteps
<1>5. CASE Finish \/ Suspends \/ KernelFrees
  BY <1>5, FinishMemory, SuspendsMemory, KernelFreesMemory
<1>6. ASSUME NEW c \in Contexts, NEW v \in ThVars, Touch(c, v) PROVE MemoryInv'
  BY <1>6, TouchMemory
<1>7. ASSUME NEW c \in Contexts,
             Assign(c) \/ FindArray(c) \/ Grow(c) \/ FreeOld(c) \/ FindValue(c) \/ StoreValue(c)
      PROVE  MemoryInv'
  BY <1>7, AssignMemory, FindArrayMemory, GrowMemory, FreeOldMemory, FindValueMemory,
     StoreValueMemory
<1>8. ASSUME NEW c \in Locals,
             LockReads(c) \/ (\E ok \in BOOLEAN : LockCreates(c, ok)) \/ LockTakes(c) \/ Unlock(c)
      PROVE  MemoryInv'
  <2>1. UNCHANGED <<thPort, ownerVars, tlsVars, thHeap, thBroken>>
    BY <1>8 DEF LockReads, LockCreates, LockTakes, Unlock, Place
  <2> QED BY <2>1, MemoryRests
<1>9. CASE UNCHANGED thVars
  <2>1. UNCHANGED <<thPort, ownerVars, tlsVars, thHeap, thBroken>>
    BY <1>9 DEF thVars, ownerVars, tlsVars
  <2> QED BY <2>1, MemoryRests
<1> QED BY <1>4, <1>5, <1>6, <1>7, <1>8, <1>9 DEF ThreadsNext

LEMMA MemoryStarts == ThreadsInit => MemoryInv
<1> SUFFICES ASSUME ThreadsInit PROVE MemoryInv
  OBVIOUS
<1>1. TlsInv
  BY InitTls
<1>2. Stages
  BY DEF ThreadsInit, Stages, BeforeTask, Cleaned
<1>3. Slots
  BY DEF ThreadsInit, Slots, Cleaned, Contexts
<1>4. ASSUME NEW c \in Contexts PROVE Balanced(c)
  <2>1. thSlot[c] = 0 /\ thVals[c] = {} /\ thHeap = {} /\ thPc[c] = "idle"
    BY DEF ThreadsInit
  <2>2. Storage(c) = {} /\ Slotted(c) = {} /\ \A x : Loose(c, x)
    BY <2>1 DEF Storage, Slotted, Loose
  <2> QED BY <2>1, <2>2 DEF Balanced
<1>5. ~thBroken
  BY DEF ThreadsInit
<1> QED BY <1>1, <1>2, <1>3, <1>4, <1>5 DEF MemoryInv

\* A thread that is gone has at most its loose block left.
LEMMA MemoryMeans == MemoryInv => ThreadMemory
<1> SUFFICES ASSUME MemoryInv PROVE ThreadMemory
  OBVIOUS
<1>1. MemorySafe
  BY DEF MemoryInv, MemorySafe
<1>2. ASSUME thOwner \in {"joined", "failed"},
             thTask = "deleted" => thPort.static \/ Tcb \notin thHeap
      PROVE  LET left == {b \in thHeap : b[1] = "pthread"}
             IN /\ Cardinality(left) <= 1
                /\ left # {} => thPc["pthread"] \in {"grown", "old", "filled"}
  <2> DEFINE p == "pthread"
             left == {b \in thHeap : b[1] = p}
  <2>1. Info \notin thHeap /\ Done \notin thHeap
    BY <1>2 DEF MemoryInv, Stages
  <2>2. Tcb \notin thHeap
    <3>1. thOwner = "joined" => thTask = "deleted"
      BY DEF MemoryInv, Stages
    <3>2. thOwner = "failed" => thTask = "none"
      BY DEF MemoryInv, Stages, BeforeTask
    <3> QED BY <1>2, <3>1, <3>2 DEF MemoryInv, Stages
  <2>3. thSlot[p] = 0 /\ Balanced(p) /\ thHeap \subseteq Blocks
    <3>1. thOwner = "failed" => thTask = "none"
      BY DEF MemoryInv, Stages, BeforeTask
    <3> QED BY <1>2, <3>1 DEF MemoryInv, Slots, Cleaned, Contexts
  <2>4. Slotted(p) = {}
    BY <2>3 DEF Balanced, Slotted
  <2>5. PICK x : Storage(p) \ Slotted(p) =
                   IF thPc[p] \in {"grown", "old", "filled"} THEN {x} ELSE {}
    BY <2>3 DEF Balanced
  <2>6. left = Storage(p)
    BY <2>1, <2>2, <2>3 DEF Storage, Blocks, Kinds, Info, Done, Tcb
  <2> HIDE DEF left
  <2>7. CASE thPc[p] \in {"grown", "old", "filled"}
    <3>1. left = {x}
      BY <2>4, <2>5, <2>6, <2>7
    <3>2. Cardinality(left) = 1
      BY <3>1, FS_Singleton
    <3> QED BY <2>7, <3>2 DEF left
  <2>8. CASE thPc[p] \notin {"grown", "old", "filled"}
    <3>1. left = {}
      BY <2>4, <2>5, <2>6, <2>8
    <3>2. Cardinality(left) = 0
      BY <3>1, FS_EmptySet
    <3> QED BY <3>1, <3>2 DEF left
  <2> QED BY <2>7, <2>8
<1> QED BY <1>1, <1>2 DEF ThreadMemory, NothingLeftBehind

\* No step of the shim uses memory that has been freed, and a thread that is
\* gone, joined or half-way created, leaves at most the block of the access in
\* which it was parked (pthread_create, pthread_cancel, pthread_join,
\* __emutls_get_address, x5h_emutls_task_cleanup).
THEOREM ThreadMemoryAlwaysSafe == ThreadsSpec => []ThreadMemory
  BY MemoryStarts, NextMemory, MemoryMeans, PTL DEF ThreadsSpec
=============================================================================
