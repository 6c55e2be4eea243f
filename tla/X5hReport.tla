----------------------------- MODULE X5hReport -----------------------------
(***************************************************************************)
(* What the beacon task of the X5H diagnostic build reports (x5h_diag.c,   *)
(* X5H_DIAG_TASK_TABLE): once, the test of the __thread runtime by two     *)
(* tasks that hand-shake; then, each period, the number of tasks, the      *)
(* controller's TCB, the words that link it into the ready list, and every *)
(* other period the task table.                                            *)
(*                                                                         *)
(* The report reads a TCB that may be deleted, unlinked or overwritten, so *)
(* that every read of it may fault; a fault halts the image.  The console  *)
(* is what has been put on the wire in the current period.                 *)
(***************************************************************************)
EXTENDS Integers, FiniteSets

CONSTANTS NameLength,   \* configMAX_TASK_NAME_LEN
          TableEvery,   \* X5H_DIAG_TASK_TABLE_EVERY
          TableSlots,   \* X5H_DIAG_TASK_TABLE_SLOTS
          BootTasks     \* tasks of the image: more than the slots, or not

ASSUME ReportAssumption ==
  /\ NameLength \in Nat \ {0} /\ TableEvery \in Nat /\ TableEvery >= 2
  /\ TableSlots \in Nat /\ BootTasks \subseteq Nat \ {0}

VARIABLES rpStorage,  \* the runtime gives "own" storage per task, or "shared"
          rpPc,       \* the beacon task
          rpTest,     \* test task -> where it is
          rpCell,     \* owner -> value of s_tls_probe: a task, or "template"
          rpPeers,    \* s_tls_test_peer has been filled in
          rpNotes,    \* task -> notifications pending
          rpFlags,    \* test task -> findings stored for the verdict
          rpFound,    \* test task -> findings so far
          rpLate,     \* ghost: some wait has timed out
          rpVerdict,  \* "none", "pass" or "fail"
          rpCtl,      \* the controller's TCB: unset, live, gone or garbage
          rpList,     \* the two derivations of its ready list agree
          rpTasks,    \* uxTaskGetNumberOfTasks()
          rpName,     \* characters of the name written in this period
          rpWire,     \* what this period has put on the wire
          rpBeat      \* beacon number, modulo TableEvery

rpVars == <<rpStorage, rpPc, rpTest, rpCell, rpPeers, rpNotes, rpFlags, rpFound, rpLate,
            rpVerdict, rpCtl, rpList, rpTasks, rpName, rpWire, rpBeat>>

testVars == <<rpTest, rpCell, rpPeers, rpNotes, rpFlags, rpFound, rpLate, rpVerdict>>

probeVars == <<rpCtl, rpList, rpTasks, rpName, rpWire, rpBeat>>

TestTasks == {"t0", "t1"}

Peer(i) == IF i = "t0" THEN "t1" ELSE "t0"

-----------------------------------------------------------------------------
(* diag_run_tls_selftest, in the beacon task *)

CreateTests(ok) ==
  /\ rpPc = "create"
  /\ rpPc' = IF ok THEN "publish" ELSE "beacon"
  /\ rpTest' = IF ok THEN [i \in TestTasks |-> "read"] ELSE rpTest
  /\ rpVerdict' = IF ok THEN rpVerdict ELSE "fail"
  /\ UNCHANGED <<rpStorage, rpCell, rpPeers, rpNotes, rpFlags, rpFound, rpLate, probeVars>>

PublishPeers ==
  /\ rpPc = "publish"
  /\ rpPc' = "take1" /\ rpPeers' = TRUE
  /\ UNCHANGED <<rpStorage, rpTest, rpCell, rpNotes, rpFlags, rpFound, rpLate, rpVerdict, probeVars>>

(* The verdict of the flags, or of a wait that timed out. *)
Verdict(timedOut) ==
  IF ~timedOut /\ \A i \in TestTasks : rpFlags[i] = {} THEN "pass" ELSE "fail"

(* ulTaskNotifyTake(pdFALSE, ..) takes one notification at a time. *)
RunnerTakes ==
  /\ rpPc \in {"take1", "take2"} /\ rpNotes["runner"] > 0
  /\ rpNotes' = [rpNotes EXCEPT !["runner"] = @ - 1]
  /\ rpPc' = IF rpPc = "take1" THEN "take2" ELSE "beacon"
  /\ rpVerdict' = IF rpPc = "take2" THEN Verdict(FALSE) ELSE rpVerdict
  /\ UNCHANGED <<rpStorage, rpTest, rpCell, rpPeers, rpFlags, rpFound, rpLate, probeVars>>

RunnerTimesOut ==
  /\ rpPc \in {"take1", "take2"} /\ rpNotes["runner"] = 0
  /\ rpPc' = "beacon" /\ rpVerdict' = Verdict(TRUE) /\ rpLate' = TRUE
  /\ UNCHANGED <<rpStorage, rpTest, rpCell, rpPeers, rpNotes, rpFlags, rpFound, probeVars>>

-----------------------------------------------------------------------------
(* diag_tls_selftest_task *)

(* A test task runs when the beacon, whose priority is higher, is blocked: *)
(* in a wait without a notification, or asleep between two beacons.        *)
TestRuns(i, pc) ==
  /\ rpTest[i] = pc
  /\ (rpPc \in {"take1", "take2"} /\ rpNotes["runner"] = 0) \/ rpPc = "asleep"

(* The instance of s_tls_probe that a task's accesses reach. *)
Cell(i) == IF rpStorage = "own" THEN i ELSE "one"

TestReads(i) ==
  /\ TestRuns(i, "read")
  /\ rpTest' = [rpTest EXCEPT ![i] = "write"]
  /\ rpFound' = [rpFound EXCEPT ![i] = IF rpCell[Cell(i)] = "template" THEN {} ELSE {"first"}]
  /\ UNCHANGED <<rpStorage, rpPc, rpCell, rpPeers, rpNotes, rpFlags, rpLate, rpVerdict, probeVars>>

TestWrites(i) ==
  /\ TestRuns(i, "write")
  /\ rpTest' = [rpTest EXCEPT ![i] = "notify"]
  /\ rpCell' = [rpCell EXCEPT ![Cell(i)] = i]
  /\ UNCHANGED <<rpStorage, rpPc, rpPeers, rpNotes, rpFlags, rpFound, rpLate, rpVerdict, probeVars>>

(* A peer that has ended, or whose handle is not published, hears nothing. *)
TestNotifies(i) ==
  /\ TestRuns(i, "notify")
  /\ rpTest' = [rpTest EXCEPT ![i] = "wait"]
  /\ rpNotes' = IF rpPeers THEN [rpNotes EXCEPT ![Peer(i)] = 1] ELSE rpNotes
  /\ UNCHANGED <<rpStorage, rpPc, rpCell, rpPeers, rpFlags, rpFound, rpLate, rpVerdict, probeVars>>

TestWaits(i, timedOut) ==
  /\ TestRuns(i, "wait")
  /\ IF timedOut THEN rpNotes[i] = 0 ELSE rpNotes[i] > 0
  /\ rpTest' = [rpTest EXCEPT ![i] = "check"]
  /\ rpNotes' = [rpNotes EXCEPT ![i] = 0]
  /\ rpFound' = [rpFound EXCEPT ![i] = IF timedOut THEN @ \cup {"peer"} ELSE @]
  /\ rpLate' = (rpLate \/ timedOut)
  /\ UNCHANGED <<rpStorage, rpPc, rpCell, rpPeers, rpFlags, rpVerdict, probeVars>>

(* Mutant of StoredFlags: the readback is not part of what is stored. *)
FlagsBeforeReadback(i) == rpFound[i]

(* Mutant of StoredFlags: the readback is compared with the peer's value. *)
ReadbackOfPeer(i) == rpFound[i] \cup IF rpCell[Cell(i)] = Peer(i) THEN {} ELSE {"readback"}

StoredFlags(i) == rpFound[i] \cup IF rpCell[Cell(i)] = i THEN {} ELSE {"readback"}

TestStores(i) ==
  /\ TestRuns(i, "check")
  /\ rpTest' = [rpTest EXCEPT ![i] = "report"]
  /\ rpFlags' = [rpFlags EXCEPT ![i] = StoredFlags(i)]
  /\ UNCHANGED <<rpStorage, rpPc, rpCell, rpPeers, rpNotes, rpFound, rpLate, rpVerdict, probeVars>>

(* The runner is told; then the task frees its storage and deletes itself. *)
TestReports(i) ==
  /\ TestRuns(i, "report")
  /\ rpTest' = [rpTest EXCEPT ![i] = "gone"]
  /\ rpNotes' = [rpNotes EXCEPT !["runner"] = @ + 1]
  /\ UNCHANGED <<rpStorage, rpPc, rpCell, rpPeers, rpFlags, rpFound, rpLate, rpVerdict, probeVars>>

-----------------------------------------------------------------------------
(* The beacon's periodic report *)

Says(pc, to, words) ==
  /\ rpPc = pc /\ rpPc' = to
  /\ rpWire' = rpWire \cup words
  /\ UNCHANGED <<rpStorage, testVars, rpCtl, rpList, rpTasks>>

(* Mutant of ProbeStart: the controller is read before the count is out. *)
ProbeTcbFirst == "state"

(* diag_put_controller_probe starts with the count of tasks. *)
ProbeStart == "ntasks"

BeaconLine ==
  /\ Says("beacon", ProbeStart, {"beacon"})
  /\ rpBeat' = (rpBeat + 1) % TableEvery
  /\ rpName' = 0

PutNtasks ==
  /\ Says("ntasks", IF rpCtl = "unset" THEN "table" ELSE "state",
          {"ntasks"} \cup IF rpCtl = "unset" THEN {"unset"} ELSE {})
  /\ UNCHANGED <<rpName, rpBeat>>

PutState == Says("state", "name", {"state"}) /\ UNCHANGED <<rpName, rpBeat>>

(* Mutant of NameEnds: the name is printed up to its terminator. *)
NameEndsAtNul == rpCtl = "live" /\ rpName > 0

(* A live TCB's name ends at its terminator; garbage need not have one. *)
NameEnds == rpName = NameLength \/ (rpCtl = "live" /\ rpName > 0)

(* The characters past the limit are not counted one by one. *)
PutNameChar ==
  /\ ~NameEnds /\ Says("name", "name", {})
  /\ rpName' = IF rpName <= NameLength THEN rpName + 1 ELSE rpName
  /\ UNCHANGED rpBeat

PutPriority == NameEnds /\ Says("name", "item", {"name", "priority"}) /\ UNCHANGED <<rpName, rpBeat>>

(* Mutant of ItemOrder: the list is derived before the item is out. *)
ListBeforeItem == {}

(* The words of the controller's list item go out before pxCurrentTCB is read. *)
ItemOrder == {"item"}

PutItem == Says("item", "derive", ItemOrder) /\ UNCHANGED <<rpName, rpBeat>>

(* Derivations that disagree are printed, and neither is followed. *)
PutList ==
  /\ Says("derive", "table", {"item"} \cup IF rpList THEN {"list"} ELSE {"stale"})
  /\ UNCHANGED <<rpName, rpBeat>>

(* A table that does not fit is said to overflow rather than left out. *)
PutTable ==
  /\ Says("table", "asleep", IF rpBeat # 1 THEN {}
                             ELSE IF rpTasks > TableSlots THEN {"overflow"} ELSE {"table"})
  /\ UNCHANGED <<rpName, rpBeat>>

(* Every step that follows a pointer may fault when memory is damaged. *)
Faults ==
  /\ \/ rpPc \in {"state", "name", "item"} /\ rpCtl \in {"gone", "garbage"}
     \/ rpPc = "derive" /\ ~rpList
  /\ rpPc' = "halted"
  /\ UNCHANGED <<rpStorage, testVars, probeVars>>

Wakes ==
  /\ rpPc = "asleep"
  /\ rpPc' = "beacon" /\ rpWire' = {}
  /\ UNCHANGED <<rpStorage, testVars, rpCtl, rpList, rpTasks, rpName, rpBeat>>

-----------------------------------------------------------------------------
(* What happens to the controller while the beacon sleeps *)

StashController ==
  /\ rpPc = "asleep" /\ rpCtl = "unset"
  /\ rpCtl' = "live"
  /\ UNCHANGED <<rpStorage, rpPc, testVars, rpList, rpTasks, rpName, rpWire, rpBeat>>

DamageController ==
  /\ rpPc = "asleep" /\ rpCtl # "unset"
  /\ \/ rpCtl' = "gone" /\ rpCtl # "gone" /\ rpTasks > 1 /\ rpTasks' = rpTasks - 1 /\ UNCHANGED rpList
     \/ rpCtl' = "garbage" /\ rpCtl = "live" /\ UNCHANGED <<rpTasks, rpList>>
     \/ rpList /\ rpList' = FALSE /\ UNCHANGED <<rpCtl, rpTasks>>
  /\ UNCHANGED <<rpStorage, rpPc, testVars, rpName, rpWire, rpBeat>>

ReportInit ==
  /\ rpStorage \in {"own", "shared"} /\ rpPc = "create"
  /\ rpTest = [i \in TestTasks |-> "absent"]
  /\ rpCell = [c \in TestTasks \cup {"one"} |-> "template"]
  /\ rpPeers = FALSE /\ rpNotes = [t \in TestTasks \cup {"runner"} |-> 0]
  /\ rpFlags = [i \in TestTasks |-> {}] /\ rpFound = [i \in TestTasks |-> {}]
  /\ rpLate = FALSE /\ rpVerdict = "none"
  /\ rpCtl = "unset" /\ rpList \in BOOLEAN /\ rpTasks \in BootTasks
  /\ rpName = 0 /\ rpWire = {} /\ rpBeat = 0

BeaconSteps ==
  \/ BeaconLine \/ PutNtasks \/ PutState \/ PutNameChar \/ PutPriority
  \/ PutItem \/ PutList \/ PutTable

ReportNext ==
  \/ \E ok \in BOOLEAN : CreateTests(ok)
  \/ PublishPeers \/ RunnerTakes \/ RunnerTimesOut
  \/ \E i \in TestTasks :
       \/ TestReads(i) \/ TestWrites(i) \/ TestNotifies(i) \/ TestStores(i) \/ TestReports(i)
       \/ \E timedOut \in BOOLEAN : TestWaits(i, timedOut)
  \/ BeaconSteps \/ Faults \/ Wakes
  \/ StashController \/ DamageController

(* The beacon runs above every other task, so its steps are taken. *)
ReportFairness == WF_rpVars(BeaconSteps)

-----------------------------------------------------------------------------
(* Properties *)

(* A verdict of PASS proves storage per task: no order of the two tasks, no *)
(* timeout and no late write makes the single-slot runtime pass.            *)
PassMeansOwn == rpVerdict = "pass" => rpStorage = "own"

(* A verdict of FAIL has a cause: shared storage, a wait that timed out, or *)
(* test tasks that could not be created (diag_run_tls_selftest).            *)
FailHasCause ==
  rpVerdict = "fail" => rpStorage = "shared" \/ rpLate \/ \A i \in TestTasks : rpTest[i] = "absent"

(* However the controller was lost, and wherever reading what is left of it *)
(* faults, the number of tasks of that period is on the wire: it tells a    *)
(* deleted task from an unlinked one (diag_put_controller_probe).           *)
NtasksSurvives == rpPc \in {"halted", "asleep"} /\ rpWire # {} => "ntasks" \in rpWire

(* A fault in deriving the ready list does not cost the words of the        *)
(* controller's own list item (diag_put_controller_raw_words).              *)
ItemSurvives == rpPc = "halted" /\ "priority" \in rpWire /\ rpCtl = "live" => "item" \in rpWire

(* Every report ends, be it in a halt: an overwritten name without a        *)
(* terminator does not keep the beacon, and with it the whole image, busy   *)
(* for ever (diag_puts_bounded).                                            *)
ReportEnds == rpPc = "beacon" ~> rpPc \in {"asleep", "halted"}

\* Each thing a reader of the report concludes from it is so.
ReportTells == PassMeansOwn /\ FailHasCause /\ NtasksSurvives /\ ItemSurvives
=============================================================================
