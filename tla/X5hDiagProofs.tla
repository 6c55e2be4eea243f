--------------------------- MODULE X5hDiagProofs ---------------------------
(***************************************************************************)
(* Proofs about what the X5H's console tells its reader, for every period, *)
(* every number of tasks and every length of a name: the verdict of the    *)
(* __thread test and the words that survive a fault (X5hReport), and what  *)
(* the silence of each reporter means (X5hImage).                          *)
(***************************************************************************)
EXTENDS X5hImage, X5hReport, TLAPS

-----------------------------------------------------------------------------
(* The test of the __thread runtime.                                       *)

TestPlaces == {"absent", "read", "write", "notify", "wait", "check", "report", "gone"}

ReportPlaces == {"create", "publish", "take1", "take2", "beacon", "ntasks", "state", "name",
                 "item", "derive", "table", "asleep", "halted"}

ReportTypes ==
  /\ rpStorage \in {"own", "shared"} /\ rpPc \in ReportPlaces
  /\ rpTest \in [TestTasks -> TestPlaces]
  /\ rpCell \in [TestTasks \cup {"one"} -> TestTasks \cup {"template"}]
  /\ rpPeers \in BOOLEAN /\ rpNotes \in [TestTasks \cup {"runner"} -> Nat]
  /\ rpFlags \in [TestTasks -> SUBSET {"first", "peer", "readback"}]
  /\ rpFound \in [TestTasks -> SUBSET {"first", "peer", "readback"}]
  /\ rpLate \in BOOLEAN /\ rpVerdict \in {"none", "pass", "fail"}

HasWritten(i) == rpTest[i] \in {"notify", "wait", "check", "report", "gone"}

HasStored(i) == rpTest[i] \in {"report", "gone"}

\* A notification comes from a peer that has written; a task that was not kept
\* waiting has heard one; the flags hold what was found.
HandShake ==
  \A i \in TestTasks :
    /\ rpNotes[i] > 0 => HasWritten(Peer(i))
    /\ rpTest[i] \in {"check", "report", "gone"} /\ "peer" \notin rpFound[i] => HasWritten(Peer(i))
    /\ IF HasStored(i) THEN rpFound[i] \subseteq rpFlags[i] ELSE rpFlags[i] = {}
    /\ "peer" \in rpFound[i] => rpLate

\* With storage per task nothing is found but a wait that timed out.
OwnCells ==
  rpStorage = "own" =>
    \A i \in TestTasks :
      /\ rpCell[i] = IF HasWritten(i) THEN i ELSE "template"
      /\ rpFound[i] \subseteq {"peer"} /\ rpFlags[i] \subseteq rpFound[i]

\* In one shared instance the last writer's value stands: once both have
\* written it never changes, and only one of them can read its own.
SharedCell ==
  rpStorage = "shared" =>
    \A i \in TestTasks :
      HasStored(i) /\ rpFlags[i] = {} => HasWritten(Peer(i)) /\ rpCell["one"] = i

Ended(i) == IF rpTest[i] = "gone" THEN 1 ELSE 0

\* While the runner waits, every end is a notification taken or pending.
EndsCounted ==
  /\ rpPc \in {"create", "publish"} => \A i \in TestTasks \cup {"runner"} : rpNotes[i] = 0
  /\ rpPc = "create" => \A i \in TestTasks : rpTest[i] = "absent"
  /\ rpPc = "publish" => \A i \in TestTasks : rpTest[i] = "read"
  /\ rpPc \in {"create", "publish", "take1", "take2"} =>
       /\ rpVerdict = "none"
       /\ Ended("t0") + Ended("t1") = rpNotes["runner"] + IF rpPc = "take2" THEN 1 ELSE 0

TestInv ==
  /\ ReportTypes /\ HandShake /\ OwnCells /\ SharedCell /\ EndsCounted
  /\ PassMeansOwn /\ FailHasCause

LEMMA TestStarts == ReportInit => TestInv
<1> SUFFICES ASSUME ReportInit PROVE TestInv
  OBVIOUS
<1> USE DEF ReportInit
<1>1. ReportTypes
  BY DEF ReportTypes, TestPlaces, ReportPlaces
<1>2. HandShake /\ OwnCells /\ SharedCell
  BY DEF HandShake, OwnCells, SharedCell, HasWritten, HasStored
<1>3. EndsCounted
  BY DEF EndsCounted, Ended, TestTasks
<1> QED BY <1>1, <1>2, <1>3 DEF TestInv, PassMeansOwn, FailHasCause

\* Two test tasks, each the other's peer.
LEMMA Peers ==
  /\ \A i \in TestTasks : Peer(i) \in TestTasks /\ Peer(i) # i /\ Peer(Peer(i)) = i
  /\ \A i, j \in TestTasks : i # j => j = Peer(i)
  /\ \A i \in TestTasks : i # "runner" /\ i # "one" /\ i # "template"
BY DEF Peer, TestTasks

\* The beacon's report, and what happens to the controller, leave the test alone.
LEMMA ReportQuiet ==
  ASSUME TestInv, UNCHANGED <<rpStorage, testVars>>, rpPc' \in ReportPlaces,
         rpPc' \in {"create", "publish", "take1", "take2"} => rpPc' = rpPc
  PROVE  TestInv'
<1> USE DEF TestInv, testVars
<1>1. ReportTypes'
  BY DEF ReportTypes
<1>2. HandShake' /\ OwnCells' /\ SharedCell'
  BY DEF HandShake, OwnCells, SharedCell, HasWritten, HasStored
<1>3. EndsCounted'
  BY DEF EndsCounted, Ended
<1>4. PassMeansOwn' /\ FailHasCause'
  BY DEF PassMeansOwn, FailHasCause
<1> QED BY <1>1, <1>2, <1>3, <1>4

LEMMA CreateTestsKeeps ==
  ASSUME TestInv, NEW ok \in BOOLEAN, CreateTests(ok)
  PROVE  TestInv'
<1> USE DEF TestInv, CreateTests
<1>1. ReportTypes'
  BY DEF ReportTypes, TestPlaces, ReportPlaces
<1>2. HandShake' /\ OwnCells' /\ SharedCell'
  BY DEF HandShake, OwnCells, SharedCell, HasWritten, HasStored, EndsCounted, ReportTypes, Peer, TestTasks
<1>3. EndsCounted'
  BY DEF EndsCounted, Ended, TestTasks
<1>4. PassMeansOwn' /\ FailHasCause'
  BY DEF PassMeansOwn, FailHasCause, EndsCounted
<1> QED BY <1>1, <1>2, <1>3, <1>4

LEMMA PublishKeeps ==
  ASSUME TestInv, PublishPeers
  PROVE  TestInv'
<1> USE DEF TestInv, PublishPeers
<1>1. ReportTypes'
  BY DEF ReportTypes, ReportPlaces
<1>2. HandShake' /\ OwnCells' /\ SharedCell'
  BY DEF HandShake, OwnCells, SharedCell, HasWritten, HasStored
<1>3. EndsCounted'
  BY DEF EndsCounted, Ended, TestTasks
<1>4. PassMeansOwn' /\ FailHasCause'
  BY DEF PassMeansOwn, FailHasCause
<1> QED BY <1>1, <1>2, <1>3, <1>4

\* The verdict falls when both have stored, or the wait has timed out.
LEMMA RunnerTakesKeeps ==
  ASSUME TestInv, RunnerTakes
  PROVE  TestInv'
<1> USE DEF TestInv
<1>1. /\ UNCHANGED <<rpStorage, rpTest, rpCell, rpPeers, rpFlags, rpFound, rpLate>>
      /\ rpPc \in {"take1", "take2"} /\ rpNotes["runner"] > 0
      /\ rpNotes' = [rpNotes EXCEPT !["runner"] = @ - 1]
      /\ rpPc' = (IF rpPc = "take1" THEN "take2" ELSE "beacon")
      /\ rpVerdict' = (IF rpPc = "take2" THEN Verdict(FALSE) ELSE rpVerdict)
  BY DEF RunnerTakes
<1>2. /\ rpNotes' \in [TestTasks \cup {"runner"} -> Nat]
      /\ rpNotes'["runner"] = rpNotes["runner"] - 1
      /\ \A i \in TestTasks : rpNotes'[i] = rpNotes[i]
  BY <1>1, Peers DEF ReportTypes
<1>3. ReportTypes'
  BY <1>1, <1>2 DEF ReportTypes, ReportPlaces, Verdict
<1>4. HandShake' /\ OwnCells' /\ SharedCell'
  <2>1. HandShake'
    BY <1>1, <1>2, Peers DEF HandShake, HasWritten, HasStored
  <2>2. OwnCells' /\ SharedCell'
    BY <1>1 DEF OwnCells, SharedCell, HasWritten, HasStored
  <2> QED BY <2>1, <2>2
<1>5. EndsCounted'
  <2>1. rpNotes["runner"] \in Nat /\ Ended("t0")' = Ended("t0") /\ Ended("t1")' = Ended("t1")
    BY <1>1 DEF Ended, ReportTypes
  <2>2. CASE rpPc = "take1"
    BY <1>1, <1>2, <2>1, <2>2 DEF EndsCounted
  <2>3. CASE rpPc = "take2"
    BY <1>1, <2>3 DEF EndsCounted
  <2> QED BY <1>1, <2>2, <2>3
<1>6. CASE rpPc = "take1"
  BY <1>1, <1>3, <1>4, <1>5, <1>6 DEF PassMeansOwn, FailHasCause
<1>7. CASE rpPc = "take2"
  <2>1. \A i \in TestTasks : rpTest[i] = "gone"
    <3>1. Ended("t0") + Ended("t1") = rpNotes["runner"] + 1 /\ rpNotes["runner"] \in Nat
      BY <1>7 DEF EndsCounted, ReportTypes
    <3> QED BY <1>1, <3>1 DEF Ended, TestTasks
  <2>2. PassMeansOwn'
    <3>1. CASE rpStorage = "shared" /\ \A i \in TestTasks : rpFlags[i] = {}
      BY <2>1, <3>1 DEF SharedCell, HasStored, TestTasks
    <3> QED BY <1>1, <1>7, <3>1 DEF Verdict, PassMeansOwn, ReportTypes
  <2>3. FailHasCause'
    BY <1>1, <1>7 DEF FailHasCause, Verdict, OwnCells, HandShake, ReportTypes
  <2> QED BY <1>3, <1>4, <1>5, <2>2, <2>3
<1> QED BY <1>1, <1>6, <1>7

LEMMA RunnerTimesOutKeeps ==
  ASSUME TestInv, RunnerTimesOut
  PROVE  TestInv'
<1> USE DEF TestInv, RunnerTimesOut
<1>1. ReportTypes'
  BY DEF ReportTypes, ReportPlaces, Verdict
<1>2. HandShake' /\ OwnCells' /\ SharedCell'
  BY DEF HandShake, OwnCells, SharedCell, HasWritten, HasStored
<1>3. EndsCounted' /\ PassMeansOwn' /\ FailHasCause'
  BY DEF EndsCounted, PassMeansOwn, FailHasCause, Verdict
<1> QED BY <1>1, <1>2, <1>3
\* A step of one test task: what is left to show is the part of the invariant
\* that the step can disturb.
LEMMA TestStep ==
  ASSUME TestInv, NEW i \in TestTasks, NEW to \in TestPlaces, to # "absent",
         rpTest[i] # "absent", UNCHANGED <<rpStorage, rpPc, rpPeers, rpVerdict>>,
         rpTest' = [rpTest EXCEPT ![i] = to],
         rpPc \notin {"create", "publish"},
         rpCell' \in [TestTasks \cup {"one"} -> TestTasks \cup {"template"}],
         rpNotes' \in [TestTasks \cup {"runner"} -> Nat],
         rpFlags' \in [TestTasks -> SUBSET {"first", "peer", "readback"}],
         rpFound' \in [TestTasks -> SUBSET {"first", "peer", "readback"}],
         rpLate' \in BOOLEAN, rpLate => rpLate',
         rpTest[i] # "gone",
         rpNotes'["runner"] = rpNotes["runner"] + IF to = "gone" THEN 1 ELSE 0,
         HandShake', OwnCells', SharedCell'
  PROVE  TestInv'
<1> USE DEF TestInv
<1>1. /\ rpTest'[i] = to /\ \A j \in TestTasks : j # i => rpTest'[j] = rpTest[j]
      /\ rpTest' \in [TestTasks -> TestPlaces]
  BY DEF ReportTypes
<1>2. ReportTypes'
  BY <1>1 DEF ReportTypes
<1>3. EndsCounted'
  <2>1. /\ Ended(i)' = Ended(i) + IF to = "gone" THEN 1 ELSE 0
        /\ \A j \in TestTasks : j # i => Ended(j)' = Ended(j)
    BY <1>1 DEF Ended
  <2>2. \A j \in TestTasks : Ended(j) \in Nat
    BY DEF Ended
  <2>3. Ended("t0")' + Ended("t1")' = Ended("t0") + Ended("t1") + IF to = "gone" THEN 1 ELSE 0
    BY <2>1, <2>2 DEF TestTasks
  <2>4. "t0" \in TestTasks /\ "t1" \in TestTasks /\ rpNotes["runner"] \in Nat
    BY DEF TestTasks, ReportTypes
  <2> QED BY <2>2, <2>3, <2>4 DEF EndsCounted
<1>4. PassMeansOwn' /\ FailHasCause'
  BY DEF PassMeansOwn, FailHasCause
<1> QED BY <1>2, <1>3, <1>4

\* What every step of a test task has in common.
LEMMA TestFrame ==
  ASSUME TestInv, NEW i \in TestTasks, NEW pc \in TestPlaces, TestRuns(i, pc)
  PROVE  /\ rpTest[i] = pc /\ rpPc \notin {"create", "publish"}
         /\ Peer(i) \in TestTasks /\ Peer(i) # i /\ Peer(Peer(i)) = i
         /\ \A k \in TestTasks : k = i \/ k = Peer(i)
         /\ i # "runner" /\ Peer(i) # "runner" /\ i # "one" /\ Peer(i) # "one"
         /\ Peer(i)' = Peer(i)
<1>1. rpTest[i] = pc /\ rpPc \notin {"create", "publish"}
  BY DEF TestRuns
<1>2. Peer(i)' = Peer(i)
  BY DEF Peer
<1> QED BY <1>1, <1>2, Peers

LEMMA TestReadsKeeps ==
  ASSUME TestInv, NEW i \in TestTasks, TestReads(i)
  PROVE  TestInv'
<1> USE DEF TestInv
<1>1. /\ TestRuns(i, "read")
      /\ UNCHANGED <<rpStorage, rpPc, rpCell, rpPeers, rpNotes, rpFlags, rpLate, rpVerdict>>
      /\ rpTest' = [rpTest EXCEPT ![i] = "write"]
      /\ rpFound' = [rpFound EXCEPT ![i] = IF rpCell[Cell(i)] = "template" THEN {} ELSE {"first"}]
  BY DEF TestReads
<1>2. /\ rpTest[i] = "read" /\ rpPc \notin {"create", "publish"}
      /\ \A k \in TestTasks : k # i => k = Peer(i)
      /\ Peer(i) \in TestTasks /\ Peer(i) # i /\ Peer(Peer(i)) = i
  BY <1>1, TestFrame DEF TestPlaces
<1>3. /\ rpTest'[i] = "write" /\ \A k \in TestTasks : k # i => rpTest'[k] = rpTest[k]
      /\ rpFound'[i] \subseteq {"first"} /\ (rpCell[Cell(i)] = "template" => rpFound'[i] = {})
      /\ \A k \in TestTasks : k # i => rpFound'[k] = rpFound[k]
      /\ rpFound' \in [TestTasks -> SUBSET {"first", "peer", "readback"}]
  BY <1>1, <1>2 DEF ReportTypes
<1>4. /\ \A k \in TestTasks : HasWritten(k)' <=> HasWritten(k)
      /\ \A k \in TestTasks : HasStored(k)' <=> HasStored(k)
  BY <1>1, <1>2, <1>3 DEF HasWritten, HasStored
<1>5. HandShake'
  <2>1. ASSUME NEW k \in TestTasks
        PROVE  /\ rpNotes[k] > 0 => HasWritten(Peer(k))'
               /\ rpTest'[k] \in {"check", "report", "gone"} /\ "peer" \notin rpFound'[k]
                    => HasWritten(Peer(k))'
               /\ IF HasStored(k)' THEN rpFound'[k] \subseteq rpFlags[k] ELSE rpFlags[k] = {}
               /\ "peer" \in rpFound'[k] => rpLate
    BY <1>2, <1>3, <1>4, Peers DEF HandShake, HasStored
  <2> QED BY <1>1, <2>1 DEF HandShake
<1>6. OwnCells'
  <2>1. ~HasStored(i) /\ ~HasWritten(i)
    BY <1>2 DEF HasStored, HasWritten
  <2>2. rpStorage = "own" => Cell(i) = i /\ rpCell[i] = "template" /\ rpFlags[i] = {}
    BY <2>1 DEF OwnCells, HandShake, Cell
  <2>3. ASSUME NEW k \in TestTasks, rpStorage = "own"
        PROVE  /\ rpCell[k] = IF HasWritten(k)' THEN k ELSE "template"
               /\ rpFound'[k] \subseteq {"peer"} /\ rpFlags[k] \subseteq rpFound'[k]
    BY <1>3, <1>4, <2>2, <2>3 DEF OwnCells
  <2> QED BY <1>1, <2>3 DEF OwnCells
<1>7. SharedCell'
  <2>1. ASSUME NEW k \in TestTasks, rpStorage = "shared", HasStored(k)', rpFlags[k] = {}
        PROVE  HasWritten(Peer(k))' /\ rpCell["one"] = k
    BY <1>4, <2>1, Peers DEF SharedCell
  <2> QED BY <1>1, <2>1 DEF SharedCell
<1>8. /\ "write" \in TestPlaces /\ rpTest[i] # "absent" /\ rpTest[i] # "gone"
      /\ rpCell' \in [TestTasks \cup {"one"} -> TestTasks \cup {"template"}]
      /\ rpNotes' \in [TestTasks \cup {"runner"} -> Nat] /\ rpLate' \in BOOLEAN
      /\ rpFlags' \in [TestTasks -> SUBSET {"first", "peer", "readback"}]
      /\ rpNotes'["runner"] = rpNotes["runner"] + IF "write" = "gone" THEN 1 ELSE 0
  BY <1>1, <1>2 DEF ReportTypes, TestPlaces
<1> QED BY <1>1, <1>2, <1>3, <1>5, <1>6, <1>7, <1>8, TestStep
\* A task that has stored its findings cannot meet a peer that is still to write.
LEMMA TestWritesKeeps ==
  ASSUME TestInv, NEW i \in TestTasks, TestWrites(i)
  PROVE  TestInv'
<1> USE DEF TestInv
<1>1. /\ TestRuns(i, "write")
      /\ UNCHANGED <<rpStorage, rpPc, rpPeers, rpNotes, rpFlags, rpFound, rpLate, rpVerdict>>
      /\ rpTest' = [rpTest EXCEPT ![i] = "notify"]
      /\ rpCell' = [rpCell EXCEPT ![Cell(i)] = i]
  BY DEF TestWrites
<1>2. /\ rpTest[i] = "write" /\ rpPc \notin {"create", "publish"}
      /\ \A k \in TestTasks : k # i => k = Peer(i)
      /\ Peer(i) \in TestTasks /\ Peer(i) # i /\ Peer(Peer(i)) = i /\ i # "runner" /\ i # "one"
      /\ Peer(i) # "runner"
  BY <1>1, TestFrame DEF TestPlaces
<1>3. /\ rpTest'[i] = "notify" /\ \A k \in TestTasks : k # i => rpTest'[k] = rpTest[k]
      /\ Cell(i) \in TestTasks \cup {"one"} /\ rpCell'[Cell(i)] = i
      /\ \A x \in TestTasks \cup {"one"} : x # Cell(i) => rpCell'[x] = rpCell[x]
      /\ rpCell' \in [TestTasks \cup {"one"} -> TestTasks \cup {"template"}]
  BY <1>1, <1>2 DEF ReportTypes, Cell
<1>4. /\ \A k \in TestTasks : HasWritten(k)' <=> HasWritten(k) \/ k = i
      /\ \A k \in TestTasks : HasStored(k)' <=> HasStored(k)
      /\ ~HasWritten(i) /\ ~HasStored(i)
  BY <1>1, <1>2, <1>3 DEF HasWritten, HasStored
<1>5. HandShake'
  <2>1. ASSUME NEW k \in TestTasks
        PROVE  /\ rpNotes'[k] > 0 => HasWritten(Peer(k))'
               /\ rpTest'[k] \in {"check", "report", "gone"} /\ "peer" \notin rpFound'[k]
                    => HasWritten(Peer(k))'
               /\ IF HasStored(k)' THEN rpFound'[k] \subseteq rpFlags'[k] ELSE rpFlags'[k] = {}
               /\ "peer" \in rpFound'[k] => rpLate'
    BY <1>1, <1>2, <1>3, <1>4, Peers DEF HandShake, HasStored
  <2> QED BY <2>1 DEF HandShake
<1>6. OwnCells'
  <2>1. ASSUME NEW k \in TestTasks, rpStorage = "own"
        PROVE  /\ rpCell'[k] = IF HasWritten(k)' THEN k ELSE "template"
               /\ rpFound'[k] \subseteq {"peer"} /\ rpFlags'[k] \subseteq rpFound'[k]
    BY <1>1, <1>2, <1>3, <1>4, <2>1 DEF OwnCells, Cell
  <2> QED BY <1>1, <2>1 DEF OwnCells
<1>7. SharedCell'
  <2>1. ASSUME NEW k \in TestTasks, rpStorage = "shared", HasStored(k)', rpFlags'[k] = {}
        PROVE  HasWritten(Peer(k))' /\ rpCell'["one"] = k
    BY <1>1, <1>2, <1>3, <1>4, <2>1, Peers DEF SharedCell
  <2> QED BY <1>1, <2>1 DEF SharedCell
<1>8. /\ "notify" \in TestPlaces /\ rpTest[i] # "absent" /\ rpTest[i] # "gone"
      /\ rpLate \in BOOLEAN /\ rpLate' \in BOOLEAN
      /\ rpNotes' \in [TestTasks \cup {"runner"} -> Nat]
      /\ rpFlags' \in [TestTasks -> SUBSET {"first", "peer", "readback"}]
      /\ rpFound' \in [TestTasks -> SUBSET {"first", "peer", "readback"}]
      /\ rpNotes'["runner"] = rpNotes["runner"] + IF "notify" = "gone" THEN 1 ELSE 0
  BY <1>1, <1>2, <1>3 DEF ReportTypes, TestPlaces
<1> QED BY <1>1, <1>2, <1>3, <1>5, <1>6, <1>7, <1>8, TestStep

\* Who is notified can tell that the notifier has written.
LEMMA TestNotifiesKeeps ==
  ASSUME TestInv, NEW i \in TestTasks, TestNotifies(i)
  PROVE  TestInv'
<1> USE DEF TestInv
<1>1. /\ TestRuns(i, "notify")
      /\ UNCHANGED <<rpStorage, rpPc, rpCell, rpPeers, rpFlags, rpFound, rpLate, rpVerdict>>
      /\ rpTest' = [rpTest EXCEPT ![i] = "wait"]
      /\ rpNotes' = IF rpPeers THEN [rpNotes EXCEPT ![Peer(i)] = 1] ELSE rpNotes
  BY DEF TestNotifies
<1>2. /\ rpTest[i] = "notify" /\ rpPc \notin {"create", "publish"}
      /\ \A k \in TestTasks : k # i => k = Peer(i)
      /\ Peer(i) \in TestTasks /\ Peer(i) # i /\ Peer(Peer(i)) = i /\ i # "runner" /\ i # "one"
      /\ Peer(i) # "runner"
  BY <1>1, TestFrame DEF TestPlaces
<1>3. /\ rpTest'[i] = "wait" /\ \A k \in TestTasks : k # i => rpTest'[k] = rpTest[k]
      /\ rpNotes'["runner"] = rpNotes["runner"] /\ rpNotes'[i] = rpNotes[i]
      /\ rpNotes' \in [TestTasks \cup {"runner"} -> Nat]
  BY <1>1, <1>2 DEF ReportTypes
<1>4. /\ \A k \in TestTasks : HasWritten(k)' <=> HasWritten(k)
      /\ \A k \in TestTasks : HasStored(k)' <=> HasStored(k)
      /\ HasWritten(i)
  BY <1>1, <1>2, <1>3 DEF HasWritten, HasStored
<1>5. HandShake'
  <2>1. ASSUME NEW k \in TestTasks
        PROVE  /\ rpNotes'[k] > 0 => HasWritten(Peer(k))'
               /\ rpTest'[k] \in {"check", "report", "gone"} /\ "peer" \notin rpFound'[k]
                    => HasWritten(Peer(k))'
               /\ IF HasStored(k)' THEN rpFound'[k] \subseteq rpFlags'[k] ELSE rpFlags'[k] = {}
               /\ "peer" \in rpFound'[k] => rpLate'
    <3>1. rpNotes'[k] > 0 => HasWritten(Peer(k))'
      <4>1. CASE k = i
        BY <1>2, <1>3, <1>4, <4>1 DEF HandShake
      <4>2. CASE k # i
        BY <1>2, <1>4, <4>2
      <4> QED BY <4>1, <4>2
    <3> QED BY <1>1, <1>2, <1>3, <1>4, <3>1, Peers DEF HandShake, HasStored
  <2> QED BY <2>1 DEF HandShake
<1>6. OwnCells'
  <2>1. ASSUME NEW k \in TestTasks, rpStorage = "own"
        PROVE  /\ rpCell'[k] = IF HasWritten(k)' THEN k ELSE "template"
               /\ rpFound'[k] \subseteq {"peer"} /\ rpFlags'[k] \subseteq rpFound'[k]
    BY <1>1, <1>2, <1>3, <1>4, <2>1 DEF OwnCells
  <2> QED BY <1>1, <2>1 DEF OwnCells
<1>7. SharedCell'
  <2>1. ASSUME NEW k \in TestTasks, rpStorage = "shared", HasStored(k)', rpFlags'[k] = {}
        PROVE  HasWritten(Peer(k))' /\ rpCell'["one"] = k
    BY <1>1, <1>2, <1>3, <1>4, <2>1, Peers DEF SharedCell
  <2> QED BY <1>1, <2>1 DEF SharedCell
<1>8. /\ "wait" \in TestPlaces /\ rpTest[i] # "absent" /\ rpTest[i] # "gone"
      /\ rpLate \in BOOLEAN /\ rpLate' \in BOOLEAN
      /\ rpCell' \in [TestTasks \cup {"one"} -> TestTasks \cup {"template"}]
      /\ rpFlags' \in [TestTasks -> SUBSET {"first", "peer", "readback"}]
      /\ rpFound' \in [TestTasks -> SUBSET {"first", "peer", "readback"}]
      /\ rpNotes'["runner"] = rpNotes["runner"] + IF "wait" = "gone" THEN 1 ELSE 0
  BY <1>1, <1>2, <1>3 DEF ReportTypes, TestPlaces
<1> QED BY <1>1, <1>2, <1>3, <1>5, <1>6, <1>7, <1>8, TestStep

\* A wait ends with the peer's notification, or leaves a finding.
LEMMA TestWaitsKeeps ==
  ASSUME TestInv, NEW i \in TestTasks, NEW timedOut \in BOOLEAN, TestWaits(i, timedOut)
  PROVE  TestInv'
<1> USE DEF TestInv
<1>1. /\ TestRuns(i, "wait")
      /\ UNCHANGED <<rpStorage, rpPc, rpCell, rpPeers, rpFlags, rpVerdict>>
      /\ rpTest' = [rpTest EXCEPT ![i] = "check"]
      /\ timedOut \/ rpNotes[i] > 0
      /\ rpNotes' = [rpNotes EXCEPT ![i] = 0] /\ rpLate' = (rpLate \/ timedOut)
      /\ rpFound' = [rpFound EXCEPT ![i] = IF timedOut THEN @ \cup {"peer"} ELSE @]
  BY DEF TestWaits
<1>2. /\ rpTest[i] = "wait" /\ rpPc \notin {"create", "publish"}
      /\ \A k \in TestTasks : k # i => k = Peer(i)
      /\ Peer(i) \in TestTasks /\ Peer(i) # i /\ Peer(Peer(i)) = i /\ i # "runner" /\ i # "one"
      /\ Peer(i) # "runner"
  BY <1>1, TestFrame DEF TestPlaces
<1>3. /\ rpTest'[i] = "check" /\ \A k \in TestTasks : k # i => rpTest'[k] = rpTest[k]
      /\ rpNotes'["runner"] = rpNotes["runner"] /\ rpNotes'[i] = 0
      /\ \A k \in TestTasks : k # i => rpNotes'[k] = rpNotes[k] /\ rpFound'[k] = rpFound[k]
      /\ rpFound'[i] = IF timedOut THEN rpFound[i] \cup {"peer"} ELSE rpFound[i]
      /\ rpNotes' \in [TestTasks \cup {"runner"} -> Nat]
      /\ rpFound' \in [TestTasks -> SUBSET {"first", "peer", "readback"}]
  BY <1>1, <1>2 DEF ReportTypes
<1>4. /\ \A k \in TestTasks : HasWritten(k)' <=> HasWritten(k)
      /\ \A k \in TestTasks : HasStored(k)' <=> HasStored(k)
      /\ ~HasStored(i) /\ rpFlags[i] = {}
  BY <1>1, <1>2, <1>3 DEF HasWritten, HasStored, HandShake
<1>5. HandShake'
  <2>1. ASSUME NEW k \in TestTasks
        PROVE  /\ rpNotes'[k] > 0 => HasWritten(Peer(k))'
               /\ rpTest'[k] \in {"check", "report", "gone"} /\ "peer" \notin rpFound'[k]
                    => HasWritten(Peer(k))'
               /\ IF HasStored(k)' THEN rpFound'[k] \subseteq rpFlags'[k] ELSE rpFlags'[k] = {}
               /\ "peer" \in rpFound'[k] => rpLate'
    <3>1. CASE k = i
      <4>1. timedOut \/ HasWritten(Peer(i))'
        BY <1>1, <1>2, <1>4 DEF HandShake
      <4>2. "peer" \notin rpFound'[i] => HasWritten(Peer(i))'
        BY <1>3, <4>1
      <4>3. "peer" \in rpFound'[i] => rpLate'
        BY <1>1, <1>3 DEF HandShake
      <4>4. ~HasStored(i)' /\ rpFlags'[i] = {} /\ ~(rpNotes'[i] > 0)
        BY <1>1, <1>3, <1>4
      <4> QED BY <3>1, <4>2, <4>3, <4>4
    <3>2. CASE k # i
      BY <1>1, <1>2, <1>3, <1>4, <3>2, Peers DEF HandShake
    <3> QED BY <3>1, <3>2
  <2> QED BY <2>1 DEF HandShake
<1>6. OwnCells'
  <2>1. ASSUME NEW k \in TestTasks, rpStorage = "own"
        PROVE  /\ rpCell'[k] = IF HasWritten(k)' THEN k ELSE "template"
               /\ rpFound'[k] \subseteq {"peer"} /\ rpFlags'[k] \subseteq rpFound'[k]
    BY <1>1, <1>2, <1>3, <1>4, <2>1 DEF OwnCells
  <2> QED BY <1>1, <2>1 DEF OwnCells
<1>7. SharedCell'
  <2>1. ASSUME NEW k \in TestTasks, rpStorage = "shared", HasStored(k)', rpFlags'[k] = {}
        PROVE  HasWritten(Peer(k))' /\ rpCell'["one"] = k
    BY <1>1, <1>2, <1>3, <1>4, <2>1, Peers DEF SharedCell
  <2> QED BY <1>1, <2>1 DEF SharedCell
<1>8. /\ "check" \in TestPlaces /\ rpTest[i] # "absent" /\ rpTest[i] # "gone"
      /\ rpLate \in BOOLEAN /\ rpLate' \in BOOLEAN
      /\ rpCell' \in [TestTasks \cup {"one"} -> TestTasks \cup {"template"}]
      /\ rpFlags' \in [TestTasks -> SUBSET {"first", "peer", "readback"}]
      /\ rpNotes'["runner"] = rpNotes["runner"] + IF "check" = "gone" THEN 1 ELSE 0
  BY <1>1, <1>2, <1>3 DEF ReportTypes, TestPlaces
<1> QED BY <1>1, <1>2, <1>3, <1>5, <1>6, <1>7, <1>8, TestStep

\* The readback tells a shared instance that the peer has written since.
LEMMA TestStoresKeeps ==
  ASSUME TestInv, NEW i \in TestTasks, TestStores(i)
  PROVE  TestInv'
<1> USE DEF TestInv
<1>1. /\ TestRuns(i, "check")
      /\ UNCHANGED <<rpStorage, rpPc, rpCell, rpPeers, rpNotes, rpFound, rpLate, rpVerdict>>
      /\ rpTest' = [rpTest EXCEPT ![i] = "report"]
      /\ rpFlags' = [rpFlags EXCEPT ![i] = StoredFlags(i)]
  BY DEF TestStores
<1>2. /\ rpTest[i] = "check" /\ rpPc \notin {"create", "publish"}
      /\ \A k \in TestTasks : k # i => k = Peer(i)
      /\ Peer(i) \in TestTasks /\ Peer(i) # i /\ Peer(Peer(i)) = i /\ i # "runner" /\ i # "one"
      /\ Peer(i) # "runner"
  BY <1>1, TestFrame DEF TestPlaces
<1>3. /\ rpTest'[i] = "report" /\ \A k \in TestTasks : k # i => rpTest'[k] = rpTest[k]
      /\ rpFlags'[i] = StoredFlags(i) /\ \A k \in TestTasks : k # i => rpFlags'[k] = rpFlags[k]
      /\ rpFlags' \in [TestTasks -> SUBSET {"first", "peer", "readback"}]
  BY <1>1, <1>2 DEF ReportTypes, StoredFlags
<1>4. /\ \A k \in TestTasks : HasWritten(k)' <=> HasWritten(k)
      /\ \A k \in TestTasks : HasStored(k)' <=> HasStored(k) \/ k = i
      /\ HasWritten(i)
  BY <1>1, <1>2, <1>3 DEF HasWritten, HasStored
<1>5. HandShake'
  <2>1. ASSUME NEW k \in TestTasks
        PROVE  /\ rpNotes'[k] > 0 => HasWritten(Peer(k))'
               /\ rpTest'[k] \in {"check", "report", "gone"} /\ "peer" \notin rpFound'[k]
                    => HasWritten(Peer(k))'
               /\ IF HasStored(k)' THEN rpFound'[k] \subseteq rpFlags'[k] ELSE rpFlags'[k] = {}
               /\ "peer" \in rpFound'[k] => rpLate'
    <3>1. rpTest[k] \in {"check", "report", "gone"} <=> rpTest'[k] \in {"check", "report", "gone"}
      BY <1>2, <1>3
    <3>2. IF HasStored(k)' THEN rpFound'[k] \subseteq rpFlags'[k] ELSE rpFlags'[k] = {}
      BY <1>1, <1>3, <1>4 DEF HandShake, StoredFlags
    <3> QED BY <1>1, <1>4, <3>1, <3>2, Peers DEF HandShake
  <2> QED BY <2>1 DEF HandShake
<1>6. OwnCells'
  <2>1. ASSUME NEW k \in TestTasks, rpStorage = "own"
        PROVE  /\ rpCell'[k] = IF HasWritten(k)' THEN k ELSE "template"
               /\ rpFound'[k] \subseteq {"peer"} /\ rpFlags'[k] \subseteq rpFound'[k]
    BY <1>1, <1>2, <1>3, <1>4, <2>1 DEF OwnCells, StoredFlags, Cell
  <2> QED BY <1>1, <2>1 DEF OwnCells
<1>7. SharedCell'
  <2>1. ASSUME NEW k \in TestTasks, rpStorage = "shared", HasStored(k)', rpFlags'[k] = {}
        PROVE  HasWritten(Peer(k))' /\ rpCell'["one"] = k
    <3>1. CASE k = i
      <4>1. "peer" \notin rpFound[i] /\ rpCell["one"] = i
        BY <1>3, <2>1, <3>1 DEF StoredFlags, Cell
      <4> QED BY <1>1, <1>2, <1>4, <3>1, <4>1, Peers DEF HandShake
    <3>2. CASE k # i
      BY <1>1, <1>3, <1>4, <2>1, <3>2, Peers DEF SharedCell
    <3> QED BY <3>1, <3>2
  <2> QED BY <1>1, <2>1 DEF SharedCell
<1>8. /\ "report" \in TestPlaces /\ rpTest[i] # "absent" /\ rpTest[i] # "gone"
      /\ rpLate \in BOOLEAN /\ rpLate' \in BOOLEAN
      /\ rpCell' \in [TestTasks \cup {"one"} -> TestTasks \cup {"template"}]
      /\ rpNotes' \in [TestTasks \cup {"runner"} -> Nat]
      /\ rpFound' \in [TestTasks -> SUBSET {"first", "peer", "readback"}]
      /\ rpNotes'["runner"] = rpNotes["runner"] + IF "report" = "gone" THEN 1 ELSE 0
  BY <1>1, <1>2, <1>3 DEF ReportTypes, TestPlaces
<1> QED BY <1>1, <1>2, <1>3, <1>5, <1>6, <1>7, <1>8, TestStep

\* The last step of a test task is the runner's notification.
LEMMA TestReportsKeeps ==
  ASSUME TestInv, NEW i \in TestTasks, TestReports(i)
  PROVE  TestInv'
<1> USE DEF TestInv
<1>1. /\ TestRuns(i, "report")
      /\ UNCHANGED <<rpStorage, rpPc, rpCell, rpPeers, rpFlags, rpFound, rpLate, rpVerdict>>
      /\ rpTest' = [rpTest EXCEPT ![i] = "gone"]
      /\ rpNotes' = [rpNotes EXCEPT !["runner"] = @ + 1]
  BY DEF TestReports
<1>2. /\ rpTest[i] = "report" /\ rpPc \notin {"create", "publish"}
      /\ \A k \in TestTasks : k # i => k = Peer(i)
      /\ Peer(i) \in TestTasks /\ Peer(i) # i /\ Peer(Peer(i)) = i /\ i # "runner" /\ i # "one"
      /\ Peer(i) # "runner"
  BY <1>1, TestFrame DEF TestPlaces
<1>3. /\ rpTest'[i] = "gone" /\ \A k \in TestTasks : k # i => rpTest'[k] = rpTest[k]
      /\ rpNotes'["runner"] = rpNotes["runner"] + 1
      /\ \A k \in TestTasks : rpNotes'[k] = rpNotes[k]
      /\ rpNotes' \in [TestTasks \cup {"runner"} -> Nat]
  BY <1>1, <1>2, Peers DEF ReportTypes
<1>4. /\ \A k \in TestTasks : HasWritten(k)' <=> HasWritten(k)
      /\ \A k \in TestTasks : HasStored(k)' <=> HasStored(k)
      /\ \A k \in TestTasks : rpTest[k] \in {"check", "report", "gone"}
                               <=> rpTest'[k] \in {"check", "report", "gone"}
  BY <1>1, <1>2, <1>3 DEF HasWritten, HasStored
<1>5. HandShake'
  <2>1. ASSUME NEW k \in TestTasks
        PROVE  /\ rpNotes'[k] > 0 => HasWritten(Peer(k))'
               /\ rpTest'[k] \in {"check", "report", "gone"} /\ "peer" \notin rpFound'[k]
                    => HasWritten(Peer(k))'
               /\ IF HasStored(k)' THEN rpFound'[k] \subseteq rpFlags'[k] ELSE rpFlags'[k] = {}
               /\ "peer" \in rpFound'[k] => rpLate'
    BY <1>1, <1>3, <1>4, Peers DEF HandShake
  <2> QED BY <2>1 DEF HandShake
<1>6. OwnCells'
  <2>1. ASSUME NEW k \in TestTasks, rpStorage = "own"
        PROVE  /\ rpCell'[k] = IF HasWritten(k)' THEN k ELSE "template"
               /\ rpFound'[k] \subseteq {"peer"} /\ rpFlags'[k] \subseteq rpFound'[k]
    BY <1>1, <1>2, <1>3, <1>4, <2>1 DEF OwnCells
  <2> QED BY <1>1, <2>1 DEF OwnCells
<1>7. SharedCell'
  <2>1. ASSUME NEW k \in TestTasks, rpStorage = "shared", HasStored(k)', rpFlags'[k] = {}
        PROVE  HasWritten(Peer(k))' /\ rpCell'["one"] = k
    BY <1>1, <1>2, <1>3, <1>4, <2>1, Peers DEF SharedCell
  <2> QED BY <1>1, <2>1 DEF SharedCell
<1>8. /\ "gone" \in TestPlaces /\ rpTest[i] # "absent" /\ rpTest[i] # "gone"
      /\ rpLate \in BOOLEAN /\ rpLate' \in BOOLEAN
      /\ rpCell' \in [TestTasks \cup {"one"} -> TestTasks \cup {"template"}]
      /\ rpFlags' \in [TestTasks -> SUBSET {"first", "peer", "readback"}]
      /\ rpFound' \in [TestTasks -> SUBSET {"first", "peer", "readback"}]
      /\ rpNotes'["runner"] = rpNotes["runner"] + IF "gone" = "gone" THEN 1 ELSE 0
  BY <1>1, <1>2, <1>3 DEF ReportTypes, TestPlaces
<1> QED BY <1>1, <1>2, <1>3, <1>5, <1>6, <1>7, <1>8, TestStep
LEMMA ReportKeepsTest == TestInv /\ [ReportNext]_rpVars => TestInv'
<1> SUFFICES ASSUME TestInv, [ReportNext]_rpVars PROVE TestInv'
  OBVIOUS
<1>1. ASSUME NEW ok \in BOOLEAN, CreateTests(ok) PROVE TestInv'
  BY <1>1, CreateTestsKeeps
<1>2. CASE PublishPeers \/ RunnerTakes \/ RunnerTimesOut
  BY <1>2, PublishKeeps, RunnerTakesKeeps, RunnerTimesOutKeeps
<1>3. ASSUME NEW i \in TestTasks,
             \/ TestReads(i) \/ TestWrites(i) \/ TestNotifies(i) \/ TestStores(i) \/ TestReports(i)
             \/ \E timedOut \in BOOLEAN : TestWaits(i, timedOut)
      PROVE  TestInv'
  BY <1>3, TestReadsKeeps, TestWritesKeeps, TestNotifiesKeeps, TestWaitsKeeps, TestStoresKeeps,
     TestReportsKeeps
<1>4. CASE BeaconSteps
  BY <1>4, ReportQuiet DEF BeaconSteps, BeaconLine, PutNtasks, PutState, PutNameChar, PutPriority,
     PutItem, PutList, PutTable, Says, ProbeStart, ReportPlaces
<1>5. CASE Faults \/ Wakes \/ StashController \/ DamageController \/ UNCHANGED rpVars
  <2>1. rpPc \in ReportPlaces
    BY DEF TestInv, ReportTypes
  <2>2. UNCHANGED <<rpStorage, testVars>>
    BY <1>5 DEF Faults, Wakes, StashController, DamageController, rpVars, testVars
  <2>3. rpPc' = rpPc \/ rpPc' \in {"halted", "beacon"}
    BY <1>5 DEF Faults, Wakes, StashController, DamageController, rpVars
  <2> QED BY <2>1, <2>2, <2>3, ReportQuiet DEF ReportPlaces
<1> QED BY <1>1, <1>2, <1>3, <1>4, <1>5 DEF ReportNext

-----------------------------------------------------------------------------
(* The words that survive a fault.                                         *)

\* The count of tasks goes out before the controller is read, the words of its
\* list item before the list is derived; the controller is lost only while the
\* beacon sleeps.
WireInv ==
  /\ rpPc \in {"state", "name", "item", "derive", "table", "halted", "asleep"} => "ntasks" \in rpWire
  /\ rpPc = "derive" => "item" \in rpWire
  /\ rpPc = "halted" /\ rpCtl = "live" => "item" \in rpWire

LEMMA ReportKeepsWire == WireInv /\ [ReportNext]_rpVars => WireInv'
<1> SUFFICES ASSUME WireInv, [ReportNext]_rpVars PROVE WireInv'
  OBVIOUS
<1>1. ASSUME NEW ok \in BOOLEAN, CreateTests(ok) PROVE WireInv'
  BY <1>1 DEF CreateTests, WireInv, probeVars
<1>2. CASE PublishPeers \/ RunnerTakes \/ RunnerTimesOut
  BY <1>2 DEF PublishPeers, RunnerTakes, RunnerTimesOut, WireInv, probeVars
<1>3. ASSUME NEW i \in TestTasks,
             \/ TestReads(i) \/ TestWrites(i) \/ TestNotifies(i) \/ TestStores(i) \/ TestReports(i)
             \/ \E timedOut \in BOOLEAN : TestWaits(i, timedOut)
      PROVE  WireInv'
  BY <1>3 DEF TestReads, TestWrites, TestNotifies, TestStores, TestReports, TestWaits, WireInv,
     probeVars
<1>4. CASE BeaconSteps
  <2>1. CASE BeaconLine \/ PutNtasks \/ PutState \/ PutNameChar
    BY <2>1 DEF BeaconLine, PutNtasks, PutState, PutNameChar, Says, ProbeStart, WireInv
  <2>2. CASE PutPriority \/ PutItem \/ PutList \/ PutTable
    BY <2>2 DEF PutPriority, PutItem, PutList, PutTable, Says, ItemOrder, WireInv
  <2> QED BY <1>4, <2>1, <2>2 DEF BeaconSteps
<1>5. CASE Faults \/ Wakes
  BY <1>5 DEF Faults, Wakes, WireInv, probeVars
<1>6. CASE StashController \/ DamageController \/ UNCHANGED rpVars
  BY <1>6 DEF StashController, DamageController, WireInv, rpVars
<1> QED BY <1>1, <1>2, <1>3, <1>4, <1>5, <1>6 DEF ReportNext

\* Each thing a reader of the report concludes from it is so, for every number
\* of tasks, length of name and period of the task table: PASS means storage
\* per task, FAIL has a cause, and what a fault cuts short has already said how
\* many tasks there are and what the controller's list item holds
\* (diag_run_tls_selftest, diag_put_controller_probe).
THEOREM ReportAlwaysTells == ReportInit /\ [][ReportNext]_rpVars => []ReportTells
<1>1. ReportInit => WireInv
  BY DEF ReportInit, WireInv
<1>2. TestInv /\ WireInv => ReportTells
  BY DEF TestInv, WireInv, ReportTells, NtasksSurvives, ItemSurvives
<1> QED BY <1>1, <1>2, TestStarts, ReportKeepsTest, ReportKeepsWire, PTL
-----------------------------------------------------------------------------
(* What the silence of each reporter means.                                *)

TaskStates == {"absent", "idle", "ready", "busy", "gone"}

ImageTypes ==
  /\ imMain \in {"vectors", "launcher", "beacon", "running", "stuck"}
  /\ imVectors \in BOOLEAN
  /\ imLaunch \in {"network", "wait", "endpoints", "controller", "join", "halted"}
  /\ imTask \in [ImTasks -> TaskStates] /\ imWake \in [ImTasks -> Nat]
  /\ imDead \in {"no", "stuck", "fault", "overflow", "locked"}
  /\ imNow \in Nat /\ imBeaconAge \in Nat /\ imVdevAge \in Nat
  /\ imHbStart \in Nat /\ imHbSent \in Nat /\ imHbWork \in 0 .. WorkTicks
  /\ imHbLate \in BOOLEAN

\* How far the image is: nothing runs before main() has finished, a reporter is
\* created once and never halts.
ImageStages ==
  /\ imMain # "running" => \A t \in ImTasks \ {"launcher"} : imTask[t] = "absent"
  /\ \A t \in {"beacon", "vdev_hb", "si_hb"} : imTask[t] # "busy"
  /\ imTask["beacon"] # "gone" /\ imTask["si_hb"] # "gone"
  /\ imLaunch = "network" => imTask["vdev_hb"] = "absent"
  /\ imLaunch \in {"network", "wait", "endpoints"} => imTask["si_hb"] = "absent"
  /\ imTask["si_hb"] = "absent" => imHbSent = 0 /\ imHbWork = 0
  /\ imMain = "stuck" <=> imDead = "stuck"
  /\ imDead # "no" => imMain \in {"running", "stuck"}

\* A reporter's age is what has gone of its delay.
Punctual(t, age, period) ==
  /\ imTask[t] = "idle" => imWake[t] \in Nat \ {0} /\ imWake[t] + age = period
  /\ imTask[t] = "ready" => age <= period

\* Every fault but a locked scheduler is named as it happens.
Named ==
  /\ imDead = "fault" /\ imVectors => "exception" \in imSaid
  /\ imDead = "overflow" => "overflow" \in imSaid

\* A heartbeat wakes when it is due, and is late by no more than its own work.
OnTime ==
  /\ imTask["si_hb"] = "idle" =>
       /\ imHbWork = 0 /\ imWake["si_hb"] # 0
       /\ imNow + imWake["si_hb"] = imHbStart + (imHbSent + 1) * HbPeriod
  /\ imTask["si_hb"] = "ready" => imNow <= imHbStart + (imHbSent + 1) * HbPeriod + imHbWork

ImageInv ==
  /\ ImageTypes /\ ImageStages /\ Named
  /\ imDead = "no" => Punctual("beacon", imBeaconAge, BeaconPeriod)
  /\ imDead = "no" => Punctual("vdev_hb", imVdevAge, VdevPeriod)
  /\ imTask["beacon"] = "absent" => imBeaconAge = 0
  /\ imDead = "no" /\ ~imHbLate => OnTime
LEMMA ImageStarts == ImageInit => ImageInv
<1> SUFFICES ASSUME ImageInit PROVE ImageInv
  OBVIOUS
<1> USE DEF ImageInit
<1>1. WorkTicks \in Nat
  BY ImageAssumption DEF ImageAssumption
<1>2. ImageTypes
  <2>1. imTask \in [ImTasks -> TaskStates] /\ imWake \in [ImTasks -> Nat]
    BY DEF TaskStates
  <2>2. imHbWork \in 0 .. WorkTicks
    BY <1>1
  <2> QED BY <2>1, <2>2 DEF ImageTypes
<1>3. ImageStages
  BY DEF ImageStages, ImTasks
<1>4. imTask["beacon"] = "absent" /\ imTask["vdev_hb"] = "absent" /\ imTask["si_hb"] = "absent"
  BY DEF ImTasks
<1> QED BY <1>2, <1>3, <1>4 DEF ImageInv, Named, Punctual, OnTime

\* A step that neither lets time pass nor concerns a reporter that waits or is
\* ready.
LEMMA ReportersRest ==
  ASSUME ImageInv, UNCHANGED <<clockVars, imWake>>,
         \A t \in {"beacon", "vdev_hb", "si_hb"} :
           imTask'[t] = imTask[t] \/ imTask'[t] \notin {"idle", "ready"},
         imTask'["beacon"] = imTask["beacon"],
         imDead' = "no" => imDead = "no", ImageTypes', ImageStages', Named'
  PROVE  ImageInv'
<1> USE DEF ImageInv, clockVars
<1>1. imDead' = "no" => Punctual("beacon", imBeaconAge, BeaconPeriod)'
  BY DEF Punctual
<1>2. imDead' = "no" => Punctual("vdev_hb", imVdevAge, VdevPeriod)'
  BY DEF Punctual
<1>3. imDead' = "no" /\ ~imHbLate' => OnTime'
  BY DEF OnTime
<1>4. imTask'["beacon"] = "absent" => imBeaconAge' = 0
  OBVIOUS
<1> QED BY <1>1, <1>2, <1>3, <1>4

LEMMA InstallVectorsKeeps ==
  ASSUME ImageInv, NEW ok \in BOOLEAN, InstallVectors(ok)
  PROVE  ImageInv'
<1> USE DEF ImageInv
<1>1. UNCHANGED <<clockVars, imWake, imTask, imDead>>
  BY DEF InstallVectors
<1>2. ImageTypes'
  BY <1>1 DEF InstallVectors, ImageTypes, clockVars
<1>3. ImageStages' /\ Named'
  BY <1>1 DEF InstallVectors, ImageStages, Named, clockVars
<1> QED BY <1>1, <1>2, <1>3, ReportersRest

LEMMA CreateLauncherKeeps ==
  ASSUME ImageInv, NEW ok \in BOOLEAN, CreateLauncher(ok)
  PROVE  ImageInv'
<1> USE DEF ImageInv
<1>1. /\ UNCHANGED <<clockVars, imWake, imVectors, imLaunch>>
      /\ imTask' \in [ImTasks -> TaskStates]
      /\ \A t \in ImTasks \ {"launcher"} : imTask'[t] = imTask[t]
      /\ imMain = "launcher" /\ imDead = "no"
  BY DEF CreateLauncher, ImSet, ImageTypes, ImageStages, ImTasks, TaskStates
<1>2. ImageTypes'
  BY <1>1 DEF CreateLauncher, ImageTypes, clockVars
<1>3. {"beacon", "vdev_hb", "si_hb"} \subseteq ImTasks \ {"launcher"}
  BY DEF ImTasks
<1>4. ImageStages' /\ Named'
  BY <1>1, <1>3 DEF CreateLauncher, ImageStages, Named, clockVars
<1> QED BY <1>1, <1>2, <1>3, <1>4, ReportersRest

\* A reporter is punctual from its start: the beacon is ready at once.
LEMMA StartBeaconKeeps ==
  ASSUME ImageInv, NEW ok \in BOOLEAN, StartBeacon(ok)
  PROVE  ImageInv'
<1> USE DEF ImageInv
<1>1. /\ UNCHANGED <<clockVars, imWake, imDead>>
      /\ \A t \in ImTasks \ {"beacon"} : imTask'[t] = imTask[t]
      /\ imTask'["beacon"] = (IF ok THEN "ready" ELSE imTask["beacon"])
      /\ imTask["beacon"] = "absent"
  BY DEF StartBeacon, ImSet, ImageTypes, ImageStages, ImTasks
<1>2. ImageTypes'
  <2>1. imTask' \in [ImTasks -> TaskStates]
    BY DEF StartBeacon, ImSet, ImageTypes, TaskStates
  <2> QED BY <1>1, <2>1 DEF StartBeacon, ImageTypes, clockVars
<1>3. ImageStages' /\ Named'
  BY <1>1 DEF StartBeacon, ImageTypes, ImTasks, ImageStages, Named, clockVars
<1>4. imBeaconAge' = 0 /\ BeaconPeriod \in Nat
  BY <1>1, ImageAssumption DEF clockVars, ImageAssumption
<1>5. Punctual("beacon", imBeaconAge, BeaconPeriod)'
  BY <1>1, <1>4 DEF Punctual
<1>6. imDead' = "no" => Punctual("vdev_hb", imVdevAge, VdevPeriod)'
  BY <1>1 DEF Punctual, ImTasks, clockVars
<1>7. imDead' = "no" /\ ~imHbLate' => OnTime'
  BY <1>1 DEF OnTime, ImTasks, clockVars
<1> QED BY <1>2, <1>3, <1>4, <1>5, <1>6, <1>7

LEMMA NoPlatformKeeps ==
  ASSUME ImageInv, NoPlatform
  PROVE  ImageInv'
<1> USE DEF ImageInv
<1>1. /\ UNCHANGED <<clockVars, imWake, imDead>>
      /\ \A t \in {"beacon", "vdev_hb", "si_hb"} : imTask'[t] = imTask[t]
  BY DEF NoPlatform, LaunchOnly, ImageTypes, ImTasks
<1>2. ImageTypes'
  BY <1>1 DEF NoPlatform, Launch, LaunchOnly, ImageTypes, ImTasks, TaskStates, clockVars
<1>3. ImageStages' /\ Named'
  BY <1>1 DEF NoPlatform, Launch, LaunchOnly, ImRuns, ImageTypes, ImTasks, ImageStages, Named, clockVars
<1> QED BY <1>1, <1>2, <1>3, ReportersRest

LEMMA BeginWaitKeeps ==
  ASSUME ImageInv, NEW created \in BOOLEAN, BeginWait(created)
  PROVE  ImageInv'
<1> USE DEF ImageInv
<1>1. /\ UNCHANGED <<imMain, imVectors, imDead, imSaid, imNow, imBeaconAge, imHbStart, imHbSent,
                     imHbWork, imHbLate>>
      /\ imTask'["vdev_hb"] = (IF created THEN "idle" ELSE "absent")
      /\ imTask'["beacon"] = imTask["beacon"] /\ imTask'["si_hb"] = imTask["si_hb"]
      /\ imWake'["vdev_hb"] = VdevPeriod /\ imVdevAge' = 0
      /\ \A t \in ImTasks \ {"vdev_hb"} : imWake'[t] = imWake[t]
  BY DEF BeginWait, LaunchOnly, ImageTypes, ImTasks
<1>2. VdevPeriod \in Nat \ {0}
  BY ImageAssumption DEF ImageAssumption
<1>3. ImageTypes'
  <2>1. imTask' \in [ImTasks -> TaskStates] /\ imWake' \in [ImTasks -> Nat]
    BY <1>2 DEF BeginWait, ImageTypes, TaskStates
  <2>2. imLaunch' = "wait" /\ imHbSent' = imHbSent
    BY DEF BeginWait, Launch
  <2> QED BY <1>1, <2>1, <2>2 DEF ImageTypes
<1>4. ImageStages' /\ Named'
  BY <1>1 DEF BeginWait, Launch, LaunchOnly, ImRuns, ImageTypes, ImTasks, ImageStages, Named
<1>5. Punctual("vdev_hb", imVdevAge, VdevPeriod)'
  BY <1>1, <1>2 DEF Punctual
<1>6. imDead' = "no" => Punctual("beacon", imBeaconAge, BeaconPeriod)'
  BY <1>1 DEF Punctual, ImTasks
<1>7. imDead' = "no" /\ ~imHbLate' => OnTime'
  BY <1>1 DEF OnTime, ImTasks
<1> QED BY <1>1, <1>3, <1>4, <1>5, <1>6, <1>7

LEMMA EndWaitKeeps ==
  ASSUME ImageInv, EndWait
  PROVE  ImageInv'
<1> USE DEF ImageInv
<1>1. /\ UNCHANGED <<clockVars, imWake, imDead>>
      /\ imTask'["vdev_hb"] \notin {"idle", "ready"}
      /\ imTask'["beacon"] = imTask["beacon"] /\ imTask'["si_hb"] = imTask["si_hb"]
  BY DEF EndWait, LaunchOnly, ImageTypes, ImTasks
<1>2. ImageTypes'
  BY <1>1 DEF EndWait, Launch, LaunchOnly, ImageTypes, ImTasks, TaskStates, clockVars
<1>3. ImageStages' /\ Named'
  BY <1>1 DEF EndWait, Launch, LaunchOnly, ImRuns, ImageTypes, ImTasks, ImageStages, Named, clockVars
<1> QED BY <1>1, <1>2, <1>3, ReportersRest

\* The heartbeat's first deadline is one period after its start.
LEMMA CreateEndpointsKeeps ==
  ASSUME ImageInv, NEW ok \in BOOLEAN, NEW hb \in BOOLEAN, CreateEndpoints(ok, hb)
  PROVE  ImageInv'
<1> USE DEF ImageInv
<1>1. /\ UNCHANGED <<imMain, imVectors, imDead, imSaid, imNow, imBeaconAge, imVdevAge, imHbSent,
                     imHbWork, imHbLate>>
      /\ imTask'["si_hb"] \in {"idle", "absent"}
      /\ imTask'["beacon"] = imTask["beacon"] /\ imTask'["vdev_hb"] = imTask["vdev_hb"]
      /\ imWake'["si_hb"] = HbPeriod /\ imHbStart' = imNow
      /\ \A t \in ImTasks \ {"si_hb"} : imWake'[t] = imWake[t]
  BY DEF CreateEndpoints, LaunchOnly, ImageTypes, ImTasks
<1>2. HbPeriod \in Nat \ {0}
  BY ImageAssumption DEF ImageAssumption
<1>3. imHbSent = 0 /\ imHbWork = 0
  BY DEF CreateEndpoints, Launch, ImageStages
<1>4. ImageTypes'
  BY <1>1, <1>2 DEF CreateEndpoints, Launch, LaunchOnly, ImageTypes, ImTasks, TaskStates
<1>5. ImageStages' /\ Named'
  BY <1>1, <1>3 DEF CreateEndpoints, Launch, LaunchOnly, ImRuns, ImageTypes, ImTasks, ImageStages, Named
<1>6. OnTime'
  <2>1. (imHbSent' + 1) * HbPeriod = HbPeriod
    BY <1>1, <1>2, <1>3
  <2> QED BY <1>1, <1>2, <1>3, <2>1 DEF OnTime, ImageTypes
<1>7. imDead' = "no" => Punctual("beacon", imBeaconAge, BeaconPeriod)'
  BY <1>1 DEF Punctual, ImTasks
<1>8. imDead' = "no" => Punctual("vdev_hb", imVdevAge, VdevPeriod)'
  BY <1>1 DEF Punctual, ImTasks
<1> QED BY <1>1, <1>4, <1>5, <1>6, <1>7, <1>8
LEMMA StartControllerKeeps ==
  ASSUME ImageInv, StartController
  PROVE  ImageInv'
<1> USE DEF ImageInv
<1>1. /\ UNCHANGED <<clockVars, imWake, imDead>>
      /\ \A t \in {"beacon", "vdev_hb", "si_hb"} : imTask'[t] = imTask[t]
      /\ imTask' \in [ImTasks -> TaskStates]
  BY DEF StartController, LaunchOnly, ImageTypes, ImTasks, TaskStates
<1>2. ImageTypes'
  BY <1>1 DEF StartController, Launch, LaunchOnly, ImageTypes, clockVars
<1>3. ImageStages' /\ Named'
  BY <1>1 DEF StartController, Launch, LaunchOnly, ImRuns, ImTasks, ImageStages, Named, clockVars
<1> QED BY <1>1, <1>2, <1>3, ReportersRest

\* Workers compute, rest, halt, fault or lock the scheduler; they are no reporters.
LEMMA WorkerKeeps ==
  ASSUME ImageInv, NEW t \in Workers,
         Works(t) \/ Rests(t) \/ Halts(t) \/ Exception(t) \/ Overflows(t) \/ LocksScheduler(t)
  PROVE  ImageInv'
<1> USE DEF ImageInv
<1>1. /\ UNCHANGED <<clockVars, imWake, imMain, imVectors, imDriverOk>>
      /\ imMain = "running" /\ imDead = "no"
      /\ imLaunch' \in {imLaunch, "halted"}
      /\ imTask' = imTask \/ \E state \in {"idle", "ready", "busy"} : ImSet(t, state)
      /\ imDead' \in {"no", "fault", "overflow", "locked"}
  BY DEF Works, Rests, Halts, Exception, Overflows, LocksScheduler, ImRuns, LaunchOnly
<1>2. /\ imTask' \in [ImTasks -> TaskStates]
      /\ \A r \in {"beacon", "vdev_hb", "si_hb"} : imTask'[r] = imTask[r]
  <2>1. t \in ImTasks /\ t \notin {"beacon", "vdev_hb", "si_hb"}
    BY DEF Workers, ImTasks
  <2>2. {"beacon", "vdev_hb", "si_hb"} \subseteq ImTasks
    BY DEF ImTasks
  <2> QED BY <1>1, <2>1, <2>2 DEF ImSet, ImageTypes, TaskStates
<1>3. ImageTypes'
  BY <1>1, <1>2 DEF ImageTypes, clockVars
<1>4. ImageStages'
  BY <1>1, <1>2 DEF ImageStages, clockVars
<1>5. Named'
  BY <1>1 DEF Named, Works, Rests, Halts, Exception, Overflows, LocksScheduler, LaunchOnly
<1> QED BY <1>1, <1>2, <1>3, <1>4, <1>5, ReportersRest

\* A line resets the age of its reporter.
LEMMA BeaconPrintsKeeps ==
  ASSUME ImageInv, BeaconPrints
  PROVE  ImageInv'
<1> USE DEF ImageInv
<1>1. /\ UNCHANGED <<imMain, imVectors, imLaunch, imDriverOk, imDead, imSaid, imNow, imVdevAge,
                     imHbStart, imHbSent, imHbWork, imHbLate>>
      /\ imTask'["beacon"] = "idle" /\ imTask["beacon"] = "ready" /\ imMain = "running"
      /\ \A t \in ImTasks \ {"beacon"} : imTask'[t] = imTask[t] /\ imWake'[t] = imWake[t]
      /\ imWake'["beacon"] = BeaconPeriod /\ imBeaconAge' = 0
  BY DEF BeaconPrints, ImRuns, ImSet, ImageTypes, ImTasks
<1>2. BeaconPeriod \in Nat \ {0} /\ "vdev_hb" \in ImTasks /\ "si_hb" \in ImTasks
  BY ImageAssumption DEF ImageAssumption, ImTasks
<1>3. imTask' \in [ImTasks -> TaskStates] /\ imWake' \in [ImTasks -> Nat]
  BY <1>2 DEF BeaconPrints, ImSet, ImageTypes, TaskStates
<1>4. ImageTypes'
  BY <1>1, <1>3 DEF ImageTypes
<1>5. ImageStages' /\ Named'
  BY <1>1, <1>2 DEF ImageStages, Named
<1>6. Punctual("beacon", imBeaconAge, BeaconPeriod)'
  BY <1>1, <1>2 DEF Punctual
<1>7. imDead' = "no" => Punctual("vdev_hb", imVdevAge, VdevPeriod)'
  BY <1>1, <1>2 DEF Punctual
<1>8. imDead' = "no" /\ ~imHbLate' => OnTime'
  BY <1>1, <1>2 DEF OnTime
<1> QED BY <1>1, <1>4, <1>5, <1>6, <1>7, <1>8

LEMMA VdevPrintsKeeps ==
  ASSUME ImageInv, VdevPrints
  PROVE  ImageInv'
<1> USE DEF ImageInv
<1>1. /\ UNCHANGED <<imMain, imVectors, imLaunch, imDriverOk, imDead, imSaid, imNow, imBeaconAge,
                     imHbStart, imHbSent, imHbWork, imHbLate>>
      /\ imTask'["vdev_hb"] = "idle" /\ imTask["vdev_hb"] = "ready" /\ imMain = "running"
      /\ \A t \in ImTasks \ {"vdev_hb"} : imTask'[t] = imTask[t] /\ imWake'[t] = imWake[t]
      /\ imWake'["vdev_hb"] = VdevPeriod /\ imVdevAge' = 0
  BY DEF VdevPrints, LaunchOnly, ImRuns, ImSet, ImageTypes, ImTasks
<1>2. VdevPeriod \in Nat \ {0} /\ "beacon" \in ImTasks /\ "si_hb" \in ImTasks
  BY ImageAssumption DEF ImageAssumption, ImTasks
<1>3. imTask' \in [ImTasks -> TaskStates] /\ imWake' \in [ImTasks -> Nat]
  BY <1>2 DEF VdevPrints, ImSet, ImageTypes, TaskStates
<1>4. ImageTypes'
  BY <1>1, <1>3 DEF ImageTypes
<1>5. ImageStages' /\ Named'
  BY <1>1, <1>2 DEF ImageStages, Named
<1>6. Punctual("vdev_hb", imVdevAge, VdevPeriod)'
  BY <1>1, <1>2 DEF Punctual
<1>7. imDead' = "no" => Punctual("beacon", imBeaconAge, BeaconPeriod)'
  BY <1>1, <1>2 DEF Punctual
<1>8. imDead' = "no" /\ ~imHbLate' => OnTime'
  BY <1>1, <1>2 DEF OnTime
<1> QED BY <1>1, <1>2, <1>4, <1>5, <1>6, <1>7, <1>8

LEMMA NextDue ==
  ASSUME NEW n \in Nat, NEW p \in Nat
  PROVE  (n + 1) * p \in Nat /\ (n + 2) * p = (n + 1) * p + p
OBVIOUS

\* The work of one heartbeat is shorter than a period, so the next deadline is
\* still ahead when the line has been sent.
LEMMA HeartbeatSendsKeeps ==
  ASSUME ImageInv, HeartbeatSends
  PROVE  ImageInv'
<1> USE DEF ImageInv
<1>1. /\ UNCHANGED <<imMain, imVectors, imLaunch, imDriverOk, imDead, imSaid, imNow, imBeaconAge,
                     imVdevAge, imHbStart, imHbLate>>
      /\ imTask'["si_hb"] \in {"idle", "ready"} /\ imTask["si_hb"] = "ready" /\ imMain = "running"
      /\ imTask'["si_hb"] = (IF NextHeartbeat = 0 THEN "ready" ELSE "idle")
      /\ \A t \in ImTasks \ {"si_hb"} : imTask'[t] = imTask[t] /\ imWake'[t] = imWake[t]
      /\ imWake'["si_hb"] = NextHeartbeat /\ imHbSent' = imHbSent + 1 /\ imHbWork' = 0
  BY DEF HeartbeatSends, LaunchOnly, ImRuns, ImSet, ImageTypes, ImTasks
<1>2. HbPeriod \in Nat \ {0} /\ WorkTicks \in Nat /\ WorkTicks < HbPeriod
      /\ "beacon" \in ImTasks /\ "vdev_hb" \in ImTasks
  BY ImageAssumption DEF ImageAssumption, ImTasks
<1>3. imNow \in Nat /\ imHbStart \in Nat /\ imHbSent \in Nat /\ imHbWork \in Nat /\ imHbWork <= WorkTicks
  <2>1. imHbWork \in 0 .. WorkTicks
    BY DEF ImageTypes
  <2>2. imHbWork \in Nat /\ imHbWork <= WorkTicks
    BY <1>2, <2>1
  <2> QED BY <2>2 DEF ImageTypes
<1> DEFINE this == (imHbSent + 1) * HbPeriod
           next == (imHbSent + 2) * HbPeriod
<1>4. this \in Nat /\ next = this + HbPeriod
  BY <1>2, <1>3, NextDue
<1>5. NextHeartbeat = (IF imHbStart + next > imNow THEN (imHbStart + next) - imNow ELSE 0)
  BY DEF NextHeartbeat
<1>6. (imHbSent' + 1) * HbPeriod = next
  <2>1. imHbSent' + 1 = imHbSent + 2
    BY <1>1, <1>3
  <2> QED BY <2>1
<1>7. imDead' = "no" /\ ~imHbLate' => imNow <= imHbStart + this + imHbWork
  BY <1>1 DEF OnTime
<1> HIDE DEF this, next
<1>8. NextHeartbeat \in Nat
  BY <1>2, <1>3, <1>4, <1>5
<1>9. imTask' \in [ImTasks -> TaskStates] /\ imWake' \in [ImTasks -> Nat]
  BY <1>8 DEF HeartbeatSends, ImSet, ImageTypes, TaskStates
<1>10. imHbSent' \in Nat /\ imHbWork' \in 0 .. WorkTicks
  BY <1>1, <1>2, <1>3
<1>11. ImageTypes'
  BY <1>1, <1>9, <1>10 DEF ImageTypes
<1>12. ImageStages' /\ Named'
  BY <1>1, <1>2 DEF ImageStages, Named
<1>13. imDead' = "no" /\ ~imHbLate' => OnTime'
  <2>1. SUFFICES ASSUME imDead' = "no", ~imHbLate' PROVE OnTime'
    OBVIOUS
  <2>2. imNow < imHbStart + next
    BY <1>2, <1>3, <1>4, <1>7, <2>1
  <2>3. NextHeartbeat # 0 /\ imNow + NextHeartbeat = imHbStart + next
    BY <1>2, <1>3, <1>4, <1>5, <2>2
  <2> QED BY <1>1, <1>6, <2>3 DEF OnTime
<1>14. imDead' = "no" => Punctual("beacon", imBeaconAge, BeaconPeriod)'
  BY <1>1, <1>2 DEF Punctual
<1>15. imDead' = "no" => Punctual("vdev_hb", imVdevAge, VdevPeriod)'
  BY <1>1, <1>2 DEF Punctual
<1> QED BY <1>1, <1>2, <1>11, <1>12, <1>13, <1>14, <1>15
LEMMA Priorities ==
  /\ \A t \in ImTasks : ImPriority(t) \in Nat /\ ImPriority(t) <= 31
  /\ ImPriority("beacon") = 31 /\ ImPriority("vdev_hb") = 31
  /\ ImPriority("poll") = 5 /\ ImPriority("si_hb") = 4
  /\ \A t \in ImTasks : t \notin {"beacon", "vdev_hb", "poll"} => ImPriority(t) <= 4
BY DEF ImPriority, ImTasks

\* Time does not pass a reporter by: it runs above whatever is ready.
LEMMA ReportersRan ==
  ASSUME ImageInv, ImTicks, imDead = "no"
  PROVE  imMain = "running" /\ imTask["beacon"] # "ready" /\ imTask["vdev_hb"] # "ready"
<1>1. imMain = "running"
  BY DEF ImTicks
<1>2. ASSUME NEW t \in {"beacon", "vdev_hb"}, imTask[t] = "ready" PROVE FALSE
  <2>1. t \in ImTasks \ {"si_hb"} /\ ImPriority(t) = 31
    BY Priorities DEF ImTasks
  <2>2. \A o \in ImTasks : ImPriority(o) <= ImPriority(t)
    BY <2>1, Priorities
  <2>3. ImRuns(t)
    BY <1>1, <1>2, <2>2 DEF ImRuns, ImRunnable
  <2> QED BY <1>2, <2>1, <2>3 DEF ImTicks
<1> QED BY <1>1, <1>2

\* A heartbeat that is ready runs, unless something that halted keeps it from it.
LEMMA HeartbeatRuns ==
  ASSUME ImageInv, ImTicks, imDead = "no", ~HeartbeatBlocked, imTask["si_hb"] = "ready"
  PROVE  imHbWork < WorkTicks
<1>1. /\ imMain = "running" /\ ~ImRunnable("beacon") /\ ~ImRunnable("vdev_hb")
  BY ReportersRan DEF ImRunnable, ImageInv, ImageStages
<1>2. ~ImRunnable("poll")
  <2> SUFFICES ASSUME ImRunnable("poll") PROVE FALSE
    OBVIOUS
  <2>1. "poll" \in ImTasks \ {"si_hb"}
    BY DEF ImTasks
  <2>2. imTask["poll"] # "busy"
    BY <2>1, Priorities DEF HeartbeatBlocked
  <2>3. ASSUME NEW o \in ImTasks, ImRunnable(o) PROVE ImPriority(o) <= ImPriority("poll")
    <3>1. CASE o = "poll"
      BY <3>1, Priorities
    <3>2. CASE o # "poll"
      <4>1. o \notin {"beacon", "vdev_hb", "poll"}
        BY <1>1, <2>3, <3>2
      <4>2. ImPriority(o) <= 4 /\ ImPriority(o) \in Nat /\ ImPriority("poll") = 5
        BY <4>1, Priorities
      <4> QED BY <4>2
    <3> QED BY <3>1, <3>2
  <2>4. imTask["poll"] = "ready" /\ ImRuns("poll")
    BY <1>1, <2>2, <2>3 DEF ImRuns, ImRunnable
  <2> QED BY <2>1, <2>4 DEF ImTicks
<1>3. ASSUME NEW o \in ImTasks, ImRunnable(o) PROVE ImPriority(o) <= ImPriority("si_hb")
  <2>1. o \notin {"beacon", "vdev_hb", "poll"}
    BY <1>1, <1>2, <1>3
  <2> QED BY <2>1, Priorities
<1>4. ImRuns("si_hb")
  BY <1>1, <1>3 DEF ImRuns, ImRunnable
<1> QED BY <1>4 DEF ImTicks

LEMMA TickPunctual ==
  ASSUME NEW wake \in Nat, NEW age \in Nat, NEW period \in Nat, wake + age = period, wake # 0
  PROVE  /\ wake > 0 /\ wake - 1 \in Nat /\ (wake # 1 => wake - 1 # 0 /\ (wake - 1) + (age + 1) = period)
         /\ (wake = 1 => age + 1 <= period)
OBVIOUS

LEMMA TickWakes ==
  ASSUME ImageInv, ImTicks, imDead = "no", NEW t \in ImTasks
  PROVE  /\ imTask[t] = "idle" /\ imWake[t] # 0 /\ imWake[t] # 1 =>
              imTask'[t] = "idle" /\ imWake'[t] = imWake[t] - 1
         /\ imTask[t] = "idle" /\ imWake[t] = 1 => imTask'[t] = "ready"
         /\ imTask[t] # "idle" => imTask'[t] = imTask[t] /\ imWake'[t] = imWake[t]
<1>1. imWake[t] \in Nat
  BY DEF ImageInv, ImageTypes
<1> QED BY <1>1 DEF ImTicks

\* A tick brings a waiting reporter one nearer to its deadline.
LEMMA TickKeepsPunctual ==
  ASSUME ImageInv, ImTicks, imDead = "no"
  PROVE  /\ Punctual("beacon", imBeaconAge, BeaconPeriod)'
         /\ Punctual("vdev_hb", imVdevAge, VdevPeriod)'
<1>1. /\ imTask["beacon"] # "ready" /\ imTask["vdev_hb"] # "ready"
      /\ Punctual("beacon", imBeaconAge, BeaconPeriod) /\ Punctual("vdev_hb", imVdevAge, VdevPeriod)
  BY ReportersRan DEF ImageInv
<1>2. /\ imBeaconAge \in Nat /\ imVdevAge \in Nat /\ BeaconPeriod \in Nat /\ VdevPeriod \in Nat
      /\ "beacon" \in ImTasks /\ "vdev_hb" \in ImTasks
  BY ImageAssumption DEF ImageAssumption, ImageInv, ImageTypes, ImTasks
<1>3. Punctual("beacon", imBeaconAge, BeaconPeriod)'
  <2>1. CASE imTask["beacon"] = "idle"
    <3>1. imBeaconAge' = imBeaconAge + 1
      BY <2>1 DEF ImTicks
    <3> QED BY <1>1, <1>2, <2>1, <3>1, TickPunctual, TickWakes DEF Punctual
  <2>2. CASE imTask["beacon"] # "idle"
    BY <1>1, <1>2, <2>2, TickWakes DEF Punctual
  <2> QED BY <2>1, <2>2
<1>4. Punctual("vdev_hb", imVdevAge, VdevPeriod)'
  <2>1. CASE imTask["vdev_hb"] = "idle"
    <3>1. imVdevAge' = imVdevAge + 1
      BY <2>1 DEF ImTicks
    <3> QED BY <1>1, <1>2, <2>1, <3>1, TickPunctual, TickWakes DEF Punctual
  <2>2. CASE imTask["vdev_hb"] # "idle"
    BY <1>1, <1>2, <2>2, TickWakes DEF Punctual
  <2> QED BY <2>1, <2>2
<1> QED BY <1>3, <1>4

LEMMA TickKeepsOnTime ==
  ASSUME ImageInv, ImTicks, imDead = "no", ~imHbLate, ~HeartbeatBlocked
  PROVE  OnTime'
<1> DEFINE due == (imHbSent + 1) * HbPeriod
<1>1. /\ imNow \in Nat /\ imHbStart \in Nat /\ imHbSent \in Nat /\ imHbWork \in Nat
      /\ imWake["si_hb"] \in Nat /\ "si_hb" \in ImTasks /\ HbPeriod \in Nat
  <2>1. WorkTicks \in Nat /\ HbPeriod \in Nat
    BY ImageAssumption DEF ImageAssumption
  <2>2. imHbWork \in 0 .. WorkTicks
    BY DEF ImageInv, ImageTypes
  <2>3. imHbWork \in Nat
    BY <2>1, <2>2
  <2> QED BY <2>1, <2>3 DEF ImageInv, ImageTypes, ImTasks
<1>2. due \in Nat
  BY <1>1, NextDue
<1>3. /\ imNow' = imNow + 1 /\ imHbStart' = imHbStart /\ imHbSent' = imHbSent
      /\ imHbWork' = IF imTask["si_hb"] = "ready" /\ imHbWork < WorkTicks
                     THEN imHbWork + 1 ELSE imHbWork
  BY DEF ImTicks
<1>4. (imHbSent' + 1) * HbPeriod = due
  BY <1>3
<1>5. OnTime
  BY DEF ImageInv
<1>6. /\ imTask["si_hb"] = "idle" =>
           imHbWork = 0 /\ imWake["si_hb"] # 0 /\ imNow + imWake["si_hb"] = imHbStart + due
      /\ imTask["si_hb"] = "ready" => imNow <= imHbStart + due + imHbWork
  BY <1>5 DEF OnTime
<1>7. OnTime' <=>
        /\ imTask'["si_hb"] = "idle" =>
             /\ imHbWork' = 0 /\ imWake'["si_hb"] # 0
             /\ imNow' + imWake'["si_hb"] = imHbStart + due
        /\ imTask'["si_hb"] = "ready" => imNow' <= imHbStart + due + imHbWork'
  BY <1>3, <1>4 DEF OnTime
<1> HIDE DEF due
<1>8. CASE imTask["si_hb"] = "idle"
  <2>1. CASE imWake["si_hb"] = 1
    <3>1. imTask'["si_hb"] = "ready" /\ imHbWork' = 0 /\ imNow + 1 = imHbStart + due
      BY <1>1, <1>3, <1>6, <1>8, <2>1, TickWakes
    <3> QED BY <1>1, <1>2, <1>3, <1>7, <3>1
  <2>2. CASE imWake["si_hb"] # 1
    <3>1. /\ imTask'["si_hb"] = "idle" /\ imHbWork' = 0 /\ imWake["si_hb"] # 0
          /\ imWake'["si_hb"] = imWake["si_hb"] - 1
          /\ imNow + imWake["si_hb"] = imHbStart + due
      BY <1>1, <1>3, <1>6, <1>8, <2>2, TickWakes
    <3>2. imWake'["si_hb"] # 0
      BY <1>1, <2>2, <3>1
    <3> QED BY <1>1, <1>2, <1>3, <1>7, <3>1, <3>2
  <2> QED BY <2>1, <2>2
<1>9. CASE imTask["si_hb"] = "ready"
  <2>1. imHbWork < WorkTicks /\ imTask'["si_hb"] = "ready"
    BY <1>1, <1>9, HeartbeatRuns, TickWakes
  <2>2. imHbWork' = imHbWork + 1 /\ imNow <= imHbStart + due + imHbWork
    BY <1>3, <1>6, <1>9, <2>1
  <2> QED BY <1>1, <1>2, <1>3, <1>7, <2>1, <2>2
<1>10. CASE imTask["si_hb"] \notin {"idle", "ready"}
  BY <1>1, <1>7, <1>10, TickWakes
<1> QED BY <1>8, <1>9, <1>10
LEMMA TicksKeep ==
  ASSUME ImageInv, ImTicks
  PROVE  ImageInv'
<1>1. /\ UNCHANGED <<imMain, imVectors, imLaunch, imDriverOk, imDead, imSaid, imHbStart, imHbSent>>
      /\ imNow' = imNow + 1 /\ (imHbLate' <=> imHbLate \/ HeartbeatBlocked)
      /\ imHbLate' \in BOOLEAN
  BY DEF ImTicks, ImageInv, ImageTypes, HeartbeatBlocked
<1>2. /\ imTask' \in [ImTasks -> TaskStates] /\ imWake' \in [ImTasks -> Nat]
      /\ \A t \in ImTasks : imTask'[t] = imTask[t] \/ (imTask[t] = "idle" /\ imTask'[t] = "ready")
  <2>1. \A t \in ImTasks : imWake[t] \in Nat /\ (imWake[t] > 0 => imWake[t] - 1 \in Nat)
    BY DEF ImageInv, ImageTypes
  <2>2. /\ imTask' = [t \in ImTasks |-> IF imTask[t] = "idle" /\ imWake[t] = 1 /\ imDead = "no"
                                        THEN "ready" ELSE imTask[t]]
        /\ imWake' = [t \in ImTasks |-> IF imTask[t] = "idle" /\ imWake[t] > 0 /\ imDead = "no"
                                        THEN imWake[t] - 1 ELSE imWake[t]]
    BY DEF ImTicks
  <2>3. imWake' \in [ImTasks -> Nat]
    BY <2>1, <2>2
  <2>4. imTask' \in [ImTasks -> TaskStates]
    BY <2>2 DEF TaskStates, ImageInv, ImageTypes
  <2> QED BY <2>2, <2>3, <2>4
<1>3. imHbWork' \in 0 .. WorkTicks
  <2>1. WorkTicks \in Nat /\ imHbWork \in 0 .. WorkTicks
    BY ImageAssumption DEF ImageAssumption, ImageInv, ImageTypes
  <2>2. imHbWork' = imHbWork \/ (imHbWork < WorkTicks /\ imHbWork' = imHbWork + 1)
    BY DEF ImTicks
  <2> QED BY <2>1, <2>2
<1>4. imNow' \in Nat /\ imBeaconAge' \in Nat /\ imVdevAge' \in Nat
  BY <1>1 DEF ImTicks, ImageInv, ImageTypes
<1>5. ImageTypes'
  BY <1>1, <1>2, <1>3, <1>4 DEF ImageInv, ImageTypes
<1>6. imTask["si_hb"] = "absent" => imHbWork' = imHbWork
  BY DEF ImTicks
<1>7. "beacon" \in ImTasks /\ "vdev_hb" \in ImTasks /\ "si_hb" \in ImTasks
  BY DEF ImTasks
<1>8. ImageStages'
  BY <1>1, <1>2, <1>6, <1>7 DEF ImageInv, ImageStages
<1>9. Named'
  BY <1>1 DEF ImageInv, Named
<1>10. imTask'["beacon"] = "absent" => imBeaconAge' = 0
  BY <1>2, <1>7 DEF ImTicks
<1>11. imDead' = "no" => /\ Punctual("beacon", imBeaconAge, BeaconPeriod)'
                         /\ Punctual("vdev_hb", imVdevAge, VdevPeriod)'
  BY <1>1, TickKeepsPunctual
<1>12. imDead' = "no" /\ ~imHbLate' => OnTime'
  BY <1>1, TickKeepsOnTime
<1> QED BY <1>5, <1>8, <1>9, <1>10, <1>11, <1>12 DEF ImageInv

LEMMA NextImage == ImageInv /\ [ImageNext]_imVars => ImageInv'
<1> SUFFICES ASSUME ImageInv, [ImageNext]_imVars PROVE ImageInv'
  OBVIOUS
<1>1. ASSUME NEW ok \in BOOLEAN,
             InstallVectors(ok) \/ CreateLauncher(ok) \/ StartBeacon(ok) \/ BeginWait(ok)
      PROVE  ImageInv'
  BY <1>1, InstallVectorsKeeps, CreateLauncherKeeps, StartBeaconKeeps, BeginWaitKeeps
<1>2. CASE NoPlatform \/ EndWait \/ StartController
  BY <1>2, NoPlatformKeeps, EndWaitKeeps, StartControllerKeeps
<1>3. ASSUME NEW ok \in BOOLEAN, NEW hb \in BOOLEAN, CreateEndpoints(ok, hb) PROVE ImageInv'
  BY <1>3, CreateEndpointsKeeps
<1>4. CASE BeaconPrints \/ VdevPrints \/ HeartbeatSends
  BY <1>4, BeaconPrintsKeeps, VdevPrintsKeeps, HeartbeatSendsKeeps
<1>5. ASSUME NEW t \in Workers,
             Works(t) \/ Rests(t) \/ Halts(t) \/ Exception(t) \/ Overflows(t) \/ LocksScheduler(t)
      PROVE  ImageInv'
  BY <1>5, WorkerKeeps
<1>6. CASE ImTicks
  BY <1>6, TicksKeep
<1>7. CASE LinuxBinds \/ UNCHANGED imVars
  <2>1. UNCHANGED <<clockVars, imWake, imTask, imDead, imMain, imVectors, imLaunch, imSaid>>
    BY <1>7 DEF LinuxBinds, imVars, clockVars
  <2>2. ImageTypes' /\ ImageStages' /\ Named'
    BY <2>1 DEF ImageInv, ImageTypes, ImageStages, Named, clockVars
  <2> QED BY <2>1, <2>2, ReportersRest
<1> QED BY <1>1, <1>2, <1>3, <1>4, <1>5, <1>6, <1>7 DEF ImageNext

LEMMA ImageMeans == ImageInv => ConsoleTells
<1> SUFFICES ASSUME ImageInv PROVE ConsoleTells
  OBVIOUS
<1>1. /\ imBeaconAge \in Nat /\ imVdevAge \in Nat /\ BeaconPeriod \in Nat \ {0} /\ VdevPeriod \in Nat
      /\ "beacon" \in ImTasks /\ "vdev_hb" \in ImTasks /\ "si_hb" \in ImTasks
      /\ imTask \in [ImTasks -> TaskStates] /\ imWake \in [ImTasks -> Nat]
  BY ImageAssumption DEF ImageAssumption, ImageInv, ImageTypes, ImTasks
<1>2. imTask["beacon"] \in {"absent", "idle", "ready"} /\ imTask["si_hb"] \in {"absent", "idle", "ready"}
  BY <1>1 DEF ImageInv, ImageStages, TaskStates
<1>3. SilenceMeansDead
  <2> SUFFICES ASSUME imTask["beacon"] # "absent", imDead = "no" PROVE ~(imBeaconAge > BeaconPeriod)
    BY DEF SilenceMeansDead
  <2>1. Punctual("beacon", imBeaconAge, BeaconPeriod)
    BY DEF ImageInv
  <2> QED BY <1>1, <1>2, <2>1 DEF Punctual
<1>4. UnnamedSilenceIsLock
  <2>1. imDead = "stuck" => imTask["beacon"] = "absent"
    BY <1>1 DEF ImageInv, ImageStages
  <2>2. imDead \in {"no", "stuck", "fault", "overflow", "locked"} /\ Named
    BY DEF ImageInv, ImageTypes
  <2> QED BY <1>3, <2>1, <2>2 DEF SilenceMeansDead, UnnamedSilenceIsLock, Named
<1>5. WaitIsVisible
  <2> SUFFICES ASSUME imTask["vdev_hb"] \in {"idle", "ready"}, imDead = "no"
               PROVE  ~(imVdevAge > VdevPeriod)
    BY DEF WaitIsVisible
  <2>1. Punctual("vdev_hb", imVdevAge, VdevPeriod)
    BY DEF ImageInv
  <2> QED BY <1>1, <2>1 DEF Punctual
<1>6. HeartbeatKeepsRate
  <2> SUFFICES ASSUME imTask["si_hb"] # "absent", ~imHbLate, imDead = "no"
               PROVE  imNow - imHbStart <= (imHbSent + 1) * HbPeriod + WorkTicks
    BY DEF HeartbeatKeepsRate
  <2> DEFINE due == (imHbSent + 1) * HbPeriod
  <2>1. WorkTicks \in Nat /\ HbPeriod \in Nat
    BY ImageAssumption DEF ImageAssumption
  <2>2. imHbWork \in 0 .. WorkTicks
    BY DEF ImageInv, ImageTypes
  <2>3. imHbWork \in Nat /\ imHbWork <= WorkTicks
    BY <2>1, <2>2
  <2>4. imNow \in Nat /\ imHbStart \in Nat /\ imHbSent \in Nat
    BY DEF ImageInv, ImageTypes
  <2>5. due \in Nat
    BY <2>1, <2>4, NextDue
  <2>6. /\ imTask["si_hb"] = "idle" => imNow + imWake["si_hb"] = imHbStart + due
        /\ imTask["si_hb"] = "ready" => imNow <= imHbStart + due + imHbWork
    BY DEF ImageInv, OnTime
  <2> HIDE DEF due
  <2>7. imNow - imHbStart <= due + WorkTicks
    BY <1>1, <1>2, <2>1, <2>3, <2>4, <2>5, <2>6
  <2> QED BY <2>7 DEF due
<1> QED BY <1>3, <1>4, <1>5, <1>6 DEF ConsoleTells

\* Each thing a reader of the console concludes from it is so, for every period
\* of the reporters and as long as a heartbeat's work is shorter than its
\* period: a silent beacon means that no task runs, an unnamed silence that the
\* scheduler is locked, the wait for Linux is visible and the heartbeat keeps
\* its rate (x5h_diag_beacon_task, rpmsg_vdev_heartbeat_task, si_heartbeat_task).
THEOREM ConsoleAlwaysTells == ImageInit /\ [][ImageNext]_imVars => []ConsoleTells
  BY ImageStarts, NextImage, ImageMeans, PTL
=============================================================================
