----------------------------- MODULE MCX5hTasks -----------------------------
(***************************************************************************)
(* The X5H's tasks: the thread shim with its thread-local storage, the     *)
(* image as its console shows it, and the report of the diagnostic build.  *)
(* `shown' selects the one that moves, so the state spaces add up.         *)
(***************************************************************************)
EXTENDS X5hThreads, X5hImage, X5hReport

VARIABLE shown

taskVars == <<shown, thVars, imVars, rpVars>>

TasksInit ==
  /\ shown \in {"threads", "image", "report"}
  /\ ThreadsInit /\ (shown # "threads" => thPort = [tls |-> TRUE, static |-> TRUE, locks |-> FALSE])
  /\ ImageInit /\ ReportInit
  /\ (shown # "report" => rpStorage = "own" /\ rpList /\ rpTasks = TableSlots)

TasksNext ==
  /\ UNCHANGED shown
  /\ \/ shown = "threads" /\ ThreadsNext /\ UNCHANGED <<imVars, rpVars>>
     \/ shown = "image" /\ ImageNext /\ UNCHANGED <<thVars, rpVars>>
     \/ shown = "report" /\ ReportNext /\ UNCHANGED <<thVars, imVars>>

TasksSpec ==
  /\ TasksInit /\ [][TasksNext]_taskVars
  /\ WF_thVars(shown = "threads" /\ OwnerSteps)
  /\ WF_rpVars(shown = "report" /\ BeaconSteps)

\* Every wait of a task ends: a cancelled thread is joined, and the report gets
\* to its end or halts.
EndsAreReached == CancelledIsJoined /\ ReportEnds
=============================================================================
