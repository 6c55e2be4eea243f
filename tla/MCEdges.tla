------------------------------ MODULE MCEdges ------------------------------
(***************************************************************************)
(* The edges of the safety island, one at a time: startup, the identity    *)
(* gate, the rpmsg-si fault input, the staleness gate and the CAN path.    *)
(* `edge' selects the part that moves; the others rest in one initial      *)
(* state, so the state spaces add up instead of multiplying.               *)
(***************************************************************************)
EXTENDS CandidateStream, SiFaultInput, CanPath, Startup, StalenessGate

VARIABLE edge

edgeVars == <<edge, streamVars, siVars, canVars, suVars, gateVars>>

\* Four producers whose samples arrive in any order.
MCCandidates == [session : 1 .. 4, cycle : 1 .. 2, stamp : -1 .. 5]

\* With two digits of base 4 a word holds -8 .. 7: the first message rounds to
\* both ends of it, the second does not fit.
MCMessages ==
  {[steer |-> -75, vel |-> 74, finite |-> TRUE], [steer |-> 15, vel |-> -85, finite |-> TRUE]}

RestingEnvironment ==
  [mode |-> "unset", source |-> "unset", legacy |-> "unset", durability |-> "unset",
   output |-> "DDS_ONLY", tunnel |-> FALSE, bridge |-> "volatile", changes |-> FALSE]

EdgesInit ==
  /\ edge \in {"startup", "stream", "fault", "staleness", "can"}
  /\ StreamInit /\ SiInit /\ GateInit
  /\ CanInit /\ (edge # "can" => canVia = "fd")
  /\ StartupInit /\ (edge # "startup" => suEnv = RestingEnvironment)

EdgesNext ==
  /\ UNCHANGED edge
  /\ \/ /\ edge = "startup" /\ StartupNext
        /\ UNCHANGED <<streamVars, siVars, canVars, gateVars>>
     \/ /\ edge = "stream" /\ StreamNext
        /\ UNCHANGED <<siVars, canVars, suVars, gateVars>>
     \/ /\ edge = "fault" /\ SiNext
        /\ UNCHANGED <<streamVars, canVars, suVars, gateVars>>
     \/ /\ edge = "staleness" /\ GateNext
        /\ UNCHANGED <<streamVars, siVars, canVars, suVars>>
     \/ /\ edge = "can" /\ CanNext
        /\ UNCHANGED <<streamVars, siVars, suVars, gateVars>>

\* SiFairness and StartupFairness, each for the behaviours of its own part.
EdgesFairness ==
  /\ WF_suVars(edge = "startup" /\ Samples("none"))
  /\ WF_suVars(edge = "startup" /\ Cycle)
  /\ WF_siVars(edge = "fault" /\ SetFault)
  /\ WF_siVars(edge = "fault" /\ \E isStale, expires \in BOOLEAN : BeginTick(isStale, expires))
  /\ WF_siVars(edge = "fault" /\ ReadLevel)
  /\ WF_siVars(edge = "fault" /\ PublishDecision)

EdgesSpec == EdgesInit /\ [][EdgesNext]_edgeVars /\ EdgesFairness
=============================================================================
