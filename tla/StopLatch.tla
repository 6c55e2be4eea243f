----------------------------- MODULE StopLatch -----------------------------
(***************************************************************************)
(* What the supervision promises an observer of the output, without its    *)
(* sources, clocks and ramps: the contract of vp_si_control_contract in    *)
(* one page.  A fault latches a stop; only a request the operator made     *)
(* while no later fault withdrew it may end the stop; every published      *)
(* request says SI_STOP while the stop is latched.                         *)
(***************************************************************************)
EXTENDS Naturals

VARIABLES
  stopped,     \* a fault is latched
  permit,      \* an operator request is pending
  published,   \* how many requests were published
  decision     \* the decision of the last one

latchVars == <<stopped, permit, published, decision>>

Init ==
  /\ stopped = FALSE /\ permit = FALSE
  /\ published = 0 /\ decision = "none"

\* A fault latches the stop and withdraws the permit; a further fault may
\* withdraw the permit again.
Fault ==
  /\ stopped' = TRUE
  /\ permit' \in {FALSE, stopped /\ permit}
  /\ UNCHANGED <<published, decision>>

Press == permit' = TRUE /\ UNCHANGED <<stopped, published, decision>>

\* A tick that stops: it may find a fault, and the permit may lapse.
StopTick ==
  /\ stopped' = TRUE
  /\ permit' \in {FALSE, stopped /\ permit}
  /\ published' = published + 1 /\ decision' = "SI_STOP"

\* A tick that does not: the stop was not latched, or the permit ends it.
GoTick ==
  /\ stopped => permit
  /\ stopped' = FALSE
  /\ permit' = IF stopped THEN FALSE ELSE permit
  /\ published' = published + 1 /\ decision' \in {"NORMAL", "HOLD"}

Next == Fault \/ Press \/ StopTick \/ GoTick

Spec == Init /\ [][Next]_latchVars
=============================================================================
