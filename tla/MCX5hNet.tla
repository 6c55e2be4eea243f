------------------------------- MODULE MCX5hNet -------------------------------
(***************************************************************************)
(* The X5H's network below lwIP, one part at a time: the RPMsg link and    *)
(* the OS port.  `part' selects the one that moves, so the state spaces    *)
(* add up.                                                                 *)
(***************************************************************************)
EXTENDS X5hLink, X5hOs

VARIABLE part

netVars == <<part, vars, osVars>>

NetInit ==
  /\ part \in {"link", "os"}
  /\ Init
  /\ OsInit /\ (part # "os" => osTick = 0)

NetNext ==
  /\ UNCHANGED part
  /\ \/ part = "link" /\ Next /\ UNCHANGED osVars
     \/ part = "os" /\ OsNext /\ UNCHANGED vars

\* FairSpec's fairness and OsFairness, each for the behaviours of its own part.
NetFairness ==
  /\ WF_vars(part = "link" /\ PollTask) /\ WF_vars(part = "link" /\ Tick)
  /\ WF_vars(part = "link" /\ Interrupt)
  /\ SF_vars(part = "link" /\ Fetch) /\ SF_vars(part = "link" /\ Process)
  /\ SF_vars(part = "link" /\ BringUp)
  /\ WF_osVars(part = "os" /\ InitDone)
  /\ WF_osVars(part = "os" /\ \E wait \in FetchWaits : BeginFetch(wait))
  /\ WF_osVars(part = "os" /\ FetchGets) /\ WF_osVars(part = "os" /\ FetchTimesOut)
  /\ WF_osVars(part = "os" /\ OsTicks)
  /\ \A p \in OsPosters : SF_osVars(part = "os" /\ PostLands(p))

NetSpec == NetInit /\ [][NetNext]_netVars /\ NetFairness
=============================================================================
