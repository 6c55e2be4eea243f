--------------------------- MODULE StalenessGate ---------------------------
(***************************************************************************)
(* InputStalenessGate: receipt times noted by callback threads, a control  *)
(* thread that compares the freshest with two thresholds, and a report of  *)
(* edges that is rate-limited.  A callback reads the clock before it       *)
(* stores the reading, so a store may be late and overtake a newer one;    *)
(* the control thread reads its clock before it loads.                     *)
(***************************************************************************)
EXTENDS Integers

CONSTANTS GateThreads,    \* the callback threads
          StaleThreshold, \* stale_threshold_sec_
          FreshThreshold, \* fresh_threshold_sec_, below the other
          EdgeInterval,   \* min_edge_report_interval_sec_
          GateMaxTime,    \* bound on the clock
          GateMaxLate     \* ticks by which a store or a load may trail its clock reading

ASSUME GateAssumption ==
  /\ StaleThreshold \in Nat /\ FreshThreshold \in Nat /\ FreshThreshold < StaleThreshold
  /\ EdgeInterval \in Nat /\ GateMaxTime \in Nat /\ GateMaxLate \in Nat

None == -1

VARIABLES gateNow,    \* the clock
          gateRead,   \* thread -> clock reading it is about to store, or None
          gateCycle,  \* clock reading of the control cycle under way, or None
          gateLast,   \* last_input_sec_
          gateStale,  \* stale_
          gateEdge,   \* last_edge_report_sec_
          gateReport, \* the Transition update() last returned
          gateNewest  \* ghost: the latest reading stored

gateVars == <<gateNow, gateRead, gateCycle, gateLast, gateStale, gateEdge, gateReport, gateNewest>>

GateInit ==
  /\ gateNow = 0 /\ gateRead = [t \in GateThreads |-> None] /\ gateCycle = None
  /\ gateLast = None /\ gateStale = FALSE /\ gateEdge = None /\ gateReport = "kNone"
  /\ gateNewest = None

InputArrives(t) ==
  /\ gateRead[t] = None
  /\ gateRead' = [gateRead EXCEPT ![t] = gateNow]
  /\ UNCHANGED <<gateNow, gateCycle, gateLast, gateStale, gateEdge, gateReport, gateNewest>>

noteInput(t) ==
  /\ gateRead[t] # None
  /\ gateLast' = gateRead[t]
  /\ gateNewest' = IF gateRead[t] > gateNewest THEN gateRead[t] ELSE gateNewest
  /\ gateRead' = [gateRead EXCEPT ![t] = None]
  /\ UNCHANGED <<gateNow, gateCycle, gateStale, gateEdge, gateReport>>

CycleBegins ==
  /\ gateCycle = None
  /\ gateCycle' = gateNow
  /\ UNCHANGED <<gateNow, gateRead, gateLast, gateStale, gateEdge, gateReport, gateNewest>>

(* Mutant of NextStale: stale one tick too late. *)
StaleLate(age) == IF gateStale THEN ~(age < FreshThreshold) ELSE age > StaleThreshold + 1

(* Strictly older than one threshold, strictly younger than the other. *)
NextStale(age) ==
  IF gateStale THEN ~(age < FreshThreshold) ELSE age > StaleThreshold

(* Mutant of Reports: the interval starts with the first edge only. *)
ReportsAlways(now) == gateEdge = None \/ now >= EdgeInterval

Reports(now) == gateEdge = None \/ now - gateEdge >= EdgeInterval

update ==
  /\ gateCycle # None
  /\ gateCycle' = None
  /\ LET edge == gateLast # None /\ NextStale(gateCycle - gateLast) # gateStale
         told == edge /\ Reports(gateCycle)
     IN /\ gateStale' = IF edge THEN ~gateStale ELSE gateStale
        /\ gateEdge' = IF told THEN gateCycle ELSE gateEdge
        /\ gateReport' = IF ~told THEN "kNone"
                         ELSE IF gateStale THEN "kBecameFresh" ELSE "kBecameStale"
  /\ UNCHANGED <<gateNow, gateRead, gateLast, gateNewest>>

GateTicks ==
  /\ gateNow < GateMaxTime
  /\ gateNow' = gateNow + 1
  /\ \A r \in {gateRead[t] : t \in GateThreads} \cup {gateCycle} :
       r # None => gateNow - r < GateMaxLate
  /\ UNCHANGED <<gateRead, gateCycle, gateLast, gateStale, gateEdge, gateReport, gateNewest>>

GateNext ==
  \/ \E t \in GateThreads : InputArrives(t) \/ noteInput(t)
  \/ CycleBegins \/ update \/ GateTicks

GateSpec == GateInit /\ [][GateNext]_gateVars

publishAllowed == ~gateStale

(* Right after an update() that allows publication some input really is    *)
(* younger than the stale threshold, also when a late store has replaced a *)
(* newer reading (update, noteInput).                                      *)
AllowedMeansHeard ==
  gateCycle # None /\ gateCycle' = None /\ gateNewest # None /\ publishAllowed'
    => gateCycle - gateNewest <= StaleThreshold

(* The log is bounded: two reported edges are at least the interval apart, *)
(* however often the state flips between them.                             *)
EdgesRateLimited ==
  gateEdge # None /\ gateEdge' # gateEdge => gateEdge' - gateEdge >= EdgeInterval

(* The gate neither lets an unheard input pass nor floods the log.         *)
GateSound == [][AllowedMeansHeard /\ EdgesRateLimited]_gateVars
=============================================================================
