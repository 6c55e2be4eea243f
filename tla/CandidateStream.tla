-------------------------- MODULE CandidateStream --------------------------
(***************************************************************************)
(* The identity gate of candidate_identity.hpp in front of a transport     *)
(* that may lose, repeat, delay and reorder the samples of several         *)
(* producers, each of which may restart under a new session: anything in   *)
(* Candidates may be offered at any time, any number of times.             *)
(*                                                                         *)
(* `log' is the history of what was accepted, in order; the code keeps     *)
(* only the gate.                                                          *)
(***************************************************************************)
EXTENDS CandidateIdentity, FiniteSets

CONSTANT Candidates    \* the samples the transport may deliver

ASSUME CandidatesAssumption ==
  Candidates \subseteq [session : Nat, cycle : Nat, stamp : Int]

VARIABLES gate, log

streamVars == <<gate, log>>

StreamInit == gate = FreshVpIdentity /\ log = << >>

\* check() and, when the rest of the callback accepts the sample too, note().
Offer(m) ==
  /\ VpCheck(gate, m.session, m.cycle, m.stamp) = "ACCEPT"
  /\ gate' = VpNote(gate, m.session, m.cycle, m.stamp)
  /\ log' = Append(log, m)

\* A duplicate, a regression or an invalid stamp leaves the gate alone.
Refuse(m) ==
  /\ VpCheck(gate, m.session, m.cycle, m.stamp) # "ACCEPT"
  /\ UNCHANGED streamVars

StreamNext == \E m \in Candidates : Offer(m) \/ Refuse(m)

StreamSpec == StreamInit /\ [][StreamNext]_streamVars

-----------------------------------------------------------------------------
\* Type invariant.  The gate holds the last accepted candidate.
StreamTypeOK ==
  /\ gate \in VpIdentities
  /\ Len(gate.retired) <= RetiredWindow
  /\ log \in Seq(Candidates)

\* Accepted source stamps strictly increase across sessions and restarts: a
\* repeated camera frame or an old packet is never accepted as a new decision.
StampsIncrease ==
  \A i, j \in 1 .. Len(log) : i < j => log[i].stamp < log[j].stamp

\* Within one producer's tenure the cycles strictly increase.
CyclesIncrease ==
  \A i \in 1 .. Len(log) - 1 :
    log[i].session = log[i + 1].session => log[i].cycle < log[i + 1].cycle

\* The producer in charge is never in the ring of retired ones, which would
\* refuse everything it sends from then on and stop the vehicle for good.
CurrentNotRetired == gate.seen => gate.session \notin Retired(gate)

\* A retired producer does not come back while the ring remembers it: between
\* its last accepted candidate and the next one at least RetiredWindow other
\* producers were retired after it.
NoRevival ==
  \A i, j \in 1 .. Len(log) :
    (i + 1 < j /\ log[i].session = log[j].session /\ log[i + 1].session # log[i].session)
      => Cardinality({k \in i + 1 .. j - 2 : log[k].session # log[k + 1].session})
           >= RetiredWindow

\* What the gate promises of the stream it lets through: order across sessions,
\* order within one, and a producer in charge that can go on.
StreamSound == StreamTypeOK /\ StampsIncrease /\ CyclesIncrease /\ CurrentNotRetired
=============================================================================
