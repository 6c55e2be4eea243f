------------------------- MODULE CandidateIdentity -------------------------
(***************************************************************************)
(* The identity gate in front of every candidate the Safety Island accepts *)
(* (candidate_identity.hpp).  A candidate carries the session and cycle of *)
(* its producer and the stamp of the camera frame or plan it was computed  *)
(* from.  A stamp is the pair (sec, nanosec) of the source's own clock;    *)
(* only its validity and its order matter, so it is an integer here, and a *)
(* negative one stands for sec < 0 or nanosec >= 10^9.                     *)
(*                                                                         *)
(* This module has no state: the gate of a controller is a record of the   *)
(* shape VpIdentities or AutowareIdentities kept by the module that uses   *)
(* it.                                                                     *)
(***************************************************************************)
EXTENDS Integers, Sequences

CONSTANT
  RetiredWindow   \* how many retired sessions the gate remembers (16 in the code)

ASSUME RetiredWindowAssumption == RetiredWindow \in Nat \ {0}

CandidateCheck == {"ACCEPT", "DUPLICATE", "REGRESSION", "INVALID_STAMP"}

-----------------------------------------------------------------------------
(* VisionPilot candidates: session, cycle and source stamp.                *)

\* What VpCandidateIdentity keeps: the last accepted identity and the
\* sessions that were current before it, oldest first.  Sessions and cycles
\* are unsigned numbers; both start at 0.
VpIdentities ==
  [seen    : BOOLEAN,
   session : Nat,
   cycle   : Nat,
   stamp   : Int,
   retired : Seq(Nat)]

FreshVpIdentity ==
  [seen |-> FALSE, session |-> 0, cycle |-> 0, stamp |-> 0, retired |-> << >>]

Retired(id) == {id.retired[i] : i \in 1 .. Len(id.retired)}

\* Mutants of VpCheck: a new session is trusted whatever its stamp; a retired
\* session is not refused; a new cycle on an old camera frame counts as fresh;
\* the cycle is not looked at.
TrustsNewSession(id, session, cycle, stamp) ==
  IF stamp < 0 THEN "INVALID_STAMP"
  ELSE IF ~id.seen \/ session # id.session THEN "ACCEPT"
  ELSE IF cycle <= id.cycle THEN "REGRESSION"
  ELSE IF stamp > id.stamp THEN "ACCEPT" ELSE "REGRESSION"

ForgetsRetired(id, session, cycle, stamp) ==
  IF stamp < 0 THEN "INVALID_STAMP"
  ELSE IF ~id.seen THEN "ACCEPT"
  ELSE IF session = id.session /\ cycle <= id.cycle THEN "REGRESSION"
  ELSE IF stamp > id.stamp THEN "ACCEPT" ELSE "REGRESSION"

RepeatedFrameIsFresh(id, session, cycle, stamp) ==
  IF stamp < 0 THEN "INVALID_STAMP"
  ELSE IF ~id.seen THEN "ACCEPT"
  ELSE IF session \in Retired(id) THEN "REGRESSION"
  ELSE IF session = id.session /\ cycle <= id.cycle THEN "REGRESSION"
  ELSE IF stamp >= id.stamp THEN "ACCEPT" ELSE "REGRESSION"

CycleUnchecked(id, session, cycle, stamp) ==
  IF stamp < 0 THEN "INVALID_STAMP"
  ELSE IF ~id.seen THEN "ACCEPT"
  ELSE IF session \in Retired(id) THEN "REGRESSION"
  ELSE IF stamp = id.stamp THEN "DUPLICATE"
  ELSE IF stamp > id.stamp THEN "ACCEPT" ELSE "REGRESSION"

VpCheck(id, session, cycle, stamp) ==
  IF stamp < 0 THEN "INVALID_STAMP"
  ELSE IF ~id.seen THEN "ACCEPT"
  ELSE IF session \in Retired(id) THEN "REGRESSION"
  ELSE IF session = id.session /\ cycle <= id.cycle
    THEN IF cycle = id.cycle /\ stamp = id.stamp THEN "DUPLICATE" ELSE "REGRESSION"
  ELSE IF stamp = id.stamp THEN "DUPLICATE"
  ELSE IF stamp > id.stamp THEN "ACCEPT" ELSE "REGRESSION"

\* Mutant of Retire: the ring is never full.
RetireUnbounded(ring, session) == Append(ring, session)

\* The ring of retired sessions overwrites its oldest slot when it is full.
Retire(ring, session) ==
  Append(IF Len(ring) < RetiredWindow THEN ring ELSE Tail(ring), session)

\* Mutant of VpNote: every accepted candidate retires its own session.
RetiresEverySession(id, session, cycle, stamp) ==
  [seen |-> TRUE, session |-> session, cycle |-> cycle, stamp |-> stamp,
   retired |-> IF id.seen THEN Retire(id.retired, id.session) ELSE id.retired]

VpNote(id, session, cycle, stamp) ==
  [seen    |-> TRUE,
   session |-> session,
   cycle   |-> cycle,
   stamp   |-> stamp,
   retired |-> IF id.seen /\ session # id.session
               THEN Retire(id.retired, id.session) ELSE id.retired]

-----------------------------------------------------------------------------
(* Autoware trajectories: the header stamp is all there is.                *)

AutowareIdentities == [seen : BOOLEAN, stamp : Int]

FreshAutowareIdentity == [seen |-> FALSE, stamp |-> 0]

AutowareCheck(id, stamp) ==
  IF stamp < 0 THEN "INVALID_STAMP"
  ELSE IF ~id.seen \/ stamp > id.stamp THEN "ACCEPT"
  ELSE IF stamp = id.stamp THEN "DUPLICATE" ELSE "REGRESSION"

AutowareNote(stamp) == [seen |-> TRUE, stamp |-> stamp]
=============================================================================
