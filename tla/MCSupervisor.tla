---------------------------- MODULE MCSupervisor ----------------------------
(***************************************************************************)
(* Small instances of Supervisor for TLC.                                  *)
(***************************************************************************)
EXTENDS Supervisor

OneUnit  == [s \in Sources |-> 1]
None     == {}
Backward == {-2}

Odom(stamp, speed) == [stamp |-> stamp, speed |-> speed]
OneSpeed   == {Odom(0, 2)}
TwoSpeeds  == {Odom(0, 3), Odom(0, 9)}
TwoFrames  == {Odom(1, 2), Odom(2, 2)}

Payload(steer, speed) == [steer |-> steer, speed |-> speed, accel |-> 1]

\* VP_CONTROL: two producers (a restart), one command beyond the steering
\* limit, one old sample of the first producer.
Cmd(session, cycle, stamp, steer) ==
  [valid |-> TRUE, stamped |-> TRUE, session |-> session, cycle |-> cycle, stamp |-> stamp,
   finite |-> TRUE, payload |-> Payload(steer, 2)]
VpCommands    == {Cmd(1, 1, 1, 1), Cmd(1, 2, 2, 9), Cmd(2, 1, 2, 0)}
OneVpCommand  == {Cmd(1, 1, 1, 1)}

\* SI_CONTROL with Autoware: two plans, one with a NaN; a follower that
\* saturates and one whose output is not a steering angle.
Plan(stamp) == [wellFormed |-> TRUE, finite |-> TRUE, stamp |-> stamp]
Plans       == {Plan(1), Plan(2), [Plan(2) EXCEPT !.finite = FALSE]}
Proposals   == {Payload(2, 2), Payload(9, 2)}

\* SI_CONTROL with VisionPilot: references of two frames and two sessions,
\* one of a frame whose ego pose may be gone, one of an unusable shape.
Ref(session, cycle, stamp) ==
  [wellFormed |-> TRUE, usable |-> TRUE, finite |-> TRUE, session |-> session,
   cycle |-> cycle, stamp |-> stamp, convertible |-> TRUE]
References_ ==
  {Ref(1, 1, 1), Ref(2, 1, 2), Ref(1, 2, 2), [Ref(1, 1, 2) EXCEPT !.convertible = FALSE]}
OneProposal == {Payload(1, 2)}
=============================================================================
