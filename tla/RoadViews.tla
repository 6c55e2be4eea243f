------------------------------ MODULE RoadViews ------------------------------
(* The trajectories and ego poses both followers are run on.  Their geometry  *)
(* is computed once per road and view; the state keeps the index of a road.   *)
EXTENDS MotionUtils

CONSTANTS
  Roads,                \* the trajectories that may be received, a sequence
  Views                 \* where the ego may be, a sequence of [pose |-> [x, yaw],
                        \* y |-> lateral offset, runDist |-> predicted distance]
==============================================================================
