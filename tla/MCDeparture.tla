----------------------------- MODULE MCDeparture -----------------------------
(* Followers on the instance of MCFollowers, while the vehicle stands on      *)
(* roads that may and may not let it go, with what the longitudinal           *)
(* controller was told of the steering in the cycle before.                   *)
EXTENDS MCFollowers

VARIABLE toldBefore   \* lonSync as the cycle before used it

departureVars == <<folVars, toldBefore>>

DepartureInit == Init /\ part = "both" /\ toldBefore = FALSE

DepartureNext ==
    /\ \E in \in BothInputs : in.v = 0 /\ Cycle(in)
    /\ toldBefore' = lonSync

DepartureSpec == DepartureInit /\ [][DepartureNext]_departureVars

(* "Dry steering is considered unnecessary when the steering is converged     *)
(* twice in a row": from a standstill the vehicle departs only when two       *)
(* successive cycles were told so (updateControlState).                       *)
DepartsConvergedTwice ==
    [][lonState = "STOPPED" /\ lonState' = "DRIVE" => toldBefore /\ lonSync]_departureVars
==============================================================================
