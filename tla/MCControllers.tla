---------------------------- MODULE MCControllers ----------------------------
(* Two questions of the controllers, asked side by side: the cycles of the    *)
(* followers on the instance of MCFollowers, and the calls of MCNumerics to   *)
(* the algorithms they are built from.  A behaviour is one or the other.      *)
EXTENDS MCFollowers, MCNumerics

controllersVars == <<folVars, call>>

Cycling == call = <<"cycling", <<>>, <<>>>>

ControllersInit ==
    /\ Init
    /\ Cycling \/ Idle
    /\ Idle => part = "both"

ControllersNext ==
    \/ Cycling /\ Next /\ UNCHANGED call
    \/ ~Cycling /\ NumericsNext /\ UNCHANGED folVars

(* As in Followers, the timer always fires again. *)
ControllersSpec ==
    /\ ControllersInit
    /\ [][ControllersNext]_controllersVars
    /\ WF_tick(Cycling /\ Tick)
==============================================================================
