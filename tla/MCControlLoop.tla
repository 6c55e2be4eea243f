--------------------------- MODULE MCControlLoop ---------------------------
(***************************************************************************)
(* Small instances of ControlLoop for TLC.                                 *)
(***************************************************************************)
EXTENDS ControlLoop

OneUnit  == [s \in Sources |-> 1]
None     == {}
Forward  == {3}
OneSpeed == {[stamp |-> 0, speed |-> 2]}

Cmd(cycle) ==
  [valid |-> TRUE, stamped |-> TRUE, session |-> 1, cycle |-> cycle, stamp |-> cycle,
   finite |-> TRUE, payload |-> [steer |-> 1, speed |-> 2, accel |-> 1]]
OneCommand  == {Cmd(1)}
=============================================================================
