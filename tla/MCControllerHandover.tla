----------------------- MODULE MCControllerHandover ------------------------
(* ControllerHandover for TLC with a fault during the cutover and a failback *)
(* that does not know of the target's entry.                               *)
EXTENDS ControllerHandover

TimerOnly == {[jobs |-> {"cutover", "emergency"}, watchdogs |-> {"timer"}]}
=============================================================================
