----------------------------- MODULE MCThrottle ------------------------------
(* Throttle as it is: its constants are numbers. *)
EXTENDS Throttle
==============================================================================
