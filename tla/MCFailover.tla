----------------------------- MODULE MCFailover ------------------------------
(* Failover as it is: its constants are numbers and names. *)
EXTENDS Failover
==============================================================================
