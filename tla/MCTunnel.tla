------------------------------ MODULE MCTunnel ------------------------------
(* Tunnel as it is: its constants are numbers and switches. *)
EXTENDS Tunnel
============================================================================
