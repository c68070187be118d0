---------------------------- MODULE MCQuicPool -------------------------------
(* QuicPool as it is: its constants are numbers and names. *)
EXTENDS QuicPool
==============================================================================
