----------------------------- MODULE MCUDPRelay ------------------------------
(* UDPRelay with three hosts and two destinations: a dotted quad, a name     *)
(* that begins with it, and an IPv6 address.                                 *)
EXTENDS UDPRelay

MCHosts == {"quad", "quad.name", "v6"}
MCQuadOf == [h \in MCHosts |-> IF h = "v6" THEN None ELSE "quad"]
MCCanonOf == [h \in MCHosts |-> IF h = "v6" THEN "v6" ELSE None]
============================================================================
