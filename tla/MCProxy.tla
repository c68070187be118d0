------------------------------ MODULE MCProxy -------------------------------
(* Proxy with one data unit up and two down, a name, a dotted quad and a     *)
(* name that begins with that quad.                                          *)
EXTENDS Proxy

MCHost == {"name", "quad", "quad.name"}
MCQuad == {"quad"}
MCQuadOf == [h \in MCHost |-> IF h = "name" THEN "none" ELSE "quad"]
MCAppStream == <<"a1">>
MCTargetStream == <<"t1", "t2">>
=============================================================================
