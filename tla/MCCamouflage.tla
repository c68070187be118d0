---------------------------- MODULE MCCamouflage ----------------------------
(* Camouflage with three bytes of data, two of which fit into a frame, so    *)
(* that a Write of three is split.                                           *)
EXTENDS Camouflage

MCData == <<1, 2, 3>>
=============================================================================
