----------------------------- MODULE MCProvision -----------------------------
(* Provision as it is: its constants are model values.                        *)
(*                                                                            *)
(* Three users come one after the other, two overlap: TwoOverlap cuts the     *)
(* states where commands or edits have overlapped and the third has begun     *)
(* (any of the three, since nothing distinguishes them).                      *)
(* ServesDespiteKills speaks of behaviours in which nothing ever overlaps;    *)
(* overlapped is never reset, and no action under fairness sets it, so it     *)
(* loses no such behaviour, nor any step that fairness would force.           *)
EXTENDS Provision

Third == CHOOSE u \in Users : TRUE
TwoOverlap == overlapped => pc[Third] = "new"
==============================================================================
