--------------------------- MODULE ReliableStream ---------------------------
(***************************************************************************)
(* What one direction of a tunnel promises its two ends: the receiver sees *)
(* a prefix of what the sender sent, and nothing is sent after the sender  *)
(* closed.  How the bytes travel, and over how many requests, is invisible.*)
(***************************************************************************)
EXTENDS Naturals, Sequences

CONSTANT Datum

VARIABLES sent, rcvd, ended

streamVars == <<sent, rcvd, ended>>

Init == sent = <<>> /\ rcvd = <<>> /\ ended = FALSE

(* The sender appends some data. *)
Send ==
  /\ ~ended
  /\ ended' = ended
  /\ sent' \in Seq(Datum)
  /\ Len(sent') >= Len(sent)
  /\ sent = SubSeq(sent', 1, Len(sent))
  /\ rcvd' = rcvd

(* The receiver gets some of what was sent and it has not seen yet. *)
Deliver ==
  /\ \E n \in Len(rcvd) .. Len(sent) : rcvd' = SubSeq(sent, 1, n)
  /\ UNCHANGED <<sent, ended>>

Finish == ended' = TRUE /\ UNCHANGED <<sent, rcvd>>

Next == Send \/ Deliver \/ Finish

Spec == Init /\ [][Next]_streamVars
============================================================================
