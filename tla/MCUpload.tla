------------------------------ MODULE MCUpload ------------------------------
(* Upload of five bytes in four chunks. *)
EXTENDS Upload

MCByte == 1 .. 5
MCStream == <<1, 2, 3, 4, 5>>
MCBound == [i \in 0 .. 4 |-> IF i < 2 THEN i ELSE i + 1]
============================================================================
