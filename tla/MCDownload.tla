----------------------------- MODULE MCDownload -----------------------------
(* Download with two byte values and writes of one or two bytes. *)
EXTENDS Download

MCByte == {0, 1}
MCChunk == {<<0>>, <<1, 0>>}
============================================================================
