--------------------------- MODULE MCXhttpServer ----------------------------
(* XhttpServer as it is: its constants are sets of names and numbers. *)
EXTENDS XhttpServer
============================================================================
