----------------------------- MODULE MCConsole ------------------------------
(* Console with a buffer of two characters: two characters fill it. *)
EXTENDS Console
=============================================================================
