------------------------------- MODULE MCPipe -------------------------------
(* Pipe with a few processes, two bytes of room and counters that wrap soon. *)
EXTENDS Pipe

\* Nobody is killed, or one process is.
OneKilled == \A p, q \in DOMAIN killed : killed[p] /\ killed[q] => p = q
=============================================================================
