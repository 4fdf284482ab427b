------------------------------- MODULE MCLog -------------------------------
(* Log on a few blocks, with the log just large enough for two calls. *)
EXTENDS Log

\* mkfs clears the disk, the log's blocks included.
FreshInit ==
  /\ Init
  /\ disk = [b \in Block |-> 0] /\ logblk = [i \in 1 .. LOGBLOCKS |-> 0]

FreshSpec == FreshInit /\ [][Next]_vars /\ Fairness
=============================================================================
