------------------------------- MODULE MCProc -------------------------------
(* Proc on one or two CPUs and two or three processes. *)
EXTENDS Proc

CallsFamily == {"fork", "exit", "wait", "kill"}
CallsLive == {"fork", "exit", "wait", "pause"}
=============================================================================
