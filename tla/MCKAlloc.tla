------------------------------ MODULE MCKAlloc ------------------------------
(* KAlloc on three pages, three holders and two threads inside kfree(). *)
EXTENDS KAlloc
=============================================================================
