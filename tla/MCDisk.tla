------------------------------- MODULE MCDisk -------------------------------
(* Disk with three processes, so that two requests are with the device while *)
(* a third waits for descriptors, and more blocks than buffers.              *)
EXTENDS Disk, TLC

Symmetry == Permutations(Proc) \cup Permutations(Block)
=============================================================================
