----------------------------- MODULE PrivateMem -----------------------------
(***************************************************************************)
(* What user memory promises a program: every process has an address space *)
(* of its own.  fork() gives the child a copy, and from then on a store by *)
(* one process is never seen by another.                                   *)
(***************************************************************************)
EXTENDS Naturals

CONSTANTS
  Proc,     \* processes
  NPages,   \* bound on the pages of an address space
  Stored,   \* what a process, or the kernel for it, stores in a page
  Zero,     \* a fresh page
  Image,    \* the address space exec() builds
  Gone      \* marks a process without an address space

VARIABLE space

Init == space = [p \in Proc |-> Gone]

Boot(p) ==
  /\ \A q \in Proc : space[q] = Gone
  /\ space' = [space EXCEPT ![p] = [v \in {} |-> Zero]]

Store(p, v, x) ==
  /\ space[p] # Gone /\ v \in DOMAIN space[p]
  /\ space' = [space EXCEPT ![p][v] = x]

Resize(p, n) ==
  /\ space[p] # Gone
  /\ space' = [space EXCEPT ![p] =
       [v \in 0 .. n - 1 |-> IF v \in DOMAIN space[p] THEN space[p][v] ELSE Zero]]

Fork(p, q) ==
  /\ space[p] # Gone /\ space[q] = Gone
  /\ space' = [space EXCEPT ![q] = space[p]]

Exec(p) ==
  /\ space[p] # Gone
  /\ space' = [space EXCEPT ![p] = Image]

Exit(p) ==
  /\ space[p] # Gone
  /\ space' = [space EXCEPT ![p] = Gone]

Next ==
  \E p \in Proc :
    \/ Boot(p) \/ Exec(p) \/ Exit(p)
    \/ \E v \in 0 .. NPages - 1, x \in Stored : Store(p, v, x)
    \/ \E n \in 0 .. NPages : Resize(p, n)
    \/ \E q \in Proc : Fork(p, q)

Spec == Init /\ [][Next]_space
=============================================================================
