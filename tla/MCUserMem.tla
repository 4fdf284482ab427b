----------------------------- MODULE MCUserMem -----------------------------
(* Instances of UserMem for TLC. *)
EXTENDS UserMem

\* A one-page program: read-only text, then the guard page and the stack.
TextOnly == << [end |-> PGSIZE, w |-> FALSE] >>
NoSegments == << >>

\* Free pages are interchangeable except for the ones a stale PTE still names,
\* so it is enough that kalloc() takes the least free page or one of those.
LeastPage ==
  \A g \in freelist \ freelist' :
    \/ g = Smallest(freelist)
    \/ \E t \in PT, v \in Va : pte[t][v].pa = g

\* Steps that touch nothing another thread or a property looks at.  They commute
\* with every step of the other threads, so one order of them is enough.
PrivateLabels ==
  {"unmap", "vfmapped", "copyout", "co_cow", "copyin", "grownext", "growfail",
   "forkpt", "waited", "freepgt", "execpt", "sysret"}
PrivateFirst ==
  LET Ready == {p \in Proc : th[p].pc \in PrivateLabels}
      first == CHOOSE p \in Ready : TRUE IN
  panicked = "no" /\ Ready # {} => th'[first] # th[first]
Reduced == LeastPage /\ PrivateFirst

\* Init builds its memory by exec or sbrk while it is alone, and forks after
\* that; only its descendants exec then.
Alone == \A q \in Proc \ {InitProc} : state[q] = "unused"
InitFirst ==
  \A q \in Proc : th[q].pc = "user" =>
    /\ th'[q].pc = "grow" => Alone
    /\ q = InitProc /\ th'[q].pc = "newpt" /\ state' = state => Alone
ReducedInitFirst == Reduced /\ InitFirst

ForkCalls == {"fork", "exit", "wait", "sbrk", "copyout", "copyin"}
GrowExecCalls == {"exec", "fork", "sbrk"}
SbrkCalls == {"sbrk", "sbrklazy", "copyin", "copyout"}
AloneCalls == SbrkCalls \cup {"exec"}
GrowOnly == {PGSIZE}
GrowShrink == {2, -2}
Unaligned == {1, 2, -1, -2, -3}
=============================================================================
