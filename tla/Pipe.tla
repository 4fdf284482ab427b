-------------------------------- MODULE Pipe --------------------------------
(***************************************************************************)
(* One pipe (kernel/pipe.c) used by processes that write to it and that    *)
(* read from it, until the last file of each end is closed (fileclose() in *)
(* kernel/file.c).  A step is one turn of a loop under pi->lock.  nread    *)
(* and nwrite are unsigned counters that wrap around at CounterMod.        *)
(***************************************************************************)
EXTENDS Integers, Sequences, FiniteSets

CONSTANTS
  Writer, Reader,  \* the processes that hold a file of either end
  NoProc,
  Val,             \* bytes
  PIPESIZE,
  CounterMod,      \* 2^32
  MaxN             \* bound: bytes a call asks for

ASSUME PipeAssumption ==
  /\ Writer \cap Reader = {} /\ NoProc \notin Writer \cup Reader
  /\ IsFiniteSet(Writer) /\ IsFiniteSet(Reader)
  /\ PIPESIZE \in Nat \ {0} /\ MaxN \in Nat
  /\ CounterMod \in Nat /\ CounterMod > PIPESIZE /\ CounterMod % PIPESIZE = 0

VARIABLES
  data, nread, nwrite, readopen, writeopen,  \* struct pipe
  lock,     \* who holds pi->lock
  freed,    \* the page of the pipe has been given back
  ref,      \* reference counts of the two files
  pc, left, \* per process: place, and n - i, the bytes still to be done
  killed

pipe == <<data, nread, nwrite, readopen, writeopen>>
vars == <<pipe, lock, freed, ref, pc, left, killed>>

Proc == Writer \cup Reader

\* pipealloc(); the page is not cleared.
Init ==
  /\ data \in [0 .. PIPESIZE - 1 -> Val]
  /\ nread = 0 /\ nwrite = 0 /\ readopen = TRUE /\ writeopen = TRUE
  /\ lock = NoProc /\ freed = FALSE
  /\ ref = [r |-> Cardinality(Reader), w |-> Cardinality(Writer)]
  /\ pc = [p \in Proc |-> "user"]
  /\ left = [p \in Proc |-> 0]
  /\ killed = [p \in Proc |-> FALSE]

\* Unsigned ++.
Inc(k) == (k + 1) % CounterMod

\* wakeup(&pi->nread) and wakeup(&pi->nwrite), by p which goes on at l.
WakeReaders(p, l) ==
  pc' = [q \in Proc |-> IF q = p THEN l
                        ELSE IF q \in Reader /\ pc[q] = "asleep" THEN "acquire" ELSE pc[q]]
WakeWriters(p, l) ==
  pc' = [q \in Proc |-> IF q = p THEN l
                        ELSE IF q \in Writer /\ pc[q] = "asleep" THEN "acquire" ELSE pc[q]]
Go(p, l) == pc' = [pc EXCEPT ![p] = l]
-----------------------------------------------------------------------------
\* A process calls read() or write().
Call(p, k) ==
  /\ pc[p] = "user" /\ ~killed[p]
  /\ left' = [left EXCEPT ![p] = k]
  /\ Go(p, "acquire")
  /\ UNCHANGED <<pipe, lock, freed, ref, killed>>

\* acquire(&pi->lock), at the start and at the end of sleep().
acquire(p) ==
  /\ pc[p] = "acquire" /\ lock = NoProc
  /\ lock' = p
  /\ Go(p, "loop")
  /\ UNCHANGED <<pipe, freed, ref, left, killed>>

\* A call returns: the lock is released and its locals are gone.
Return(p) == lock' = NoProc /\ left' = [left EXCEPT ![p] = 0]

\* The end of pipewrite().
written(p) == WakeReaders(p, "user") /\ Return(p)

\* pipewrite(): the loop's condition and its first test.
pipewrite(p) ==
  /\ p \in Writer /\ pc[p] = "loop"
  /\ \/ left[p] = 0 /\ written(p)
     \/ left[p] > 0 /\ (~readopen \/ killed[p]) /\ Return(p) /\ Go(p, "user")
     \/ left[p] > 0 /\ readopen /\ ~killed[p] /\ Go(p, "body") /\ UNCHANGED <<lock, left>>
  /\ UNCHANGED <<pipe, freed, ref, killed>>

\* Mutant of Full: the sum does not wrap around.
Full_no_wrap == nwrite = nread + PIPESIZE

\* The test for a full pipe, in unsigned arithmetic.
Full == nwrite = (nread + PIPESIZE) % CounterMod

\* pipewrite(): the pipe is full; wake the readers and sleep.
writefull(p) ==
  /\ p \in Writer /\ pc[p] = "body" /\ Full
  /\ WakeReaders(p, "asleep")
  /\ lock' = NoProc
  /\ UNCHANGED <<pipe, freed, ref, left, killed>>

\* pipewrite(): a byte goes in.
writebyte(p, v) ==
  /\ p \in Writer /\ pc[p] = "body" /\ ~Full
  /\ data' = [data EXCEPT ![nwrite % PIPESIZE] = v] /\ nwrite' = Inc(nwrite)
  /\ left' = [left EXCEPT ![p] = @ - 1]
  /\ Go(p, "loop")
  /\ UNCHANGED <<nread, readopen, writeopen, lock, freed, ref, killed>>

\* pipewrite(): copyin() fails.
writefault(p) ==
  /\ p \in Writer /\ pc[p] = "body" /\ ~Full
  /\ written(p)
  /\ UNCHANGED <<pipe, freed, ref, killed>>
-----------------------------------------------------------------------------
\* piperead(): the first loop's condition, and killed().
piperead(p) ==
  LET empty == nread = nwrite /\ writeopen IN
  /\ p \in Reader /\ pc[p] = "loop"
  /\ \/ empty /\ killed[p] /\ Return(p) /\ Go(p, "user")
     \/ empty /\ ~killed[p] /\ Go(p, "body") /\ UNCHANGED <<lock, left>>
     \/ ~empty /\ Go(p, "copy") /\ UNCHANGED <<lock, left>>
  /\ UNCHANGED <<pipe, freed, ref, killed>>

\* piperead(): sleep.
readempty(p) ==
  /\ p \in Reader /\ pc[p] = "body"
  /\ lock' = NoProc
  /\ Go(p, "asleep")
  /\ UNCHANGED <<pipe, freed, ref, left, killed>>

\* piperead(): a byte comes out; if copyout() fails it is lost and the call ends.
readbyte(p) ==
  /\ p \in Reader /\ pc[p] = "copy" /\ left[p] > 0 /\ nread # nwrite
  /\ nread' = Inc(nread)
  /\ \/ left' = [left EXCEPT ![p] = @ - 1] /\ UNCHANGED <<pc, lock>>
     \/ WakeWriters(p, "user") /\ Return(p)
  /\ UNCHANGED <<data, nwrite, readopen, writeopen, freed, ref, killed>>

\* Mutant of readdone: writers are not woken.
readdone_no_wakeup(p) ==
  /\ p \in Reader /\ pc[p] = "copy" /\ (left[p] = 0 \/ nread = nwrite)
  /\ Go(p, "user")
  /\ Return(p)
  /\ UNCHANGED <<pipe, freed, ref, killed>>

\* The end of piperead().
readdone(p) ==
  /\ p \in Reader /\ pc[p] = "copy" /\ (left[p] = 0 \/ nread = nwrite)
  /\ WakeWriters(p, "user")
  /\ Return(p)
  /\ UNCHANGED <<pipe, freed, ref, killed>>
-----------------------------------------------------------------------------
\* Mutant of fileclose: every close closes the end.
fileclose_each(p) ==
  LET end == IF p \in Reader THEN "r" ELSE "w" IN
  /\ pc[p] = "user"
  /\ ref' = [ref EXCEPT ![end] = @ - 1]
  /\ Go(p, "closing")
  /\ UNCHANGED <<pipe, lock, freed, left, killed>>

\* fileclose(): the last one out closes the end.
fileclose(p) ==
  LET end == IF p \in Reader THEN "r" ELSE "w" IN
  /\ pc[p] = "user"
  /\ ref' = [ref EXCEPT ![end] = @ - 1]
  /\ Go(p, IF ref[end] = 1 THEN "closing" ELSE "closed")
  /\ UNCHANGED <<pipe, lock, freed, left, killed>>

\* Mutant of pipeclose: the other side is not woken.
pipeclose_no_wakeup(p) ==
  /\ pc[p] = "closing" /\ lock = NoProc
  /\ IF p \in Writer
     THEN writeopen' = FALSE /\ UNCHANGED readopen
     ELSE readopen' = FALSE /\ UNCHANGED writeopen
  /\ Go(p, "closed")
  /\ freed' = (~readopen' /\ ~writeopen')
  /\ UNCHANGED <<data, nread, nwrite, lock, ref, left, killed>>

\* pipeclose().
pipeclose(p) ==
  /\ pc[p] = "closing" /\ lock = NoProc
  /\ IF p \in Writer
     THEN writeopen' = FALSE /\ WakeReaders(p, "closed") /\ UNCHANGED readopen
     ELSE readopen' = FALSE /\ WakeWriters(p, "closed") /\ UNCHANGED writeopen
  /\ freed' = (~readopen' /\ ~writeopen')
  /\ UNCHANGED <<data, nread, nwrite, lock, ref, left, killed>>

\* kkill(): wakes its victim.
kkill(p) ==
  /\ ~killed[p] /\ pc[p] # "closed"
  /\ killed' = [killed EXCEPT ![p] = TRUE]
  /\ Go(p, IF pc[p] = "asleep" THEN "acquire" ELSE pc[p])
  /\ UNCHANGED <<pipe, lock, freed, ref, left>>

\* Everybody is asleep or has closed its files, and the CPUs idle.
Rest == (\A p \in Proc : pc[p] \in {"asleep", "closed"}) /\ UNCHANGED vars
-----------------------------------------------------------------------------
\* The code of a call or of pipeclose() goes on.
Step(p) ==
  \/ acquire(p) \/ pipeclose(p)
  \/ pipewrite(p) \/ writefull(p) \/ writefault(p) \/ \E v \in Val : writebyte(p, v)
  \/ piperead(p) \/ readempty(p) \/ readbyte(p) \/ readdone(p)

Next ==
  \/ \E p \in Proc : Step(p) \/ fileclose(p) \/ kkill(p) \/ \E k \in 0 .. MaxN : Call(p, k)
  \/ Rest

Spec == Init /\ [][Next]_vars

\* The scheduler runs every process, and one that keeps finding pi->lock free
\* gets it; nobody has to make calls or close its files.
FairSpec == Spec /\ \A p \in Proc : SF_vars(Step(p))
-----------------------------------------------------------------------------
TypeOK ==
  /\ data \in [0 .. PIPESIZE - 1 -> Val]
  /\ nread \in 0 .. CounterMod - 1 /\ nwrite \in 0 .. CounterMod - 1
  /\ readopen \in BOOLEAN /\ writeopen \in BOOLEAN /\ freed \in BOOLEAN
  /\ lock \in Proc \cup {NoProc}
  /\ ref \in [{"r", "w"} -> Nat]
  /\ pc \in [Proc -> {"user", "acquire", "loop", "body", "copy", "asleep",
                      "closing", "closed"}]
  /\ left \in [Proc -> 0 .. MaxN]
  /\ killed \in [Proc -> BOOLEAN]

\* No wakeup is lost while both ends are open: when pi->lock is free, a sleeping
\* writer has no room and a sleeping reader nothing to read.  The exception is
\* pipewrite()'s: a writer killed between two bytes leaves without waking the
\* readers.
NoLostWakeup ==
  lock = NoProc =>
    /\ \A p \in Writer : pc[p] = "asleep" => Full \/ ~readopen
    /\ \A p \in Reader : pc[p] = "asleep" =>
         nread = nwrite \/ ~writeopen \/ \E w \in Writer : killed[w]

\* Its inductive form: what a sleeper waits for may have come while the process
\* that will wake it still has the lock.
LockInv ==
  /\ \A p \in Proc : pc[p] \in {"loop", "body", "copy"} => lock = p
  /\ \A p \in Writer : pc[p] # "copy" /\ (pc[p] = "body" => left[p] > 0 /\ readopen)
  /\ \A p \in Reader : pc[p] = "body" => nread = nwrite
SleepInv ==
  /\ \A p \in Writer : pc[p] = "asleep" =>
       Full \/ ~readopen \/ \E q \in Reader : pc[q] = "copy"
  /\ \A p \in Reader : pc[p] = "asleep" =>
       nread = nwrite \/ ~writeopen \/ \E q \in Writer : killed[q] \/ pc[q] \in {"loop", "body"}

\* The page is given back when the last user of the pipe has left it for good.
FreedUnused == freed => \A p \in Proc : pc[p] = "closed"

\* Its inductive form: a file counts the processes that have not closed it, and the
\* last of them closes the end of the pipe.
OpenBy(S) == {p \in S : pc[p] \notin {"closing", "closed"}}
EndInv(S, end, open) ==
  /\ ref[end] = Cardinality(OpenBy(S))
  /\ \A p \in S : pc[p] = "closing" => open /\ \A q \in S \ {p} : pc[q] = "closed"
  /\ ~open => \A p \in S : pc[p] = "closed"
CloseInv ==
  /\ EndInv(Reader, "r", readopen) /\ EndInv(Writer, "w", writeopen)
  /\ freed => ~readopen /\ ~writeopen

\* The count of bytes under way, and the bytes.
Count == (nwrite - nread) % CounterMod
qBar == [k \in 1 .. Count |-> data[(nread + k - 1) % PIPESIZE]]

F == INSTANCE Fifo WITH Size <- PIPESIZE, q <- qBar, ropen <- readopen, wopen <- writeopen

\* The ring buffer with its wrapping counters is a bounded queue.
IsFifo == F!Spec

InCall(p) == pc[p] \in {"acquire", "loop", "body", "copy", "asleep"}

\* Closing one end ends every call on the other, asleep or on its way to sleep.
CloseReleases ==
  /\ \A p \in Writer : ~readopen /\ InCall(p) ~> ~InCall(p)
  /\ \A p \in Reader : ~writeopen /\ InCall(p) ~> ~InCall(p)
=============================================================================
