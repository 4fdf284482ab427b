----------------------------- MODULE PipeProofs -----------------------------
(***************************************************************************)
(* Proofs about Pipe for any number of readers and writers and any size:   *)
(* no wakeup is lost, the page is given back when nobody uses it, and the  *)
(* ring buffer with its wrapping counters is a bounded queue.              *)
(***************************************************************************)
EXTENDS Pipe, RingArith, FiniteSetTheorems, SequenceTheorems, TLAPS

PCs == {"user", "acquire", "loop", "body", "copy", "asleep", "closing", "closed"}

\* The inductive invariant.
RingInv == Count <= PIPESIZE
IInv == TypeOK /\ LockInv /\ SleepInv /\ CloseInv /\ RingInv

LEMMA Constants ==
  /\ PIPESIZE \in Nat \ {0} /\ CounterMod \in Nat \ {0} /\ PIPESIZE < CounterMod
  /\ CounterMod % PIPESIZE = 0 /\ MaxN \in Nat
  /\ NoProc \notin Proc /\ Writer \cap Reader = {} /\ Proc = Writer \cup Reader
  BY PipeAssumption DEF Proc

\* How a step moves the processes: p goes to l, and sleepers may be woken.
Moved(p, l) ==
  /\ pc' \in [Proc -> PCs] /\ pc'[p] = l
  /\ \A q \in Proc \ {p} : pc'[q] = pc[q] \/ (pc[q] = "asleep" /\ pc'[q] = "acquire")

LEMMA Moves ==
  ASSUME TypeOK, NEW p \in Proc, NEW l \in PCs
  PROVE  /\ Go(p, l) => Moved(p, l) /\ \A q \in Proc \ {p} : pc'[q] = pc[q]
         /\ WakeReaders(p, l) => /\ Moved(p, l)
                                 /\ \A q \in Reader \ {p} : pc'[q] # "asleep"
                                 /\ \A q \in Writer \ {p} : pc'[q] = pc[q]
         /\ WakeWriters(p, l) => /\ Moved(p, l)
                                 /\ \A q \in Writer \ {p} : pc'[q] # "asleep"
                                 /\ \A q \in Reader \ {p} : pc'[q] = pc[q]
<1>1. pc \in [Proc -> PCs] /\ Writer \subseteq Proc /\ Reader \subseteq Proc /\ Writer \cap Reader = {}
  BY Constants DEF TypeOK, PCs
<1>2. Go(p, l) => Moved(p, l) /\ \A q \in Proc \ {p} : pc'[q] = pc[q]
  BY <1>1 DEF Go, Moved
<1>3. ASSUME WakeReaders(p, l)
      PROVE  /\ Moved(p, l) /\ \A q \in Reader \ {p} : pc'[q] # "asleep"
             /\ \A q \in Writer \ {p} : pc'[q] = pc[q]
  BY <1>1, <1>3 DEF WakeReaders, Moved, PCs
<1>4. ASSUME WakeWriters(p, l)
      PROVE  /\ Moved(p, l) /\ \A q \in Writer \ {p} : pc'[q] # "asleep"
             /\ \A q \in Reader \ {p} : pc'[q] = pc[q]
  BY <1>1, <1>4 DEF WakeWriters, Moved, PCs
<1> QED
  BY <1>2, <1>3, <1>4

LEMMA InitInv == Init => IInv
<1> SUFFICES ASSUME Init PROVE IInv
  OBVIOUS
<1>1. OpenBy(Reader) = Reader /\ OpenBy(Writer) = Writer
  BY DEF Init, OpenBy, Proc
<1>2. Cardinality(Reader) \in Nat /\ Cardinality(Writer) \in Nat
  BY PipeAssumption, FS_CardinalityType
<1>3. TypeOK
  <2>1. readopen \in BOOLEAN /\ writeopen \in BOOLEAN /\ freed \in BOOLEAN /\ killed \in [Proc -> BOOLEAN]
    BY Zenon DEF Init
  <2>2. ref \in [{"r", "w"} -> Nat]
    BY <1>2 DEF Init
  <2> QED
    BY <2>1, <2>2, Constants DEF Init, TypeOK
<1>4. LockInv /\ SleepInv
  BY Constants DEF Init, LockInv, SleepInv
<1>5. CloseInv
  <2>1. readopen /\ writeopen /\ ~freed
    BY Zenon DEF Init
  <2>2. \A p \in Proc : pc[p] = "user"
    BY DEF Init
  <2>3. ref["r"] = Cardinality(Reader) /\ ref["w"] = Cardinality(Writer)
    BY DEF Init
  <2> QED
    BY <1>1, <2>1, <2>2, <2>3, Constants DEF CloseInv, EndInv
<1>6. RingInv
  BY Constants, Wrapping DEF Init, RingInv, Count
<1> QED
  BY <1>3, <1>4, <1>5, <1>6 DEF IInv
-----------------------------------------------------------------------------
(* Files and their counts *)

\* Who has not closed its file is counted.
LEMMA CountedOpen ==
  ASSUME TypeOK, NEW S, S = Reader \/ S = Writer
  PROVE  /\ IsFiniteSet(OpenBy(S)) /\ Cardinality(OpenBy(S)) \in Nat
         /\ \A p \in OpenBy(S) : /\ Cardinality(OpenBy(S) \ {p}) = Cardinality(OpenBy(S)) - 1
                                 /\ Cardinality(OpenBy(S)) > 0
                                 /\ Cardinality(OpenBy(S)) = 1 => OpenBy(S) = {p}
<1>1. IsFiniteSet(S) /\ OpenBy(S) \in SUBSET S
  BY PipeAssumption DEF OpenBy
<1>2. IsFiniteSet(OpenBy(S)) /\ Cardinality(OpenBy(S)) \in Nat
  BY <1>1, FS_Subset, FS_CardinalityType
<1>3. ASSUME NEW p \in OpenBy(S)
      PROVE  /\ Cardinality(OpenBy(S) \ {p}) = Cardinality(OpenBy(S)) - 1
             /\ Cardinality(OpenBy(S)) > 0
             /\ Cardinality(OpenBy(S)) = 1 => OpenBy(S) = {p}
  <2> DEFINE T == OpenBy(S)
  <2>1. Cardinality(T \ {p}) = Cardinality(T) - 1 /\ IsFiniteSet(T \ {p})
    BY <1>2, <1>3, FS_RemoveElement
  <2>2. Cardinality(T \ {p}) \in Nat /\ (Cardinality(T \ {p}) = 0 => T \ {p} = {})
    BY <2>1, FS_CardinalityType, FS_EmptySet
  <2> HIDE DEF T
  <2>3. Cardinality(T) > 0 /\ (Cardinality(T) = 1 => T \ {p} = {})
    BY <1>2, <2>1, <2>2 DEF T
  <2> QED
    BY <2>1, <2>3 DEF T
<1> QED
  BY <1>2, <1>3

\* One end, when a process of it closes its file.
LEMMA CloseFile ==
  ASSUME TypeOK, NEW S, S = Reader \/ S = Writer, NEW end \in {"r", "w"}, NEW open \in BOOLEAN,
         EndInv(S, end, open), NEW p \in S, pc[p] = "user", Moved(p, IF ref[end] = 1 THEN "closing" ELSE "closed"),
         \A q \in S \ {p} : pc'[q] = pc[q], ref'[end] = ref[end] - 1
  PROVE  /\ ref'[end] = Cardinality(OpenBy(S)') /\ ref'[end] \in Nat /\ open
         /\ \A q \in S : pc'[q] = "closing" => \A u \in S \ {q} : pc'[u] = "closed"
<1>1. p \in OpenBy(S) /\ ref[end] = Cardinality(OpenBy(S)) /\ open /\ S \subseteq Proc /\ ref[end] \in Nat
  BY Constants DEF OpenBy, EndInv, TypeOK
<1>2. /\ Cardinality(OpenBy(S) \ {p}) = ref[end] - 1 /\ ref[end] > 0
      /\ (ref[end] = 1 => OpenBy(S) = {p})
  BY <1>1, CountedOpen
<1>3. OpenBy(S)' = OpenBy(S) \ {p}
  BY <1>1 DEF OpenBy, Moved
<1>4. \A q \in S : pc[q] # "closing"
  BY DEF EndInv
<1>5. ref[end] = 1 => \A q \in S \ {p} : pc[q] = "closed"
  BY <1>2, <1>4 DEF OpenBy
<1>6. ASSUME NEW q \in S, pc'[q] = "closing" PROVE \A u \in S \ {q} : pc'[u] = "closed"
  <2>1. q = p /\ ref[end] = 1
    BY <1>4, <1>6 DEF Moved
  <2> QED
    BY <1>5, <2>1
<1> QED
  BY <1>1, <1>2, <1>3, <1>6

\* A step that moves nobody in or out of closing keeps CloseInv.
LEMMA KeepClose ==
  ASSUME CloseInv, UNCHANGED <<ref, readopen, writeopen, freed>>,
         \A q \in Proc : pc'[q] = pc[q] \/ {pc[q], pc'[q]} \cap {"closing", "closed"} = {}
  PROVE  CloseInv'
<1>1. OpenBy(Reader)' = OpenBy(Reader) /\ OpenBy(Writer)' = OpenBy(Writer)
  BY Constants DEF OpenBy
<1>2. \A q \in Proc : \A c \in {"closing", "closed"} : pc'[q] = c <=> pc[q] = c
  OBVIOUS
<1>3. Writer \subseteq Proc /\ Reader \subseteq Proc
  BY Constants
<1>4. EndInv(Reader, "r", readopen)'
  BY <1>1, <1>2, <1>3 DEF CloseInv, EndInv
<1>5. EndInv(Writer, "w", writeopen)'
  BY <1>1, <1>2, <1>3 DEF CloseInv, EndInv
<1> QED
  BY <1>4, <1>5 DEF CloseInv
-----------------------------------------------------------------------------
(* What a step inside a call keeps *)

LEMMA KeepLock ==
  ASSUME TypeOK, LockInv, NEW p \in Proc, NEW l \in PCs, Moved(p, l), UNCHANGED readopen,
         \A q \in Proc \ {p} : left'[q] = left[q],
         lock' = lock \/ lock \in {p, NoProc},
         UNCHANGED <<nread, nwrite>> \/ lock = p,
         l \in {"loop", "body", "copy"} => lock' = p,
         p \in Writer => l # "copy" /\ (l = "body" => left'[p] > 0 /\ readopen),
         p \in Reader /\ l = "body" => nread' = nwrite'
  PROVE  LockInv'
<1>1. NoProc \notin Proc /\ Writer \subseteq Proc /\ Reader \subseteq Proc
  BY Constants
<1>2. ASSUME NEW q \in Proc \ {p}, pc'[q] \in {"loop", "body", "copy"}
      PROVE  pc'[q] = pc[q] /\ lock = q /\ lock' = q /\ UNCHANGED <<nread, nwrite>>
  BY <1>1, <1>2 DEF Moved, LockInv
<1>3. \A q \in Proc : pc'[q] \in {"loop", "body", "copy"} => lock' = q
  BY <1>2 DEF Moved
<1>4. ASSUME NEW q \in Writer PROVE pc'[q] # "copy" /\ (pc'[q] = "body" => left'[q] > 0 /\ readopen')
  <2>1. CASE q = p
    BY <2>1 DEF Moved
  <2>2. CASE q # p
    <3>1. q \in Proc \ {p} /\ left'[q] = left[q]
      BY <1>1, <2>2
    <3> QED
      BY <1>2, <3>1 DEF LockInv
  <2> QED
    BY <2>1, <2>2
<1>5. ASSUME NEW q \in Reader, pc'[q] = "body" PROVE nread' = nwrite'
  <2>1. CASE q = p
    BY <1>5, <2>1 DEF Moved
  <2>2. CASE q # p
    <3>1. q \in Proc \ {p}
      BY <1>1, <2>2
    <3> QED
      BY <1>2, <1>5, <3>1 DEF LockInv
  <2> QED
    BY <2>1, <2>2
<1> QED
  BY <1>3, <1>4, <1>5 DEF LockInv

LEMMA KeepSleep ==
  ASSUME SleepInv, UNCHANGED <<nread, nwrite, readopen, writeopen>>,
         \A q \in Proc : pc'[q] = "asleep" => pc[q] = "asleep",
         \A q \in Reader : pc[q] = "copy" => pc'[q] = "copy",
         \A q \in Writer : /\ pc[q] \in {"loop", "body"} => pc'[q] \in {"loop", "body"}
                           /\ killed[q] => killed'[q]
  PROVE  SleepInv'
<1>1. Full' = Full /\ Writer \subseteq Proc /\ Reader \subseteq Proc
  BY Constants DEF Full
<1>2. \A p \in Writer : pc'[p] = "asleep" => Full' \/ ~readopen' \/ \E q \in Reader : pc'[q] = "copy"
  BY <1>1 DEF SleepInv
<1>3. ASSUME NEW p \in Reader, pc'[p] = "asleep"
      PROVE  \/ nread' = nwrite' \/ ~writeopen'
             \/ \E q \in Writer : killed'[q] \/ pc'[q] \in {"loop", "body"}
  <2>1. nread = nwrite \/ ~writeopen \/ \E q \in Writer : killed[q] \/ pc[q] \in {"loop", "body"}
    BY <1>1, <1>3 DEF SleepInv
  <2> QED
    BY <2>1
<1> QED
  BY <1>2, <1>3 DEF SleepInv

LEMMA KeepRing == RingInv /\ UNCHANGED <<nread, nwrite>> => RingInv'
  BY DEF RingInv, Count

\* The types of what such a step changes.
LEMMA KeepType ==
  ASSUME TypeOK, UNCHANGED <<readopen, writeopen, freed, ref>>, pc' \in [Proc -> PCs],
         data' \in [0 .. PIPESIZE - 1 -> Val],
         nread' \in 0 .. CounterMod - 1, nwrite' \in 0 .. CounterMod - 1,
         lock' \in Proc \cup {NoProc}, left' \in [Proc -> 0 .. MaxN], killed' \in [Proc -> BOOLEAN]
  PROVE  TypeOK'
  BY DEF TypeOK, PCs
-----------------------------------------------------------------------------
(* IInv holds on, action by action *)

LEMMA CallInv ==
  ASSUME IInv, NEW p \in Proc, NEW k \in 0 .. MaxN, Call(p, k)
  PROVE  IInv'
<1>1. UNCHANGED <<data, nread, nwrite, readopen, writeopen, lock, freed, ref, killed>>
  BY DEF Call, pipe
<1>2. TypeOK /\ LockInv /\ SleepInv /\ CloseInv /\ RingInv /\ pc[p] = "user"
  BY DEF IInv, Call
<1>3. Moved(p, "acquire") /\ \A q \in Proc \ {p} : pc'[q] = pc[q]
  BY <1>2, Moves DEF Call, PCs
<1>4. left' \in [Proc -> 0 .. MaxN] /\ \A q \in Proc \ {p} : left'[q] = left[q]
  BY <1>2 DEF Call, TypeOK
<1>5. TypeOK'
  BY <1>1, <1>2, <1>3, <1>4, KeepType DEF Moved, TypeOK
<1>6. LockInv'
  BY <1>1, <1>2, <1>3, <1>4, KeepLock DEF PCs
<1>7. SleepInv'
  BY <1>1, <1>2, <1>3, KeepSleep, Constants DEF Moved
<1>8. CloseInv'
  BY <1>1, <1>2, <1>3, KeepClose DEF Moved
<1> QED
  BY <1>1, <1>2, <1>5, <1>6, <1>7, <1>8, KeepRing DEF IInv

LEMMA AcquireInv ==
  ASSUME IInv, NEW p \in Proc, acquire(p)
  PROVE  IInv'
<1>1. UNCHANGED <<data, nread, nwrite, readopen, writeopen, freed, ref, left, killed>>
  BY DEF acquire, pipe
<1>2. /\ TypeOK /\ LockInv /\ SleepInv /\ CloseInv /\ RingInv
      /\ pc[p] = "acquire" /\ lock = NoProc /\ lock' = p
  BY DEF IInv, acquire
<1>3. Moved(p, "loop") /\ \A q \in Proc \ {p} : pc'[q] = pc[q]
  BY <1>2, Moves DEF acquire, PCs
<1>5. TypeOK'
  BY <1>1, <1>2, <1>3, KeepType DEF Moved, TypeOK
<1>6. LockInv'
  BY <1>1, <1>2, <1>3, KeepLock DEF PCs
<1>7. SleepInv'
  BY <1>1, <1>2, <1>3, KeepSleep, Constants DEF Moved
<1>8. CloseInv'
  BY <1>1, <1>2, <1>3, KeepClose DEF Moved
<1> QED
  BY <1>1, <1>2, <1>5, <1>6, <1>7, <1>8, KeepRing DEF IInv

\* A step that wakes the readers, or the writers, leaves only the others asleep.
LEMMA WakeSleep ==
  ASSUME TypeOK, SleepInv, NEW p \in Proc, NEW l \in PCs, UNCHANGED <<readopen, writeopen, killed>>
  PROVE  /\ p \in Writer /\ WakeReaders(p, l) /\ UNCHANGED <<nread, nwrite>> /\ (l = "asleep" => Full)
            => SleepInv'
         /\ /\ p \in Reader /\ WakeWriters(p, l) /\ l # "asleep"
            /\ UNCHANGED <<nread, nwrite>> \/ \A q \in Reader : pc[q] = "asleep" =>
                                                ~writeopen \/ \E u \in Writer : killed[u]
            => SleepInv'
<1>1. Writer \subseteq Proc /\ Reader \subseteq Proc /\ Writer \cap Reader = {}
  BY Constants
<1>2. ASSUME p \in Writer, WakeReaders(p, l), UNCHANGED <<nread, nwrite>>, l = "asleep" => Full
      PROVE  SleepInv'
  <2>1. /\ Moved(p, l) /\ \A q \in Reader \ {p} : pc'[q] # "asleep"
        /\ \A q \in Writer \ {p} : pc'[q] = pc[q]
    BY <1>2, Moves
  <2>2. \A q \in Reader : pc'[q] # "asleep" /\ (pc[q] = "copy" => pc'[q] = "copy")
    BY <1>1, <1>2, <2>1 DEF Moved
  <2>3. Full' = Full
    BY <1>2 DEF Full
  <2>4. \A q \in Writer : pc'[q] = "asleep" => pc[q] = "asleep" \/ Full
    BY <1>2, <2>1 DEF Moved
  <2> QED
    BY <2>2, <2>3, <2>4 DEF SleepInv
<1>3. ASSUME p \in Reader, WakeWriters(p, l), l # "asleep",
             UNCHANGED <<nread, nwrite>> \/ \A q \in Reader : pc[q] = "asleep" =>
                                                ~writeopen \/ \E u \in Writer : killed[u]
      PROVE  SleepInv'
  <2>1. /\ Moved(p, l) /\ \A q \in Writer \ {p} : pc'[q] # "asleep"
        /\ \A q \in Reader \ {p} : pc'[q] = pc[q]
    BY <1>3, Moves
  <2>2. \A q \in Writer : pc'[q] # "asleep" /\ (pc[q] \in {"loop", "body"} => pc'[q] = pc[q])
    BY <1>1, <1>3, <2>1 DEF Moved
  <2>3. \A q \in Reader : pc'[q] = "asleep" => pc[q] = "asleep"
    BY <1>3, <2>1 DEF Moved
  <2>4. ASSUME NEW q \in Reader, pc'[q] = "asleep"
        PROVE  \/ nread' = nwrite' \/ ~writeopen'
               \/ \E u \in Writer : killed'[u] \/ pc'[u] \in {"loop", "body"}
    <3>1. CASE UNCHANGED <<nread, nwrite>>
      BY <2>2, <2>3, <2>4, <3>1 DEF SleepInv
    <3>2. CASE ~writeopen \/ \E u \in Writer : killed[u]
      BY <3>2
    <3> QED
      BY <1>3, <2>3, <2>4, <3>1, <3>2
  <2> QED
    BY <2>2, <2>4 DEF SleepInv
<1> QED
  BY <1>2, <1>3

\* pipewrite() but for writebyte(): nothing goes in.
LEMMA WriteInv ==
  ASSUME IInv, NEW p \in Proc, pipewrite(p) \/ writefull(p) \/ writefault(p)
  PROVE  IInv'
<1>1. UNCHANGED <<data, nread, nwrite, readopen, writeopen, freed, ref, killed>>
  BY DEF pipewrite, writefull, writefault, pipe
<1>2. /\ TypeOK /\ LockInv /\ SleepInv /\ CloseInv /\ RingInv
      /\ p \in Writer /\ pc[p] \in {"loop", "body"} /\ lock = p
  BY DEF IInv, pipewrite, writefull, writefault, LockInv
<1>3. /\ left' \in [Proc -> 0 .. MaxN] /\ \A q \in Proc \ {p} : left'[q] = left[q]
      /\ lock' \in {p, NoProc}
  BY <1>2, Constants DEF pipewrite, writefull, writefault, written, Return, TypeOK
<1>4. \E l \in {"user", "body", "asleep"} :
        /\ Moved(p, l)
        /\ l = "body" => lock' = p /\ left'[p] > 0 /\ readopen
        /\ SleepInv'
  <2>1. CASE WakeReaders(p, "user")
    BY <1>1, <1>2, <2>1, Moves, WakeSleep DEF PCs
  <2>2. CASE writefull(p)
    BY <1>1, <1>2, <2>2, Moves, WakeSleep DEF writefull, PCs
  <2>3. CASE Go(p, "user") /\ (~readopen \/ killed[p])
    <3>1. Moved(p, "user") /\ \A q \in Proc \ {p} : pc'[q] = pc[q]
      BY <1>2, <2>3, Moves DEF PCs
    <3>2. \A q \in Reader : ~readopen => pc[q] = "closed"
      BY <1>2 DEF CloseInv, EndInv
    <3>3. \A q \in Proc : pc'[q] = pc[q] \/ (q = p /\ pc'[q] = "user")
      BY <3>1 DEF Moved
    <3>4. Full' = Full
      BY <1>1 DEF Full
    <3>5. \A q \in Reader : pc'[q] = pc[q]
      BY <1>2, <3>1, Constants
    <3>6. \A q \in Writer : pc'[q] = "asleep" => Full' \/ ~readopen' \/ \E u \in Reader : pc'[u] = "copy"
      BY <1>1, <1>2, <3>3, <3>4, <3>5, Constants DEF SleepInv
    <3>7. ASSUME NEW q \in Reader, pc'[q] = "asleep"
          PROVE  \E u \in Writer : killed'[u]
      BY <1>1, <1>2, <2>3, <3>2, <3>5, <3>7
    <3> QED
      BY <3>1, <3>6, <3>7 DEF SleepInv
  <2>4. CASE /\ Go(p, "body") /\ left[p] > 0 /\ readopen /\ lock' = lock /\ left' = left
             /\ pc[p] = "loop"
    <3>1. Moved(p, "body") /\ \A q \in Proc \ {p} : pc'[q] = pc[q]
      BY <1>2, <2>4, Moves DEF PCs
    <3>2. SleepInv'
      BY <1>1, <1>2, <3>1, KeepSleep, Constants DEF Moved
    <3> QED
      BY <1>2, <2>4, <3>1, <3>2
  <2> QED
    BY <2>1, <2>2, <2>3, <2>4 DEF pipewrite, writefault, written
<1>5. PICK l \in {"user", "body", "asleep"} :
        Moved(p, l) /\ (l = "body" => lock' = p /\ left'[p] > 0 /\ readopen) /\ SleepInv'
  BY <1>4
<1>6. TypeOK'
  BY <1>1, <1>2, <1>3, <1>5, KeepType DEF Moved, TypeOK
<1>7. LockInv'
  BY <1>1, <1>2, <1>3, <1>5, KeepLock, Constants DEF PCs
<1>8. CloseInv'
  BY <1>1, <1>2, <1>5, KeepClose DEF Moved
<1> QED
  BY <1>1, <1>2, <1>5, <1>6, <1>7, <1>8, KeepRing DEF IInv

\* piperead() but for readbyte(): nothing comes out.
LEMMA ReadInv ==
  ASSUME IInv, NEW p \in Proc, piperead(p) \/ readempty(p) \/ readdone(p)
  PROVE  IInv'
<1>1. UNCHANGED <<data, nread, nwrite, readopen, writeopen, freed, ref, killed>>
  BY DEF piperead, readempty, readdone, pipe
<1>2. /\ TypeOK /\ LockInv /\ SleepInv /\ CloseInv /\ RingInv
      /\ p \in Reader /\ pc[p] \in {"loop", "body", "copy"} /\ lock = p /\ p \notin Writer
  BY Constants DEF IInv, piperead, readempty, readdone, LockInv
<1>3. /\ left' \in [Proc -> 0 .. MaxN] /\ \A q \in Proc \ {p} : left'[q] = left[q]
      /\ lock' \in {p, NoProc}
  BY <1>2, Constants DEF piperead, readempty, readdone, Return, TypeOK
<1>4. \E l \in {"user", "body", "copy", "asleep"} :
        /\ Moved(p, l)
        /\ l \in {"body", "copy"} => lock' = p
        /\ l = "body" => nread = nwrite
        /\ SleepInv'
  <2>1. CASE readdone(p)
    BY <1>1, <1>2, <2>1, Moves, WakeSleep DEF readdone, PCs
  <2>2. CASE readempty(p)
    <3>1. Moved(p, "asleep") /\ (\A q \in Proc \ {p} : pc'[q] = pc[q]) /\ nread = nwrite
      BY <1>2, <2>2, Moves DEF readempty, PCs, LockInv
    <3>2. Full' = Full /\ nread' = nwrite'
      BY <1>1, <3>1 DEF Full
    <3>3. \A q \in Writer : pc'[q] = pc[q]
      BY <1>2, <3>1, Constants
    <3>4. \A q \in Reader : pc[q] = "copy" => pc'[q] = "copy"
      BY <1>2, <2>2, <3>1, Constants DEF readempty
    <3>5. SleepInv'
      BY <1>1, <1>2, <3>2, <3>3, <3>4 DEF SleepInv
    <3> QED
      BY <3>1, <3>5
  <2>3. ASSUME NEW l \in {"user", "body", "copy"}, Go(p, l), pc[p] = "loop",
               l # "user" => lock' = lock, l = "body" => nread = nwrite
        PROVE  Moved(p, l) /\ (l \in {"body", "copy"} => lock' = p) /\ SleepInv'
    <3>1. Moved(p, l) /\ \A q \in Proc \ {p} : pc'[q] = pc[q]
      BY <1>2, <2>3, Moves DEF PCs
    <3>2. SleepInv'
      BY <1>1, <1>2, <2>3, <3>1, KeepSleep, Constants DEF Moved
    <3> QED
      BY <1>2, <2>3, <3>1, <3>2
  <2>4. CASE piperead(p)
    BY <2>3, <2>4 DEF piperead
  <2> QED
    BY <2>1, <2>2, <2>4
<1>5. PICK l \in {"user", "body", "copy", "asleep"} :
        /\ Moved(p, l) /\ (l \in {"body", "copy"} => lock' = p) /\ (l = "body" => nread = nwrite)
        /\ SleepInv'
  BY <1>4
<1>6. TypeOK'
  BY <1>1, <1>2, <1>3, <1>5, KeepType DEF Moved, TypeOK
<1>7. LockInv'
  BY <1>1, <1>2, <1>3, <1>5, KeepLock, Constants DEF PCs
<1>8. CloseInv'
  BY <1>1, <1>2, <1>5, KeepClose DEF Moved
<1> QED
  BY <1>1, <1>2, <1>5, <1>6, <1>7, <1>8, KeepRing DEF IInv

LEMMA KillInv ==
  ASSUME IInv, NEW p \in Proc, kkill(p)
  PROVE  IInv'
<1>1. UNCHANGED <<data, nread, nwrite, readopen, writeopen, lock, freed, ref, left>>
  BY DEF kkill, pipe
<1>2. TypeOK /\ LockInv /\ SleepInv /\ CloseInv /\ RingInv
  BY DEF IInv
<1> DEFINE l == IF pc[p] = "asleep" THEN "acquire" ELSE pc[p]
<1>3. l \in PCs /\ Moved(p, l) /\ \A q \in Proc \ {p} : pc'[q] = pc[q]
  <2>1. l \in PCs
    BY <1>2 DEF TypeOK, PCs
  <2> QED
    BY <1>2, <2>1, Moves DEF kkill
<1>4. killed' \in [Proc -> BOOLEAN] /\ \A q \in Proc : killed[q] => killed'[q]
  BY <1>2 DEF kkill, TypeOK
<1>5. TypeOK'
  BY <1>1, <1>2, <1>3, <1>4, KeepType DEF Moved, TypeOK
<1>6. LockInv'
  BY <1>1, <1>2, <1>3, KeepLock, Constants DEF LockInv
<1>7. SleepInv'
  BY <1>1, <1>2, <1>3, <1>4, KeepSleep, Constants DEF Moved
<1>8. CloseInv'
  BY <1>1, <1>2, <1>3, KeepClose DEF Moved
<1> QED
  BY <1>1, <1>2, <1>5, <1>6, <1>7, <1>8, KeepRing DEF IInv

LEMMA FilecloseInv ==
  ASSUME IInv, NEW p \in Proc, fileclose(p)
  PROVE  IInv'
<1> DEFINE end == IF p \in Reader THEN "r" ELSE "w"
           l == IF ref[end] = 1 THEN "closing" ELSE "closed"
<1>1. UNCHANGED <<data, nread, nwrite, readopen, writeopen, lock, freed, left, killed>>
  BY DEF fileclose, pipe
<1>2. TypeOK /\ LockInv /\ SleepInv /\ CloseInv /\ RingInv /\ pc[p] = "user"
  BY DEF IInv, fileclose
<1>3. /\ l \in PCs /\ Moved(p, l) /\ (\A q \in Proc \ {p} : pc'[q] = pc[q])
      /\ ref' = [ref EXCEPT ![end] = @ - 1]
  <2>1. l \in PCs
    BY DEF PCs
  <2> QED
    BY <1>2, <2>1, Moves DEF fileclose
<1>4. CloseInv' /\ ref' \in [{"r", "w"} -> Nat]
  <2>1. /\ readopen \in BOOLEAN /\ writeopen \in BOOLEAN /\ ref \in [{"r", "w"} -> Nat]
        /\ EndInv(Reader, "r", readopen) /\ EndInv(Writer, "w", writeopen)
        /\ Writer \subseteq Proc /\ Reader \subseteq Proc /\ Writer \cap Reader = {}
    BY <1>2, Constants DEF TypeOK, CloseInv
  <2>2. CASE p \in Reader
    <3>1. end = "r" /\ ref'["r"] = ref["r"] - 1 /\ ref'["w"] = ref["w"]
      BY <1>3, <2>1, <2>2
    <3>2. /\ ref'["r"] = Cardinality(OpenBy(Reader)') /\ ref'["r"] \in Nat /\ readopen
          /\ \A q \in Reader : pc'[q] = "closing" => \A u \in Reader \ {q} : pc'[u] = "closed"
      BY <1>2, <1>3, <2>1, <2>2, <3>1, CloseFile
    <3>3. \A q \in Writer : pc'[q] = pc[q]
      BY <1>3, <2>1, <2>2
    <3>4. OpenBy(Writer)' = OpenBy(Writer)
      BY <3>3 DEF OpenBy
    <3>5. EndInv(Writer, "w", writeopen)'
      BY <1>1, <2>1, <3>1, <3>3, <3>4 DEF EndInv
    <3>6. EndInv(Reader, "r", readopen)'
      BY <1>1, <3>2 DEF EndInv
    <3>7. freed' => ~readopen' /\ ~writeopen'
      BY <1>1, <1>2 DEF CloseInv
    <3>8. ref' \in [{"r", "w"} -> Nat]
      BY <1>3, <2>1, <3>1, <3>2
    <3> QED
      BY <3>5, <3>6, <3>7, <3>8 DEF CloseInv
  <2>3. CASE p \in Writer
    <3>1. end = "w" /\ ref'["w"] = ref["w"] - 1 /\ ref'["r"] = ref["r"]
      BY <1>3, <2>1, <2>3
    <3>2. /\ ref'["w"] = Cardinality(OpenBy(Writer)') /\ ref'["w"] \in Nat /\ writeopen
          /\ \A q \in Writer : pc'[q] = "closing" => \A u \in Writer \ {q} : pc'[u] = "closed"
      BY <1>2, <1>3, <2>1, <2>3, <3>1, CloseFile
    <3>3. \A q \in Reader : pc'[q] = pc[q]
      BY <1>3, <2>1, <2>3
    <3>4. OpenBy(Reader)' = OpenBy(Reader)
      BY <3>3 DEF OpenBy
    <3>5. EndInv(Reader, "r", readopen)'
      BY <1>1, <2>1, <3>1, <3>3, <3>4 DEF EndInv
    <3>6. EndInv(Writer, "w", writeopen)'
      BY <1>1, <3>2 DEF EndInv
    <3>7. freed' => ~readopen' /\ ~writeopen'
      BY <1>1, <1>2 DEF CloseInv
    <3>8. ref' \in [{"r", "w"} -> Nat]
      BY <1>3, <2>1, <3>1, <3>2
    <3> QED
      BY <3>5, <3>6, <3>7, <3>8 DEF CloseInv
  <2> QED
    BY <2>2, <2>3, Constants
<1>5. TypeOK'
  BY <1>1, <1>2, <1>3, <1>4 DEF Moved, TypeOK, PCs
<1>6. LockInv'
  BY <1>1, <1>2, <1>3, KeepLock
<1>7. SleepInv'
  BY <1>1, <1>2, <1>3, KeepSleep, Constants DEF Moved
<1> QED
  BY <1>1, <1>2, <1>4, <1>5, <1>6, <1>7, KeepRing DEF IInv

LEMMA PipecloseInv ==
  ASSUME IInv, NEW p \in Proc, pipeclose(p)
  PROVE  IInv'
<1>1. UNCHANGED <<data, nread, nwrite, lock, ref, left, killed>>
  BY DEF pipeclose
<1>2. /\ TypeOK /\ LockInv /\ SleepInv /\ CloseInv /\ RingInv /\ pc[p] = "closing" /\ lock = NoProc
      /\ Writer \subseteq Proc /\ Reader \subseteq Proc /\ Writer \cap Reader = {}
      /\ EndInv(Reader, "r", readopen) /\ EndInv(Writer, "w", writeopen)
  BY Constants DEF IInv, pipeclose, CloseInv
<1>3. Moved(p, "closed")
  BY <1>2, Moves DEF pipeclose, PCs
<1>4. readopen' \in BOOLEAN /\ writeopen' \in BOOLEAN /\ freed' \in BOOLEAN
  <2>1. readopen \in BOOLEAN /\ writeopen \in BOOLEAN
    BY <1>2 DEF TypeOK
  <2> QED
    BY <2>1, Zenon DEF pipeclose
<1>5. freed' => ~readopen' /\ ~writeopen'
  BY Zenon DEF pipeclose
<1>6. TypeOK'
  BY <1>1, <1>2, <1>3, <1>4 DEF Moved, TypeOK, PCs
<1>7. LockInv'
  <2>1. \A q \in Proc : pc'[q] \notin {"loop", "body", "copy"}
    BY <1>2, <1>3, Constants DEF Moved, LockInv
  <2> QED
    BY <1>2, <2>1 DEF LockInv
<1>8. OpenBy(Writer)' = OpenBy(Writer) /\ OpenBy(Reader)' = OpenBy(Reader)
  BY <1>2, <1>3 DEF OpenBy, Moved
<1>9. \A q \in Proc \ {p} : \A c \in {"closing", "closed"} : pc'[q] = c <=> pc[q] = c
  BY <1>3 DEF Moved
<1>10. CASE p \in Writer
  <2>1. ~writeopen' /\ WakeReaders(p, "closed") /\ UNCHANGED readopen /\ p \notin Reader
    BY <1>2, <1>10 DEF pipeclose
  <2>2. (\A q \in Reader \ {p} : pc'[q] # "asleep") /\ (\A q \in Writer \ {p} : pc'[q] = pc[q])
    BY <1>2, <2>1, Moves DEF PCs
  <2>3. EndInv(Writer, "w", writeopen)'
    BY <1>1, <1>2, <1>3, <1>8, <1>9, <1>10 DEF EndInv, Moved
  <2>4. EndInv(Reader, "r", readopen)'
    BY <1>1, <1>2, <1>8, <1>9, <2>1 DEF EndInv
  <2>5. \A q \in Reader : pc'[q] # "asleep" /\ (pc[q] = "copy" => pc'[q] = "copy")
    BY <1>2, <1>3, <2>1, <2>2 DEF Moved
  <2>6. Full' = Full
    BY <1>1 DEF Full
  <2>7. \A q \in Writer : pc'[q] = "asleep" => pc[q] = "asleep"
    BY <1>3, <2>2 DEF Moved
  <2>8. SleepInv'
    BY <1>2, <2>1, <2>5, <2>6, <2>7 DEF SleepInv
  <2> QED
    BY <1>1, <1>2, <1>5, <1>6, <1>7, <2>3, <2>4, <2>8, KeepRing DEF IInv, CloseInv
<1>11. CASE p \in Reader
  <2>1. ~readopen' /\ WakeWriters(p, "closed") /\ UNCHANGED writeopen /\ p \notin Writer
    BY <1>2, <1>11 DEF pipeclose
  <2>2. (\A q \in Writer \ {p} : pc'[q] # "asleep") /\ (\A q \in Reader \ {p} : pc'[q] = pc[q])
    BY <1>2, <2>1, Moves DEF PCs
  <2>3. EndInv(Reader, "r", readopen)'
    BY <1>1, <1>2, <1>3, <1>8, <1>9, <1>11 DEF EndInv, Moved
  <2>4. EndInv(Writer, "w", writeopen)'
    BY <1>1, <1>2, <1>8, <1>9, <2>1 DEF EndInv
  <2>5. \A q \in Writer : pc'[q] # "asleep" /\ (pc[q] \in {"loop", "body"} => pc'[q] = pc[q])
    BY <1>2, <1>3, <2>1, <2>2 DEF Moved
  <2>6. \A q \in Reader : pc'[q] = "asleep" => pc[q] = "asleep"
    BY <1>3, <2>2 DEF Moved
  <2>7. SleepInv'
    BY <1>1, <1>2, <2>1, <2>5, <2>6 DEF SleepInv
  <2> QED
    BY <1>1, <1>2, <1>5, <1>6, <1>7, <2>3, <2>4, <2>7, KeepRing DEF IInv, CloseInv
<1> QED
  BY <1>10, <1>11, Constants
-----------------------------------------------------------------------------
(* The ring *)

\* The counters without the modulus.
LEMMA Counters ==
  ASSUME TypeOK
  PROVE  /\ Count = (IF nread <= nwrite THEN nwrite - nread ELSE nwrite - nread + CounterMod)
         /\ Count \in Nat /\ (Count = 0 <=> nread = nwrite)
         /\ Inc(nread) = (IF nread + 1 = CounterMod THEN 0 ELSE nread + 1)
         /\ Inc(nwrite) = (IF nwrite + 1 = CounterMod THEN 0 ELSE nwrite + 1)
         /\ Inc(nread) \in 0 .. CounterMod - 1 /\ Inc(nwrite) \in 0 .. CounterMod - 1
         /\ Count = PIPESIZE => Full
<1>1. nread \in 0 .. CounterMod - 1 /\ nwrite \in 0 .. CounterMod - 1
  BY DEF TypeOK
<1>2. Count = (IF nread <= nwrite THEN nwrite - nread ELSE nwrite - nread + CounterMod)
  BY <1>1, Constants, Wrapping DEF Count
<1>3. /\ Inc(nread) = (IF nread + 1 = CounterMod THEN 0 ELSE nread + 1)
      /\ Inc(nwrite) = (IF nwrite + 1 = CounterMod THEN 0 ELSE nwrite + 1)
  BY <1>1, Constants, Wrapping DEF Inc
<1>4. Count = PIPESIZE => Full
  <2>1. \A m \in Nat \ {0}, x \in Nat : (x < m => x % m = x) /\ (m <= x /\ x < m + m => x % m = x - m)
    OBVIOUS
  <2> DEFINE x == nread + PIPESIZE
  <2>2. x \in Nat /\ x < CounterMod + CounterMod
    BY <1>1, Constants
  <2>3. (x < CounterMod => x % CounterMod = x) /\ (CounterMod <= x => x % CounterMod = x - CounterMod)
    <3> HIDE DEF x
    <3> QED
      BY <2>1, <2>2, Constants
  <2> QED
    BY <1>1, <1>2, <2>3, Constants DEF Full
<1> QED
  BY <1>1, <1>2, <1>3, <1>4, Constants

\* A byte more, and a byte less.
LEMMA CountUp ==
  ASSUME TypeOK, RingInv, ~Full, nwrite' = Inc(nwrite), nread' = nread
  PROVE  Count < PIPESIZE /\ Count' = Count + 1
<1>1. nread \in 0 .. CounterMod - 1 /\ nwrite \in 0 .. CounterMod - 1
  BY DEF TypeOK
<1>2. Count < PIPESIZE /\ Count \in Nat
  BY Counters, Constants DEF RingInv
<1>3. nwrite' \in 0 .. CounterMod - 1
  BY Counters
<1>4. Count' = (IF nread <= nwrite' THEN nwrite' - nread ELSE nwrite' - nread + CounterMod)
  BY <1>1, <1>3, Constants, Wrapping DEF Count
<1> QED
  BY <1>1, <1>2, <1>4, Counters, Constants

LEMMA CountDown ==
  ASSUME TypeOK, nread # nwrite, nread' = Inc(nread), nwrite' = nwrite
  PROVE  Count > 0 /\ Count' = Count - 1
<1>1. nread \in 0 .. CounterMod - 1 /\ nwrite \in 0 .. CounterMod - 1
  BY DEF TypeOK
<1>2. nread' \in 0 .. CounterMod - 1
  BY Counters
<1>3. Count' = (IF nread' <= nwrite THEN nwrite - nread' ELSE nwrite - nread' + CounterMod)
  BY <1>1, <1>2, Constants, Wrapping DEF Count
<1> QED
  BY <1>1, <1>3, Counters, Constants

LEMMA WritebyteInv ==
  ASSUME IInv, NEW p \in Proc, NEW v \in Val, writebyte(p, v)
  PROVE  IInv'
<1>1. /\ UNCHANGED <<nread, readopen, writeopen, lock, freed, ref, killed>>
      /\ data' = [data EXCEPT ![nwrite % PIPESIZE] = v] /\ nwrite' = Inc(nwrite) /\ ~Full
      /\ left' = [left EXCEPT ![p] = @ - 1]
  BY DEF writebyte
<1>2. /\ TypeOK /\ LockInv /\ SleepInv /\ CloseInv /\ RingInv /\ p \in Writer /\ pc[p] = "body"
      /\ lock = p /\ left[p] > 0 /\ p \notin Reader
  BY Constants DEF IInv, writebyte, LockInv
<1>3. Moved(p, "loop") /\ \A q \in Proc \ {p} : pc'[q] = pc[q]
  BY <1>2, Moves DEF writebyte, PCs
<1>4. left' \in [Proc -> 0 .. MaxN] /\ \A q \in Proc \ {p} : left'[q] = left[q]
  BY <1>1, <1>2, Constants DEF TypeOK
<1>5. TypeOK'
  <2>1. data' \in [0 .. PIPESIZE - 1 -> Val] /\ nwrite' \in 0 .. CounterMod - 1
    BY <1>1, <1>2, Counters DEF TypeOK
  <2> QED
    BY <1>1, <1>2, <1>3, <1>4, <2>1, KeepType DEF Moved, TypeOK
<1>6. LockInv'
  BY <1>1, <1>2, <1>3, <1>4, KeepLock DEF PCs
<1>7. SleepInv'
  <2>1. \A q \in Reader : pc[q] # "copy"
    BY <1>2, Constants DEF LockInv
  <2>2. \A q \in Writer : pc'[q] = "asleep" => ~readopen'
    BY <1>1, <1>2, <1>3, <2>1, Constants DEF SleepInv, Moved
  <2>3. pc'[p] = "loop"
    BY <1>3 DEF Moved
  <2> QED
    BY <1>2, <2>2, <2>3 DEF SleepInv
<1>8. CloseInv'
  BY <1>1, <1>2, <1>3, KeepClose DEF Moved
<1>9. RingInv'
  BY <1>1, <1>2, CountUp, Counters, Constants DEF RingInv
<1> QED
  BY <1>5, <1>6, <1>7, <1>8, <1>9 DEF IInv

LEMMA ReadbyteInv ==
  ASSUME IInv, NEW p \in Proc, readbyte(p)
  PROVE  IInv'
<1>1. /\ UNCHANGED <<data, nwrite, readopen, writeopen, freed, ref, killed>>
      /\ nread # nwrite /\ nread' = Inc(nread)
      /\ \/ left' = [left EXCEPT ![p] = @ - 1] /\ UNCHANGED <<pc, lock>>
         \/ WakeWriters(p, "user") /\ Return(p)
  BY DEF readbyte
<1>2. /\ TypeOK /\ LockInv /\ SleepInv /\ CloseInv /\ RingInv /\ p \in Reader /\ pc[p] = "copy"
      /\ lock = p /\ left[p] > 0 /\ p \notin Writer
  BY Constants DEF IInv, readbyte, LockInv
<1>3. /\ left' \in [Proc -> 0 .. MaxN] /\ \A q \in Proc \ {p} : left'[q] = left[q]
      /\ lock' \in {p, NoProc}
  BY <1>1, <1>2, Constants DEF Return, TypeOK
<1>4. \A q \in Reader : pc[q] = "asleep" => ~writeopen \/ \E u \in Writer : killed[u]
  <2>1. \A u \in Writer : pc[u] \notin {"loop", "body"}
    BY <1>2, Constants DEF LockInv
  <2> QED
    BY <1>1, <1>2, <2>1 DEF SleepInv
<1>5. \E l \in {"copy", "user"} : Moved(p, l) /\ (l = "copy" => lock' = p) /\ SleepInv'
  <2>1. CASE UNCHANGED <<pc, lock>>
    <3>1. Moved(p, "copy")
      BY <1>2, <2>1 DEF Moved, TypeOK, PCs
    <3>2. SleepInv'
      BY <1>1, <1>2, <1>4, <2>1 DEF SleepInv
    <3> QED
      BY <1>2, <2>1, <3>1, <3>2
  <2>2. CASE WakeWriters(p, "user")
    BY <1>1, <1>2, <1>4, <2>2, Moves, WakeSleep DEF PCs
  <2> QED
    BY <1>1, <2>1, <2>2
<1>6. PICK l \in {"copy", "user"} : Moved(p, l) /\ (l = "copy" => lock' = p) /\ SleepInv'
  BY <1>5
<1>7. TypeOK'
  BY <1>1, <1>2, <1>3, <1>6, KeepType, Counters DEF Moved, TypeOK
<1>8. LockInv'
  BY <1>1, <1>2, <1>3, <1>6, KeepLock DEF PCs
<1>9. CloseInv'
  BY <1>1, <1>2, <1>6, KeepClose DEF Moved
<1>10. RingInv'
  BY <1>1, <1>2, CountDown, Counters, Constants DEF RingInv
<1> QED
  BY <1>6, <1>7, <1>8, <1>9, <1>10 DEF IInv
-----------------------------------------------------------------------------
LEMMA StepInv == IInv /\ [Next]_vars => IInv'
<1> SUFFICES ASSUME IInv, [Next]_vars PROVE IInv'
  OBVIOUS
<1>1. CASE UNCHANGED vars
  <2>1. UNCHANGED <<data, nread, nwrite, readopen, writeopen, lock, freed, ref, pc, left, killed>>
    BY <1>1 DEF vars, pipe
  <2>2. TypeOK' /\ LockInv'
    BY <2>1 DEF IInv, TypeOK, LockInv
  <2>3. SleepInv'
    BY <2>1 DEF IInv, SleepInv, Full
  <2>4. CloseInv'
    BY <2>1 DEF IInv, CloseInv, EndInv, OpenBy
  <2> QED
    BY <2>1, <2>2, <2>3, <2>4, KeepRing DEF IInv
<1>2. CASE Next
  BY <1>1, <1>2, CallInv, AcquireInv, WriteInv, WritebyteInv, ReadInv, ReadbyteInv, KillInv,
     FilecloseInv, PipecloseInv DEF Next, Step, Rest
<1> QED
  BY <1>1, <1>2

\* The strengthened invariant of the pipe holds in every state.
THEOREM PipeInvariant == Spec => []IInv
  BY InitInv, StepInv, PTL DEF Spec

\* No wakeup is lost: when pi->lock is free and both ends are open, a sleeping
\* writer has no room and a sleeping reader nothing to read, unless a writer was
\* killed between two bytes.
THEOREM NoLostWakeupAlways == Spec => []NoLostWakeup
<1>1. IInv => NoLostWakeup
  BY Constants DEF IInv, LockInv, SleepInv, NoLostWakeup
<1> QED
  BY <1>1, PipeInvariant, PTL

\* pipeclose() gives the page back only when every process has closed its file.
THEOREM FreedUnusedAlways == Spec => []FreedUnused
<1>1. IInv => FreedUnused
  BY Constants DEF IInv, CloseInv, EndInv, FreedUnused
<1> QED
  BY <1>1, PipeInvariant, PTL
-----------------------------------------------------------------------------
(* The refinement *)

\* The queue has Count bytes.
LEMMA QueueIsSeq ==
  ASSUME TypeOK
  PROVE  qBar \in Seq(Val) /\ Len(qBar) = Count /\ Count \in Nat
<1>1. Count \in Nat
  BY Counters
<1>2. \A k \in 1 .. Count : (nread + k - 1) % PIPESIZE \in 0 .. PIPESIZE - 1
  BY <1>1, Constants DEF TypeOK
<1>3. \A k \in 1 .. Count : data[(nread + k - 1) % PIPESIZE] \in Val
  BY <1>2 DEF TypeOK
<1>4. qBar \in [1 .. Count -> Val]
  BY <1>3 DEF qBar
<1> QED
  BY <1>1, <1>4

LEMMA QueueUp ==
  ASSUME TypeOK, RingInv, ~Full, NEW v \in Val, nread' = nread, nwrite' = Inc(nwrite),
         data' = [data EXCEPT ![nwrite % PIPESIZE] = v]
  PROVE  Len(qBar) < PIPESIZE /\ qBar' = Append(qBar, v)
<1>1. /\ Len(qBar) = Count /\ Count < PIPESIZE /\ Count' = Count + 1 /\ Count \in Nat
      /\ qBar \in Seq(Val)
  BY CountUp, QueueIsSeq
<1>2. nread \in Nat /\ nwrite \in Nat /\ PIPESIZE \in Nat \ {0} /\ CounterMod \in Nat
  BY Constants DEF TypeOK
<1>3. (nread + Count) % PIPESIZE = nwrite % PIPESIZE
  <2>1. nread + Count = nwrite \/ nread + Count = nwrite + CounterMod
    BY <1>2, Counters
  <2>2. (nwrite + CounterMod) % PIPESIZE = nwrite % PIPESIZE
    BY <1>2, Constants, SamePlace
  <2> QED
    BY <2>1, <2>2
<1>4. ASSUME NEW k \in 1 .. Count
      PROVE  data'[(nread + k - 1) % PIPESIZE] = data[(nread + k - 1) % PIPESIZE]
  <2> DEFINE a == nread + k - 1
             b == nread + Count
  <2>1. a \in Nat /\ b \in Nat /\ a < b /\ b - a < PIPESIZE
    BY <1>1, <1>2
  <2>2. b % PIPESIZE = nwrite % PIPESIZE
    BY <1>3
  <2>3. a % PIPESIZE \in 0 .. PIPESIZE - 1
    BY <1>2, <2>1, Division
  <2> HIDE DEF a, b
  <2>4. a % PIPESIZE # b % PIPESIZE
    BY <1>2, <2>1, DistinctPlaces
  <2>5. data'[a % PIPESIZE] = data[a % PIPESIZE]
    BY <2>2, <2>3, <2>4 DEF TypeOK
  <2> QED
    BY <2>5 DEF a
<1>5. data'[nwrite % PIPESIZE] = v
  BY <1>2, Division DEF TypeOK
<1>6. qBar' = [k \in 1 .. Count + 1 |-> data'[(nread + k - 1) % PIPESIZE]]
  BY <1>1 DEF qBar
<1>7. \A k \in 1 .. Count : qBar'[k] = qBar[k]
  BY <1>1, <1>4, <1>6 DEF qBar
<1>8. qBar'[Count + 1] = v
  <2>1. nread + (Count + 1) - 1 = nread + Count
    BY <1>1, <1>2
  <2> QED
    BY <1>1, <1>3, <1>5, <1>6, <2>1
<1>9. qBar' \in Seq(Val) /\ Len(qBar') = Count + 1
  <2>1. \A k \in 1 .. Count + 1 : qBar'[k] \in Val
    <3> HIDE DEF qBar
    <3>1. \A k \in 1 .. Count : qBar[k] \in Val
      BY <1>1
    <3>2. \A k \in 1 .. Count + 1 : k \in 1 .. Count \/ k = Count + 1
      BY <1>1
    <3> QED
      BY <1>7, <1>8, <3>1, <3>2
  <2>2. qBar' \in [1 .. Count + 1 -> Val]
    BY <1>6, <2>1
  <2> HIDE DEF qBar
  <2> QED
    BY <1>1, <2>2
<1> HIDE DEF qBar
<1> QED
  BY <1>1, <1>7, <1>8, <1>9

LEMMA QueueDown ==
  ASSUME TypeOK, nread # nwrite, nread' = Inc(nread), UNCHANGED <<data, nwrite>>
  PROVE  qBar # <<>> /\ qBar' = Tail(qBar)
<1>1. /\ Len(qBar) = Count /\ Count > 0 /\ Count' = Count - 1 /\ Count \in Nat
      /\ qBar \in Seq(Val)
  BY CountDown, QueueIsSeq
<1>2. nread \in Nat /\ PIPESIZE \in Nat \ {0} /\ CounterMod \in Nat /\ nread' \in Nat
  BY Constants, Counters DEF TypeOK
<1>3. nread' = nread + 1 \/ nread' + CounterMod = nread + 1
  BY <1>2, Counters
<1>4. ASSUME NEW k \in 1 .. Count - 1
      PROVE  (nread' + k - 1) % PIPESIZE = (nread + (k + 1) - 1) % PIPESIZE
  <2> DEFINE a == nread' + k - 1
             b == nread + (k + 1) - 1
  <2>1. a \in Nat /\ (b = a \/ b = a + CounterMod)
    BY <1>2, <1>3
  <2> HIDE DEF a, b
  <2>2. (a + CounterMod) % PIPESIZE = a % PIPESIZE
    BY <1>2, <2>1, Constants, SamePlace
  <2>3. a % PIPESIZE = b % PIPESIZE
    BY <2>1, <2>2
  <2> QED
    BY <2>3 DEF a, b
<1>5. qBar' = [k \in 1 .. Count - 1 |-> data[(nread' + k - 1) % PIPESIZE]]
  BY <1>1 DEF qBar
<1>6. \A k \in 1 .. Count - 1 : qBar'[k] = qBar[k + 1]
  <2>1. \A k \in 1 .. Count - 1 : k + 1 \in 1 .. Count
    BY <1>1
  <2>2. \A k \in 1 .. Count - 1 : qBar[k + 1] = data[(nread + (k + 1) - 1) % PIPESIZE]
    BY <2>1 DEF qBar
  <2> QED
    BY <1>4, <1>5, <2>2
<1>7. qBar' = [k \in 1 .. Count - 1 |-> qBar[k + 1]]
  BY <1>5, <1>6
<1> HIDE DEF qBar
<1>8. qBar # <<>>
  BY <1>1
<1>9. /\ Tail(qBar) \in Seq(Val) /\ Len(Tail(qBar)) = Count - 1
      /\ \A k \in 1 .. Count - 1 : Tail(qBar)[k] = qBar[k + 1]
  BY <1>1, <1>8, HeadTailProperties
<1>10. Tail(qBar) = [k \in 1 .. Count - 1 |-> qBar[k + 1]]
  <2> DEFINE t == Tail(qBar)
  <2>1. t \in Seq(Val) /\ Len(t) = Count - 1 /\ \A k \in 1 .. Count - 1 : t[k] = qBar[k + 1]
    BY <1>9
  <2> HIDE DEF t
  <2>2. t = [k \in 1 .. Count - 1 |-> qBar[k + 1]]
    BY <1>1, <2>1
  <2> QED
    BY <2>2 DEF t
<1> QED
  BY <1>7, <1>8, <1>10

\* The ring buffer with its wrapping counters is a bounded queue: what pipewrite()
\* stores piperead() copies out once and in order, and nothing unread is
\* overwritten.
THEOREM PipeIsFifo == Spec => IsFifo
<1>1. Init => F!Init
  <2> SUFFICES ASSUME Init PROVE F!Init
    OBVIOUS
  <2>1. nread = 0 /\ nwrite = 0 /\ TypeOK
    BY InitInv DEF Init, IInv
  <2>2. qBar \in Seq(Val) /\ Len(qBar) = 0
    BY <2>1, Counters, QueueIsSeq
  <2>3. qBar = <<>>
    BY <2>2
  <2>4. readopen = TRUE /\ writeopen = TRUE
    BY DEF Init
  <2> QED
    BY <2>3, <2>4 DEF F!Init
<1>2. IInv /\ [Next]_vars => [F!Next]_<<qBar, readopen, writeopen>>
  <2> SUFFICES ASSUME IInv, [Next]_vars PROVE F!Next \/ UNCHANGED <<qBar, readopen, writeopen>>
    BY Zenon
  <2>1. ASSUME UNCHANGED <<data, nread, nwrite, readopen, writeopen>>
        PROVE  UNCHANGED <<qBar, readopen, writeopen>>
    BY <2>1 DEF qBar, Count
  <2>2. ASSUME NEW p \in Proc, NEW v \in Val, writebyte(p, v) PROVE F!Put(v)
    <3>1. readopen /\ writeopen
      BY <2>2 DEF writebyte, IInv, LockInv, CloseInv, EndInv
    <3>2. Len(qBar) < PIPESIZE /\ qBar' = Append(qBar, v)
      BY <2>2, QueueUp DEF writebyte, IInv
    <3>3. UNCHANGED <<readopen, writeopen>>
      BY <2>2 DEF writebyte
    <3> QED
      BY <3>1, <3>2, <3>3 DEF F!Put
  <2>3. ASSUME NEW p \in Proc, readbyte(p) PROVE F!Take
    <3>1. readopen
      BY <2>3 DEF readbyte, IInv, CloseInv, EndInv
    <3>2. qBar # <<>> /\ qBar' = Tail(qBar)
      BY <2>3, QueueDown DEF readbyte, IInv
    <3>3. UNCHANGED <<readopen, writeopen>>
      BY <2>3 DEF readbyte
    <3> QED
      BY <3>1, <3>2, <3>3 DEF F!Take
  <2>4. ASSUME NEW p \in Proc, pipeclose(p) PROVE F!CloseRead \/ F!CloseWrite
    <3>1. UNCHANGED qBar
      BY <2>4 DEF pipeclose, qBar, Count
    <3>2. CASE p \in Writer
      <4>1. writeopen /\ writeopen' = FALSE /\ UNCHANGED readopen
        BY <2>4, <3>2 DEF pipeclose, IInv, CloseInv, EndInv
      <4> QED
        BY <3>1, <4>1 DEF F!CloseWrite
    <3>3. CASE p \notin Writer
      <4>1. readopen /\ readopen' = FALSE /\ UNCHANGED writeopen
        BY <2>4, <3>3, Constants DEF pipeclose, IInv, CloseInv, EndInv
      <4> QED
        BY <3>1, <4>1 DEF F!CloseRead
    <3> QED
      BY <3>2, <3>3
  <2>5. ASSUME NEW p \in Proc,
               \/ acquire(p) \/ pipewrite(p) \/ writefull(p) \/ writefault(p) \/ piperead(p)
               \/ readempty(p) \/ readdone(p) \/ fileclose(p) \/ kkill(p)
               \/ \E k \in 0 .. MaxN : Call(p, k)
        PROVE  UNCHANGED <<data, nread, nwrite, readopen, writeopen>>
    BY <2>5 DEF acquire, pipewrite, writefull, writefault, piperead, readempty, readdone, fileclose,
                kkill, Call, pipe
  <2>6. CASE UNCHANGED vars
    BY <2>1, <2>6 DEF vars, pipe
  <2>7. CASE Next
    BY <2>1, <2>2, <2>3, <2>4, <2>5, <2>6, <2>7 DEF Next, Step, Rest, F!Next
  <2> QED
    BY <2>6, <2>7
<1> QED
  BY <1>1, <1>2, PipeInvariant, PTL DEF Spec, IsFifo, F!Spec
=============================================================================
