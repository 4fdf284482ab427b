--------------------------- MODULE ConsoleProofs ----------------------------
(***************************************************************************)
(* Proofs about Console for any number of readers, writers and printing    *)
(* CPUs and any size of the input buffer: nobody sleeps past their wakeup  *)
(* and the transmitter is not overrun.                                     *)
(***************************************************************************)
EXTENDS Console, FiniteSetTheorems, WellFoundedInduction, TLAPS

Idx == 0 .. IdxMod - 1

\* The constants, for citing.
LEMMA Constants ==
  /\ INPUT_BUF_SIZE \in Nat \ {0} /\ IdxMod \in Nat \ {0} /\ INPUT_BUF_SIZE < IdxMod
  /\ StartIdx \in Idx /\ ReadSizes \subseteq Nat \ {0} /\ Chunk \in Nat \ {0} /\ MaxEvents \in Nat
  BY ConsoleAssumption DEF Idx

\* Index arithmetic without the modulus.
LEMMA Arith ==
  ASSUME NEW i \in Idx, NEW j \in Idx
  PROVE  /\ Minus(i, j) = (IF j <= i THEN i - j ELSE i + IdxMod - j)
         /\ Plus(i, j) = (IF i + j < IdxMod THEN i + j ELSE i + j - IdxMod)
<1>1. IdxMod \in Nat /\ IdxMod > 0 /\ i \in Nat /\ j \in Nat /\ i < IdxMod /\ j < IdxMod
  BY Constants DEF Idx
<1>2. \A m, x \in Nat : x < m => x % m = x
  OBVIOUS
<1>3. \A m, x \in Nat : m > 0 /\ m <= x /\ x < m + m => x % m = x - m
  OBVIOUS
<1>4. Minus(i, j) = (IF j <= i THEN i - j ELSE i + IdxMod - j)
  <2> DEFINE x == i + IdxMod - j
  <2>1. Minus(i, j) = x % IdxMod /\ x \in Nat /\ x < IdxMod + IdxMod
    BY <1>1 DEF Minus
  <2>2. CASE j <= i
    <3>1. IdxMod <= x /\ x - IdxMod = i - j
      BY <1>1, <2>2
    <3> HIDE DEF x
    <3> QED
      BY <1>1, <1>3, <2>1, <2>2, <3>1
  <2>3. CASE ~(j <= i)
    <3>1. x < IdxMod
      BY <1>1, <2>3
    <3>2. x % IdxMod = x
      BY <1>1, <1>2, <2>1, <3>1
    <3> QED
      BY <2>1, <2>3, <3>2
  <2> QED
    BY <2>2, <2>3
<1>5. Plus(i, j) = (IF i + j < IdxMod THEN i + j ELSE i + j - IdxMod)
  BY <1>1, <1>2, <1>3 DEF Plus
<1> QED
  BY <1>4, <1>5

\* What follows for the indexes of the buffer.
LEMMA Indexes ==
  ASSUME NEW i \in Idx, NEW j \in Idx
  PROVE  /\ Minus(i, j) \in Idx /\ Plus(i, j) \in Idx
         /\ Plus(j, Minus(i, j)) = i /\ Plus(i, 0) = i /\ Minus(i, i) = 0
         /\ Minus(i, j) = 0 => i = j
<1>1. IdxMod \in Nat /\ i \in Nat /\ j \in Nat /\ i < IdxMod /\ j < IdxMod /\ 0 \in Idx
  BY Constants DEF Idx
<1>2. Minus(i, j) \in Idx /\ Plus(i, j) \in Idx
  <2>1. /\ Minus(i, j) = (IF j <= i THEN i - j ELSE i + IdxMod - j)
        /\ Plus(i, j) = (IF i + j < IdxMod THEN i + j ELSE i + j - IdxMod)
    BY Arith
  <2> QED
    BY <1>1, <2>1 DEF Idx
<1>3. Plus(j, Minus(i, j)) = i
  <2>1. Minus(i, j) = (IF j <= i THEN i - j ELSE i + IdxMod - j)
    BY Arith
  <2>2. Plus(j, Minus(i, j)) = (IF j + Minus(i, j) < IdxMod THEN j + Minus(i, j)
                                ELSE j + Minus(i, j) - IdxMod)
    BY <1>2, Arith
  <2> QED
    BY <1>1, <2>1, <2>2
<1>4. Plus(i, 0) = i /\ Minus(i, i) = 0 /\ (Minus(i, j) = 0 => i = j)
  BY <1>1, Arith
<1> QED
  BY <1>2, <1>3, <1>4

\* A set of numbers that is not empty has a least one.
LEMMA Least ==
  ASSUME NEW T \in SUBSET Nat, T # {}
  PROVE  \E x \in T : \A y \in T : x <= y
<1> DEFINE R == OpToRel(<, Nat)
<1>1. IsWellFoundedOn(R, Nat)
  BY NatLessThanWellFounded
<1>2. \A y, x \in Nat : y < x => <<y, x>> \in R
  BY DEF OpToRel
<1> HIDE DEF R
<1>3. PICK x \in T : \A y \in T : ~(<<y, x>> \in R)
  BY <1>1, WFMin, Zenon
<1>4. \A y \in T : ~(y < x)
  BY <1>2, <1>3
<1> QED
  BY <1>4

\* What consoleread() takes: no more than is ready or asked for; less than both
\* only up to a newline or an end-of-file mark.
LEMMA Taken ==
  ASSUME TypeOK, NEW n \in Nat
  PROVE  /\ Len(Ahead) = Minus(w, r) /\ Len(Ahead) \in Idx
         /\ Take(n) \in Nat /\ Take(n) <= n /\ Take(n) <= Len(Ahead)
         /\ Take(n) < n /\ Take(n) < Len(Ahead) => Take(n) > 0 /\ Ahead[Take(n)] \in {NL, EOF}
<1>1. r \in Idx /\ w \in Idx
  BY DEF TypeOK, Idx
<1>2. Len(Ahead) = Minus(w, r) /\ Len(Ahead) \in Idx /\ Len(Ahead) \in Nat
  BY <1>1, Indexes DEF Ahead, Between, Idx
<1> DEFINE stops == {k \in 1 .. Len(Ahead) : Ahead[k] \in {NL, EOF}}
           k0 == IF stops = {} THEN Len(Ahead) ELSE CHOOSE k \in stops : \A j \in stops : k <= j
<1>3. Take(n) = IF k0 <= n THEN k0 ELSE n
  BY DEF Take
<1>4. k0 \in 0 .. Len(Ahead) /\ (k0 < Len(Ahead) => k0 > 0 /\ Ahead[k0] \in {NL, EOF})
  <2>1. CASE stops = {}
    BY <1>2, <2>1
  <2>2. CASE stops # {}
    <3>1. stops \in SUBSET Nat
      BY <1>2
    <3>2. \E k \in stops : \A j \in stops : k <= j
      BY <2>2, <3>1, Least
    <3>3. k0 = CHOOSE k \in stops : \A j \in stops : k <= j
      BY <2>2
    <3>4. k0 \in stops
      <4> HIDE DEF stops, k0
      <4> QED
        BY <3>2, <3>3
    <3> HIDE DEF k0
    <3> QED
      BY <1>2, <3>4
  <2> QED
    BY <2>1, <2>2
<1> HIDE DEF k0
<1> QED
  BY <1>2, <1>3, <1>4
-----------------------------------------------------------------------------
\* A step of consoleread(): the reader leaves, or goes to sleep when it has read
\* all there is and wants more.
LEMMA ReadStepFacts ==
  ASSUME TypeOK, NEW p \in Reader, consoleread(p), reader[p].n > 0
  PROVE  /\ r' \in Idx /\ (r = w => r' = w)
         /\ \/ reader' = [reader EXCEPT ![p].pc = "user"] /\ lock' = lock
            \/ \E m \in Nat :
                 /\ reader' = [reader EXCEPT ![p].pc = "sleep", ![p].n = m] /\ lock' = p
                 /\ r' = w /\ m > 0 /\ m <= reader[p].n
<1> DEFINE n == reader[p].n
           k == Take(n)
           last == Ahead[k]
           eof == k > 0 /\ last = EOF
           got == IF eof THEN k - 1 ELSE k
           n1 == n - got
           done == k > 0 /\ (eof \/ n1 = 0 \/ last = NL)
           d == IF eof /\ n1 < reader[p].target THEN got ELSE k
<1>1. n \in Nat /\ r \in Idx /\ w \in Idx /\ Idx \subseteq Nat
  BY DEF TypeOK, Idx
<1>2. /\ k \in Nat /\ k <= n /\ k <= Len(Ahead)
      /\ (k < n /\ k < Len(Ahead) => k > 0 /\ last \in {NL, EOF})
      /\ Len(Ahead) = Minus(w, r) /\ Len(Ahead) \in Idx /\ Len(Ahead) \in Nat
  BY <1>1, Taken
<1>3. /\ r' = Plus(r, d)
      /\ \/ done /\ reader' = [reader EXCEPT ![p].pc = "user"] /\ lock' = lock
         \/ reader' = [reader EXCEPT ![p].pc = "user"] /\ lock' = lock
         \/ ~done /\ reader' = [reader EXCEPT ![p].pc = "sleep", ![p].n = n1] /\ lock' = p
  BY DEF consoleread
<1> HIDE DEF k
<1>4. d \in Idx /\ got \in Nat /\ n1 \in Nat /\ d <= k
  <2>1. eof => k > 0
    OBVIOUS
  <2>2. k \in Idx
    BY <1>2, Constants DEF Idx
  <2>3. got \in Nat /\ got <= k /\ n1 \in Nat
    <3> HIDE DEF eof
    <3> QED
      BY <1>1, <1>2, <2>1
  <2>4. d = got \/ d = k
    OBVIOUS
  <2> HIDE DEF d, got
  <2> QED
    BY <1>2, <2>2, <2>3, <2>4, Constants DEF Idx
<1>5. r' \in Idx
  <2> HIDE DEF d
  <2> QED
    BY <1>1, <1>3, <1>4, Indexes
<1>6. ASSUME r = w PROVE r' = w
  <2>1. d = 0
    BY <1>1, <1>2, <1>4, <1>6, Indexes
  <2> HIDE DEF d
  <2> QED
    BY <1>1, <1>3, <1>6, <2>1, Indexes
<1>7. ASSUME ~done PROVE r' = w /\ n1 > 0
  <2>1. ~eof /\ d = k /\ n1 = n - k /\ (k > 0 => n1 # 0 /\ last # NL /\ last # EOF)
    BY <1>7
  <2> HIDE DEF d, n1, last, eof
  <2>2. n1 > 0
    BY <1>1, <1>2, <1>4, <2>1
  <2>3. k = Len(Ahead)
    BY <1>1, <1>2, <2>1, <2>2
  <2> QED
    BY <1>1, <1>2, <1>3, <2>1, <2>2, <2>3, Indexes
<1>8. n1 <= n
  <2> HIDE DEF n1, got
  <2>1. n1 = n - got
    BY DEF n1
  <2> QED
    BY <1>1, <1>4, <2>1
<1> HIDE DEF n1, done, d, got
<1>9. CASE reader' = [reader EXCEPT ![p].pc = "user"] /\ lock' = lock
  BY <1>5, <1>6, <1>9
<1>10. CASE ~done /\ reader' = [reader EXCEPT ![p].pc = "sleep", ![p].n = n1] /\ lock' = p
  BY <1>4, <1>5, <1>6, <1>7, <1>8, <1>10
<1> QED
  BY <1>3, <1>9, <1>10
-----------------------------------------------------------------------------
\* The inductive invariant.
IInv == TypeOK /\ WakeupInv /\ TxInv

LEMMA InitInv == Init => IInv
<1> SUFFICES ASSUME Init PROVE IInv
  OBVIOUS
<1>1. TypeOK
  <2>1. buf \in [0 .. INPUT_BUF_SIZE - 1 -> Char \cup {NL, EOF}]
    BY DEF Init
  <2>2. {r, w, e} \subseteq 0 .. IdxMod - 1
    BY Constants DEF Init, Idx
  <2>3. killed \in [Reader -> BOOLEAN] /\ thri \in BOOLEAN /\ tx_busy \in BOOLEAN
    BY Zenon DEF Init
  <2>4. reader \in [Reader -> [pc : {"user", "read", "sleep", "zzz"}, n : Nat, target : Nat]]
    BY DEF Init
  <2> QED
    BY <2>1, <2>2, <2>3, <2>4 DEF Init, TypeOK
<1>2. WakeupInv
  BY DEF Init, WakeupInv, EchoHasLock, ReadersWait, WritersWait
<1>3. TxInv
  <2>1. Ready = Printer
    BY DEF Init, Ready
  <2>2. Cardinality(Ready) \in Nat
    BY <2>1, ConsoleAssumption, FS_CardinalityType
  <2> QED
    BY <2>2 DEF Init, TxInv
<1> QED
  BY <1>1, <1>2, <1>3 DEF IInv

\* What a step that leaves the driver, the handler or the readers alone keeps.
LEMMA Kept ==
  ASSUME IInv
  PROVE  /\ UNCHANGED <<intr, lock>> => EchoHasLock'
         /\ UNCHANGED <<reader, lock, r, w>> => ReadersWait'
         /\ UNCHANGED <<writer, tx_busy, tx, thri, intr>> => WritersWait'
         /\ UNCHANGED <<tx, tx_busy, intr, printer>> => TxInv'
<1>1. ASSUME UNCHANGED <<intr, lock>> PROVE EchoHasLock'
  BY <1>1 DEF IInv, WakeupInv, EchoHasLock
<1>2. ASSUME UNCHANGED <<reader, lock, r, w>> PROVE ReadersWait'
  BY <1>2 DEF IInv, WakeupInv, ReadersWait
<1>3. ASSUME UNCHANGED <<writer, tx_busy, tx, thri, intr>> PROVE WritersWait'
  BY <1>3 DEF IInv, WakeupInv, WritersWait
<1>4. ASSUME UNCHANGED <<tx, tx_busy, intr, printer>> PROVE TxInv'
  BY <1>4 DEF IInv, TxInv, Ready
<1> QED
  BY <1>1, <1>2, <1>3, <1>4

\* How many CPUs are not about to write.
LEMMA ReadyCount ==
  Cardinality(Ready) \in Nat /\ Cardinality(Ready) <= Cardinality(Printer) /\ Cardinality(Printer) \in Nat
<1>1. Ready \subseteq Printer /\ IsFiniteSet(Printer)
  BY ConsoleAssumption DEF Ready
<1> QED
  BY <1>1, FS_Subset, FS_CardinalityType
-----------------------------------------------------------------------------
(* One lemma per group of actions: IInv holds on *)

\* The state of a reader keeps its type.
ReaderType == [Reader -> [pc : {"user", "read", "sleep", "zzz"}, n : Nat, target : Nat]]

LEMMA ReaderUpdate ==
  ASSUME NEW f \in ReaderType, NEW p \in Reader, NEW c \in {"user", "read", "sleep", "zzz"}, NEW m \in Nat
  PROVE  /\ [f EXCEPT ![p].pc = c] \in ReaderType
         /\ [f EXCEPT ![p].pc = c, ![p].n = m] \in ReaderType
<1>1. /\ [f[p] EXCEPT !.pc = c] \in [pc : {"user", "read", "sleep", "zzz"}, n : Nat, target : Nat]
      /\ [f[p] EXCEPT !.pc = c, !.n = m] \in [pc : {"user", "read", "sleep", "zzz"}, n : Nat, target : Nat]
  BY DEF ReaderType
<1>2. [f EXCEPT ![p].pc = c] = [f EXCEPT ![p] = [f[p] EXCEPT !.pc = c]]
  BY DEF ReaderType
<1>3. [f EXCEPT ![p].pc = c, ![p].n = m] = [f EXCEPT ![p] = [f[p] EXCEPT !.pc = c, !.n = m]]
  BY DEF ReaderType
<1> QED
  BY <1>1, <1>2, <1>3 DEF ReaderType

LEMMA ReadInv ==
  ASSUME IInv, NEW p \in Reader, consoleread(p)
  PROVE  IInv'
<1>1. /\ reader[p].n > 0 /\ reader[p].n <= reader[p].target
      /\ reader[p].pc = "read" /\ lock = "free" /\ TypeOK
  BY DEF IInv, consoleread, WakeupInv, ReadersWait
<1>2. UNCHANGED <<buf, w, e, killed, intr, rx, tx, thri, tx_busy, writer, printer, events>>
  BY DEF consoleread, uart, output
<1>3. /\ r' \in Idx /\ (r = w => r' = w)
      /\ \/ reader' = [reader EXCEPT ![p].pc = "user"] /\ lock' = lock
         \/ \E m \in Nat : /\ reader' = [reader EXCEPT ![p].pc = "sleep", ![p].n = m] /\ lock' = p
                          /\ r' = w /\ m > 0 /\ m <= reader[p].n
  BY <1>1, ReadStepFacts
<1>4. TypeOK'
  <2>1. reader' \in ReaderType /\ lock' \in {"free", "intr"} \cup Reader
    <3>1. reader \in ReaderType /\ lock \in {"free", "intr"} \cup Reader
      BY <1>1 DEF TypeOK, ReaderType
    <3>2. CASE reader' = [reader EXCEPT ![p].pc = "user"] /\ lock' = lock
      BY <3>1, <3>2, ReaderUpdate
    <3>3. ASSUME NEW m \in Nat, reader' = [reader EXCEPT ![p].pc = "sleep", ![p].n = m], lock' = p
          PROVE  reader' \in ReaderType /\ lock' \in {"free", "intr"} \cup Reader
      BY <3>1, <3>3, ReaderUpdate
    <3> QED
      BY <1>3, <3>2, <3>3, Zenon
  <2>2. {r, w, e}' \subseteq 0 .. IdxMod - 1
    BY <1>1, <1>2, <1>3 DEF TypeOK, Idx
  <2> QED
    BY <1>1, <1>2, <2>1, <2>2 DEF TypeOK, ReaderType
<1>5. EchoHasLock' /\ intr.pc \notin {"echo", "put"}
  BY <1>1, <1>2 DEF IInv, WakeupInv, EchoHasLock
<1>6. ReadersWait'
  <2>1. \A q \in Reader : /\ reader[q].pc # "sleep"
                          /\ reader[q].pc = "zzz" => r' = w'
                          /\ q # p => reader'[q] = reader[q]
    BY <1>1, <1>2, <1>3, ConsoleAssumption DEF IInv, WakeupInv, ReadersWait, TypeOK
  <2>2. \/ reader'[p].pc = "user"
        \/ /\ reader'[p].pc = "sleep" /\ reader'[p].n > 0 /\ reader'[p].n <= reader'[p].target
           /\ lock' = p /\ r' = w'
    <3>1. reader \in [Reader -> [pc : {"user", "read", "sleep", "zzz"}, n : Nat, target : Nat]]
      BY <1>1 DEF TypeOK
    <3>2. CASE reader' = [reader EXCEPT ![p].pc = "user"]
      BY <3>1, <3>2
    <3>3. ASSUME NEW m \in Nat, reader' = [reader EXCEPT ![p].pc = "sleep", ![p].n = m],
                 m > 0, m <= reader[p].n
          PROVE  /\ reader'[p].pc = "sleep" /\ reader'[p].n > 0
                 /\ reader'[p].n <= reader'[p].target
      BY <1>1, <3>1, <3>3
    <3> QED
      BY <1>2, <1>3, <3>2, <3>3
  <2> QED
    BY <2>1, <2>2 DEF IInv, WakeupInv, ReadersWait
<1> QED
  BY <1>2, <1>4, <1>5, <1>6, Kept DEF IInv, WakeupInv

LEMMA ReadFaultInv ==
  ASSUME IInv, NEW p \in Reader, consoleread_fault(p)
  PROVE  IInv'
<1>1. reader[p].n > 0 /\ reader[p].n \in Nat /\ lock = "free" /\ TypeOK
  BY DEF IInv, consoleread_fault, WakeupInv, ReadersWait, TypeOK
<1>2. /\ UNCHANGED <<buf, w, e, lock, killed, intr, rx, tx, thri, tx_busy, writer, printer, events>>
      /\ reader' = [reader EXCEPT ![p].pc = "user"]
  BY DEF consoleread_fault, uart, output
<1>3. PICK k \in 0 .. Take(reader[p].n) - 1 : r' = Plus(r, k + 1)
  BY DEF consoleread_fault
<1>4. r \in Idx /\ w \in Idx /\ k + 1 \in Idx /\ r # w
  <2>1. r \in Idx /\ w \in Idx
    BY <1>1 DEF TypeOK, Idx
  <2>2. /\ Len(Ahead) = Minus(w, r) /\ Len(Ahead) \in Idx /\ Take(reader[p].n) <= Len(Ahead)
        /\ Take(reader[p].n) \in Nat
    BY <1>1, Taken
  <2>3. k + 1 \in Idx /\ Minus(w, r) # 0
    BY <1>3, <2>2, Constants DEF Idx
  <2> QED
    BY <2>1, <2>3, Indexes
<1>5. TypeOK'
  <2>1. reader' \in ReaderType
    <3>1. reader \in ReaderType
      BY <1>1 DEF TypeOK, ReaderType
    <3> QED
      BY <1>2, <3>1, ReaderUpdate
  <2>2. r' \in Idx
    BY <1>3, <1>4, Indexes
  <2>3. {r, w, e}' \subseteq 0 .. IdxMod - 1
    BY <1>1, <1>2, <2>2 DEF TypeOK, Idx
  <2> QED
    BY <1>1, <1>2, <2>1, <2>3 DEF TypeOK, ReaderType
<1>6. ReadersWait'
  BY <1>1, <1>2, <1>4, ConsoleAssumption DEF IInv, WakeupInv, ReadersWait, TypeOK
<1> QED
  BY <1>2, <1>5, <1>6, Kept DEF IInv, WakeupInv

LEMMA ReaderInv ==
  ASSUME IInv, NEW p \in Reader, Sleep(p) \/ Kill(p) \/ \E n \in ReadSizes : ReadCall(p, n)
  PROVE  IInv'
<1>1. UNCHANGED <<buf, r, w, e, intr, rx, tx, thri, tx_busy, writer, printer>>
  BY DEF Sleep, Kill, ReadCall, cons, uart, output
<1>2. TypeOK'
  <2>1. reader' \in ReaderType /\ lock' \in {"free", "intr"} \cup Reader
    <3>1. reader \in ReaderType /\ lock \in {"free", "intr"} \cup Reader
      BY DEF IInv, TypeOK, ReaderType
    <3>2. CASE Sleep(p)
      BY <3>1, <3>2, ReaderUpdate DEF Sleep
    <3>3. CASE Kill(p)
      <4>1. \E c \in {"user", "read", "sleep", "zzz"} : reader' = [reader EXCEPT ![p].pc = c]
        BY <3>1, <3>3 DEF Kill, ReaderType
      <4> QED
        BY <3>1, <3>3, <4>1, ReaderUpdate DEF Kill
    <3>4. ASSUME NEW n \in ReadSizes, ReadCall(p, n) PROVE reader' \in ReaderType /\ lock' = lock
      BY <3>1, <3>4, Constants DEF ReadCall, ReaderType
    <3> QED
      BY <3>1, <3>2, <3>3, <3>4
  <2>2. killed' \in [Reader -> BOOLEAN]
    BY DEF Sleep, Kill, ReadCall, IInv, TypeOK
  <2>3. events' \in Nat
    BY DEF Sleep, Kill, ReadCall, Event, IInv, TypeOK
  <2> QED
    BY <1>1, <2>1, <2>2, <2>3 DEF IInv, TypeOK, ReaderType
<1>3. CASE Sleep(p)
  <2>1. lock = p /\ lock' = "free" /\ r = w /\ lock # "intr"
    BY <1>3, ConsoleAssumption DEF Sleep, IInv, WakeupInv, ReadersWait
  <2>2. EchoHasLock'
    BY <1>1, <2>1 DEF IInv, WakeupInv, EchoHasLock
  <2>3. ReadersWait'
    BY <1>1, <1>3, <2>1 DEF Sleep, IInv, WakeupInv, ReadersWait, TypeOK
  <2> QED
    BY <1>1, <1>2, <2>2, <2>3, Kept DEF IInv, WakeupInv
<1>4. CASE Kill(p)
  <2>1. ReadersWait'
    BY <1>1, <1>4 DEF Kill, IInv, WakeupInv, ReadersWait, TypeOK
  <2> QED
    BY <1>1, <1>2, <1>4, <2>1, Kept DEF IInv, WakeupInv, Kill
<1>5. ASSUME NEW n \in ReadSizes, ReadCall(p, n) PROVE IInv'
  <2>1. ReadersWait'
    BY <1>1, <1>5, Constants DEF ReadCall, IInv, WakeupInv, ReadersWait, TypeOK
  <2> QED
    BY <1>1, <1>2, <1>5, <2>1, Kept DEF IInv, WakeupInv, ReadCall
<1> QED
  BY <1>3, <1>4, <1>5

LEMMA WriterInv ==
  ASSUME IInv, NEW p \in Writer, WriteCall(p) \/ uartwrite(p)
  PROVE  IInv'
<1>1. UNCHANGED <<buf, r, w, e, lock, reader, killed, intr, rx, printer>>
  BY DEF WriteCall, uartwrite, cons, input, uart
<1>2. /\ tx \in Nat /\ Cardinality(Ready) \in Nat /\ Ready' = Ready
      /\ writer \in [Writer -> [pc : {"user", "write", "zzz"}, left : Nat]]
  BY <1>1, ReadyCount DEF Ready, IInv, TypeOK
<1>3. CASE WriteCall(p)
  <2>1. /\ UNCHANGED <<tx, thri, tx_busy>> /\ events' \in Nat
        /\ writer' = [writer EXCEPT ![p] = [pc |-> "write", left |-> Chunk]]
    BY <1>3 DEF WriteCall, Event, uart, IInv, TypeOK
  <2>2. TypeOK'
    BY <1>1, <1>2, <2>1, Constants DEF IInv, TypeOK
  <2>3. WritersWait'
    BY <1>1, <1>2, <2>1, Constants DEF IInv, WakeupInv, WritersWait
  <2> QED
    BY <1>1, <2>1, <2>2, <2>3, Kept DEF IInv, WakeupInv
<1>4. CASE uartwrite(p) /\ tx_busy
  <2>1. UNCHANGED <<tx, thri, tx_busy, events>> /\ writer' = [writer EXCEPT ![p].pc = "zzz"]
    BY <1>4 DEF uartwrite
  <2>2. writer' \in [Writer -> [pc : {"user", "write", "zzz"}, left : Nat]]
    BY <1>2, <2>1
  <2>3. TypeOK'
    BY <1>1, <2>1, <2>2 DEF IInv, TypeOK
  <2>4. WritersWait'
    <3>1. writer[p].left > 0
      BY <1>4 DEF uartwrite, IInv, WakeupInv, WritersWait
    <3> QED
      BY <1>1, <1>2, <1>4, <2>1, <3>1 DEF IInv, WakeupInv, WritersWait
  <2> QED
    BY <1>1, <2>1, <2>3, <2>4, Kept DEF IInv, WakeupInv
<1>5. CASE uartwrite(p) /\ ~tx_busy
  <2> DEFINE rest == writer[p].left
  <2>1. /\ tx' = tx + 1 /\ thri' = FALSE /\ tx_busy' = TRUE /\ UNCHANGED events
        /\ writer' = [writer EXCEPT ![p] = [pc |-> IF rest = 1 THEN "user" ELSE "zzz", left |-> rest - 1]]
        /\ rest > 0 /\ rest \in Nat
    BY <1>2, <1>5 DEF uartwrite, WriteTHR, IInv, WakeupInv, WritersWait
  <2>2. writer' \in [Writer -> [pc : {"user", "write", "zzz"}, left : Nat]]
    BY <1>2, <2>1
  <2>3. tx' \in Nat /\ tx' > 0
    BY <1>2, <2>1
  <2>7. thri' \in BOOLEAN /\ tx_busy' \in BOOLEAN
    BY <2>1, Zenon
  <2>4. TypeOK'
    BY <1>1, <2>1, <2>2, <2>3, <2>7 DEF IInv, TypeOK
  <2>5. WritersWait'
    BY <1>2, <2>1, <2>3 DEF IInv, WakeupInv, WritersWait
  <2>6. TxInv'
    BY <1>1, <1>2, <1>5, <2>1 DEF IInv, TxInv
  <2> QED
    BY <1>1, <2>4, <2>5, <2>6, Kept DEF IInv, WakeupInv
<1> QED
  BY <1>3, <1>4, <1>5

LEMMA PrinterInv ==
  ASSUME IInv, NEW p \in Printer, PrintCall(p) \/ SyncWait(p) \/ SyncPut(p)
  PROVE  IInv'
<1>1. UNCHANGED <<buf, r, w, e, lock, reader, killed, intr, rx, tx_busy, writer>>
  BY DEF PrintCall, SyncWait, SyncPut, cons, input, uart
<1>2. /\ tx \in Nat /\ Cardinality(Ready) \in Nat /\ Cardinality(Ready') \in Nat
      /\ printer \in [Printer -> {"user", "wait", "put"}] /\ printer' \in [Printer -> {"user", "wait", "put"}]
  <2>1. Ready' \in SUBSET Printer /\ IsFiniteSet(Printer)
    BY ConsoleAssumption DEF Ready
  <2>2. IsFiniteSet(Ready')
    BY <2>1, FS_Subset
  <2> QED
    BY <2>2, ReadyCount, FS_CardinalityType DEF PrintCall, SyncWait, SyncPut, IInv, TypeOK
<1>3. CASE PrintCall(p)
  <2>1. UNCHANGED <<tx, thri>> /\ events' \in Nat /\ Ready' = Ready
    BY <1>2, <1>3 DEF PrintCall, Event, uart, IInv, TypeOK, Ready
  <2>2. TypeOK'
    BY <1>1, <1>2, <2>1 DEF IInv, TypeOK
  <2>3. TxInv'
    BY <1>1, <2>1 DEF IInv, TxInv
  <2> QED
    BY <1>1, <2>1, <2>2, <2>3, Kept DEF IInv, WakeupInv
<1>4. CASE SyncWait(p)
  <2>1. UNCHANGED <<tx, thri, events>> /\ tx = 0
    BY <1>4 DEF SyncWait, Idle, uart
  <2>2. TypeOK'
    BY <1>1, <1>2, <2>1 DEF IInv, TypeOK
  <2>3. TxInv'
    BY <1>1, <1>2, <2>1 DEF TxInv
  <2> QED
    BY <1>1, <2>1, <2>2, <2>3, Kept DEF IInv, WakeupInv
<1>5. CASE SyncPut(p)
  <2>1. tx' = tx + 1 /\ thri' = FALSE /\ UNCHANGED events
    BY <1>5 DEF SyncPut, WriteTHR
  <2>2. tx' \in Nat /\ tx' > 0
    BY <1>2, <2>1
  <2>8. thri' \in BOOLEAN
    BY <2>1, Zenon
  <2>3. TypeOK'
    BY <1>1, <1>2, <2>1, <2>2, <2>8 DEF IInv, TypeOK
  <2>4. p \notin Ready /\ Ready' = Ready \cup {p}
    BY <1>2, <1>5 DEF SyncPut, Ready
  <2>5. Cardinality(Ready') = Cardinality(Ready) + 1
    BY <2>4, ConsoleAssumption, FS_Subset, FS_AddElement DEF Ready
  <2>6. TxInv'
    BY <1>1, <1>2, <2>1, <2>5 DEF IInv, TxInv
  <2>7. WritersWait'
    BY <1>1, <2>2 DEF IInv, WakeupInv, WritersWait
  <2> QED
    BY <1>1, <2>3, <2>6, <2>7, Kept DEF IInv, WakeupInv
<1> QED
  BY <1>3, <1>4, <1>5

LEMMA DeviceInv ==
  ASSUME IInv, Transmit \/ \E c \in Typed : Keyboard(c)
  PROVE  IInv'
<1>1. UNCHANGED <<buf, r, w, e, lock, reader, killed, intr, tx_busy, writer, printer>>
  BY DEF Transmit, Keyboard, cons, input, output
<1>2. tx \in Nat /\ Cardinality(Ready) \in Nat /\ Ready' = Ready
  BY <1>1, ReadyCount DEF IInv, TypeOK, Ready
<1>3. CASE Transmit
  <2>1. tx > 0 /\ tx' = tx - 1 /\ thri' = (tx = 1) /\ UNCHANGED <<rx, events>>
    BY <1>3 DEF Transmit
  <2>7. tx' \in Nat /\ (tx' > 0 \/ tx = 1)
    BY <1>2, <2>1
  <2>2. tx' \in Nat /\ (tx' > 0 \/ thri')
    BY <2>1, <2>7, Zenon
  <2>3. thri' \in BOOLEAN
    BY <2>1, Zenon
  <2>4. TypeOK'
    BY <1>1, <2>1, <2>2, <2>3 DEF IInv, TypeOK
  <2>5. WritersWait'
    BY <1>1, <2>2 DEF IInv, WakeupInv, WritersWait
  <2>6. TxInv'
    BY <1>1, <1>2, <2>1 DEF IInv, TxInv
  <2> QED
    BY <1>1, <2>4, <2>5, <2>6, Kept DEF IInv, WakeupInv
<1>4. ASSUME NEW c \in Typed, Keyboard(c) PROVE IInv'
  <2>1. UNCHANGED <<tx, thri>> /\ rx' \in Seq(Typed) /\ events' \in Nat
    BY <1>4 DEF Keyboard, Event, IInv, TypeOK
  <2>2. TypeOK'
    BY <1>1, <2>1 DEF IInv, TypeOK
  <2> QED
    BY <1>1, <2>1, <2>2, Kept DEF IInv, WakeupInv
<1> QED
  BY <1>3, <1>4

\* The handler but for consoleintr().
IntrType == [pc : {"idle", "tx", "rx", "echo", "put"}, echo : Nat]

LEMMA HandlerInv ==
  ASSUME IInv, uartintr \/ uartintr_tx \/ EchoWait \/ EchoPut \/ uartintr_end
  PROVE  IInv'
<1>1. UNCHANGED <<buf, r, w, e, reader, killed, rx, printer, events>>
  BY DEF uartintr, uartintr_tx, EchoWait, EchoPut, uartintr_end, cons, input, uart, output
<1>2. /\ tx \in Nat /\ Cardinality(Ready) \in Nat /\ Ready' = Ready /\ intr \in IntrType
      /\ writer \in [Writer -> [pc : {"user", "write", "zzz"}, left : Nat]]
  BY <1>1, ReadyCount DEF IInv, TypeOK, Ready, IntrType
<1>3. CASE uartintr
  <2>1. /\ UNCHANGED <<lock, tx, tx_busy, writer>> /\ thri' = FALSE
        /\ intr.pc = "idle" /\ intr' = [intr EXCEPT !.pc = "tx"]
    BY <1>3 DEF uartintr, output
  <2>2. thri' \in BOOLEAN
    BY <2>1, Zenon
  <2>3. intr' \in IntrType /\ intr'.pc = "tx"
    BY <1>2, <2>1 DEF IntrType
  <2>4. TypeOK'
    BY <1>1, <2>1, <2>2, <2>3 DEF IInv, TypeOK, IntrType
  <2>5. EchoHasLock' /\ WritersWait'
    BY <2>1, <2>3 DEF IInv, WakeupInv, EchoHasLock, WritersWait
  <2>6. TxInv'
    BY <1>2, <2>1, <2>3 DEF IInv, TxInv
  <2> QED
    BY <1>1, <2>1, <2>4, <2>5, <2>6, Kept DEF IInv, WakeupInv
<1>4. CASE uartintr_tx
  <2>1. /\ UNCHANGED <<lock, tx, thri>> /\ intr.pc = "tx" /\ intr' = [intr EXCEPT !.pc = "rx"]
        /\ \/ tx = 0 /\ tx_busy' = FALSE /\ writer' = TxDone
           \/ tx # 0 /\ UNCHANGED <<tx_busy, writer>>
    BY <1>4 DEF uartintr_tx, uart, Idle
  <2>2. intr' \in IntrType /\ intr'.pc = "rx"
    BY <1>2, <2>1 DEF IntrType
  <2>3. tx_busy' \in BOOLEAN
    BY <2>1, Zenon DEF IInv, TypeOK
  <2>4. writer' \in [Writer -> [pc : {"user", "write", "zzz"}, left : Nat]]
    BY <1>2, <2>1 DEF TxDone
  <2>5. TypeOK'
    BY <1>1, <2>1, <2>2, <2>3, <2>4 DEF IInv, TypeOK, IntrType
  <2>6. EchoHasLock'
    BY <2>2 DEF EchoHasLock
  <2>7. WritersWait'
    <3>1. CASE tx = 0
      <4>1. ~tx_busy' /\ writer' = TxDone
        BY <2>1, <3>1
      <4>2. \A q \in Writer : writer'[q].pc # "zzz" /\ (writer'[q].pc # "user" => writer'[q].left > 0)
        BY <1>2, <4>1 DEF TxDone, IInv, WakeupInv, WritersWait
      <4> QED
        BY <4>1, <4>2 DEF WritersWait
    <3>2. CASE tx # 0
      BY <1>2, <2>1, <3>2 DEF IInv, WakeupInv, WritersWait
    <3> QED
      BY <3>1, <3>2
  <2>8. TxInv'
    BY <1>2, <2>1, <2>2 DEF IInv, TxInv
  <2> QED
    BY <1>1, <2>1, <2>5, <2>6, <2>7, <2>8, Kept DEF IInv, WakeupInv
<1>5. CASE EchoWait
  <2>1. /\ UNCHANGED <<lock, tx, thri, tx_busy, writer>> /\ tx = 0
        /\ intr.pc = "echo" /\ intr' = [intr EXCEPT !.pc = "put"]
    BY <1>5 DEF EchoWait, uart, output, Idle
  <2>2. intr' \in IntrType /\ intr'.pc = "put" /\ intr'.echo = intr.echo
    BY <1>2, <2>1 DEF IntrType
  <2>3. TypeOK'
    BY <1>1, <2>1, <2>2 DEF IInv, TypeOK, IntrType
  <2>4. EchoHasLock' /\ WritersWait'
    BY <2>1, <2>2 DEF IInv, WakeupInv, EchoHasLock, WritersWait
  <2>5. TxInv'
    BY <1>2, <2>1 DEF TxInv
  <2> QED
    BY <1>1, <2>1, <2>3, <2>4, <2>5, Kept DEF IInv, WakeupInv
<1>6. CASE EchoPut
  <2>1. /\ UNCHANGED <<tx_busy, writer>> /\ tx' = tx + 1 /\ thri' = FALSE
        /\ intr.pc = "put" /\ lock = "intr" /\ intr.echo > 0
        /\ \/ intr' = [pc |-> "rx", echo |-> 0] /\ lock' = "free"
           \/ intr.echo # 1 /\ intr' = [pc |-> "echo", echo |-> intr.echo - 1] /\ lock' = lock
    BY <1>6 DEF EchoPut, WriteTHR, output, IInv, WakeupInv, EchoHasLock
  <2>2. /\ intr' \in IntrType /\ intr'.pc \in {"rx", "echo"} /\ tx' \in Nat /\ tx' > 0
        /\ intr'.pc = "echo" => lock' = "intr" /\ intr'.echo > 0
    BY <1>2, <2>1 DEF IntrType
  <2>3. thri' \in BOOLEAN
    BY <2>1, Zenon
  <2>4. lock' \in {"free", "intr"} \cup Reader
    BY <2>1
  <2>5. TypeOK'
    BY <1>1, <2>1, <2>2, <2>3, <2>4 DEF IInv, TypeOK, IntrType
  <2>6. EchoHasLock'
    BY <2>2 DEF EchoHasLock
  <2>7. ReadersWait'
    BY <1>1, <2>1, ConsoleAssumption DEF IInv, WakeupInv, ReadersWait
  <2>8. WritersWait'
    BY <2>1, <2>2 DEF IInv, WakeupInv, WritersWait
  <2>9. TxInv'
    BY <1>2, <2>1, <2>2 DEF IInv, TxInv
  <2> QED
    BY <2>5, <2>6, <2>7, <2>8, <2>9 DEF IInv, WakeupInv
<1>7. CASE uartintr_end
  <2>1. /\ UNCHANGED <<lock, tx, thri, tx_busy, writer>>
        /\ intr.pc = "rx" /\ intr' = [intr EXCEPT !.pc = "idle"]
    BY <1>7 DEF uartintr_end, uart, output
  <2>2. intr' \in IntrType /\ intr'.pc = "idle"
    BY <1>2, <2>1 DEF IntrType
  <2>3. TypeOK'
    BY <1>1, <2>1, <2>2 DEF IInv, TypeOK, IntrType
  <2>4. EchoHasLock' /\ WritersWait'
    BY <2>1, <2>2 DEF IInv, WakeupInv, EchoHasLock, WritersWait
  <2>5. TxInv'
    BY <1>2, <2>1, <2>2 DEF IInv, TxInv
  <2> QED
    BY <1>1, <2>1, <2>3, <2>4, <2>5, Kept DEF IInv, WakeupInv
<1> QED
  BY <1>3, <1>4, <1>5, <1>6, <1>7

LEMMA ConsoleintrInv ==
  ASSUME IInv, consoleintr
  PROVE  IInv'
<1> DEFINE c == Head(rx)
           erased == IF c = KILL THEN Minus(e, w) ELSE IF c = ERASE /\ e # w THEN 1 ELSE 0
           stored == c \notin {KILL, ERASE} /\ HasRoom
           echo == IF stored THEN 1 ELSE 3 * erased
<1>1. /\ UNCHANGED <<r, killed, tx, thri, tx_busy, writer, printer, events>>
      /\ intr.pc = "rx" /\ rx # <<>> /\ lock = "free" /\ rx' = Tail(rx)
  BY DEF consoleintr, output
<1>2. \/ /\ stored /\ buf' = [buf EXCEPT ![e % INPUT_BUF_SIZE] = c] /\ e' = Plus(e, 1)
         /\ \/ w' = e' /\ reader' = Woken("read")
            \/ UNCHANGED <<w, reader>>
      \/ ~stored /\ e' = Minus(e, erased) /\ UNCHANGED <<buf, w, reader>>
  BY DEF consoleintr
<1>3. \/ UNCHANGED <<intr, lock>>
      \/ echo # 0 /\ intr' = [pc |-> "echo", echo |-> echo] /\ lock' = "intr"
  BY DEF consoleintr
<1>4. c \in Typed /\ Tail(rx) \in Seq(Typed)
  BY <1>1 DEF IInv, TypeOK
<1>5. e \in Idx /\ w \in Idx /\ 1 \in Idx /\ 0 \in Idx /\ Idx \subseteq Nat
  BY Constants DEF IInv, TypeOK, Idx
<1>6. erased \in Idx
  BY <1>5, Indexes
<1>7. echo \in Nat
  <2>1. erased \in Nat
    BY <1>5, <1>6
  <2> HIDE DEF erased, stored
  <2> QED
    BY <2>1
<1>8. Plus(e, 1) \in Idx /\ Minus(e, erased) \in Idx
  <2> HIDE DEF erased
  <2> QED
    BY <1>5, <1>6, Indexes
<1>9. buf' \in [0 .. INPUT_BUF_SIZE - 1 -> Char \cup {NL, EOF}]
  <2>1. buf \in [0 .. INPUT_BUF_SIZE - 1 -> Char \cup {NL, EOF}]
    BY DEF IInv, TypeOK
  <2>2. stored => c \in Char \cup {NL, EOF}
    BY <1>4 DEF Typed
  <2> HIDE DEF c, stored
  <2> QED
    BY <1>2, <2>1, <2>2
<1> HIDE DEF c, erased, stored, echo
<1>10. e' \in Idx /\ w' \in Idx
  BY <1>2, <1>5, <1>8
<1>11. /\ reader \in ReaderType
       /\ \A q \in Reader : /\ reader[q].pc # "sleep"
                            /\ reader[q].pc # "user" => 0 < reader[q].n /\ reader[q].n <= reader[q].target
  BY <1>1, ConsoleAssumption DEF IInv, TypeOK, ReaderType, WakeupInv, ReadersWait
<1>12. \/ /\ reader' \in ReaderType
          /\ \A q \in Reader : /\ reader'[q].pc \notin {"sleep", "zzz"}
                               /\ reader'[q].pc # "user" => 0 < reader'[q].n /\ reader'[q].n <= reader'[q].target
       \/ UNCHANGED <<w, reader>>
  <2>1. CASE reader' = Woken("read")
    <3>1. reader' \in ReaderType
      BY <1>11, <2>1 DEF Woken, ReaderType
    <3>2. \A q \in Reader : /\ reader'[q].pc \notin {"sleep", "zzz"}
                            /\ reader'[q].pc # "user" => 0 < reader'[q].n /\ reader'[q].n <= reader'[q].target
      BY <1>11, <2>1 DEF Woken, ReaderType
    <3> QED
      BY <3>1, <3>2
  <2> QED
    BY <1>2, <2>1
<1>13. TypeOK'
  <2>1. reader' \in ReaderType
    BY <1>11, <1>12
  <2>2. /\ intr' \in [pc : {"idle", "tx", "rx", "echo", "put"}, echo : Nat]
        /\ lock' \in {"free", "intr"} \cup Reader
    BY <1>3, <1>7 DEF IInv, TypeOK
  <2>3. {r, w, e}' \subseteq 0 .. IdxMod - 1
    BY <1>1, <1>10 DEF IInv, TypeOK, Idx
  <2> QED
    BY <1>1, <1>4, <1>9, <2>1, <2>2, <2>3 DEF IInv, TypeOK, ReaderType
<1>14. intr'.pc \in {"rx", "echo"} /\ EchoHasLock'
  BY <1>1, <1>3, <1>7 DEF IInv, WakeupInv, EchoHasLock
<1>15. ReadersWait'
  BY <1>1, <1>11, <1>12 DEF IInv, WakeupInv, ReadersWait
<1>16. WritersWait'
  BY <1>1 DEF IInv, WakeupInv, WritersWait
<1>17. TxInv'
  <2>1. Ready' = Ready
    BY <1>1 DEF Ready
  <2> QED
    BY <1>1, <1>14, <2>1 DEF IInv, TxInv
<1> QED
  BY <1>13, <1>14, <1>15, <1>16, <1>17 DEF IInv, WakeupInv
-----------------------------------------------------------------------------
LEMMA StepInv == IInv /\ [Next]_vars => IInv'
<1> SUFFICES ASSUME IInv, [Next]_vars PROVE IInv'
  OBVIOUS
<1>1. CASE UNCHANGED vars
  <2>1. UNCHANGED <<buf, r, w, e, lock, reader, killed, intr, rx, tx, thri, tx_busy, writer, printer, events>>
    BY <1>1 DEF vars
  <2>2. TypeOK'
    BY <2>1 DEF IInv, TypeOK
  <2> QED
    BY <2>1, <2>2, Kept DEF IInv, WakeupInv
<1>2. CASE Next
  BY <1>2, ReadInv, ReadFaultInv, ReaderInv, WriterInv, PrinterInv, DeviceInv, HandlerInv, ConsoleintrInv
     DEF Next, Intr, ReadStep, PrintStep
<1> QED
  BY <1>1, <1>2

\* The strengthened invariant of the console holds in every state.
THEOREM ConsoleInvariant == Spec => []IInv
  BY InitInv, StepInv, PTL DEF Spec

\* Nobody sleeps past their wakeup: a reader of the console sleeps only while no
\* finished line waits, a writer only while the transmitter is busy, and then its
\* interrupt is still to come.
THEOREM NoLostWakeupAlways == Spec => []NoLostWakeup
<1>1. IInv => NoLostWakeup
  BY DEF IInv, WakeupInv, ReadersWait, WritersWait, NoLostWakeup
<1> QED
  BY <1>1, ConsoleInvariant, PTL

\* However many CPUs print while the driver sends, and although uartputc_sync()
\* looks at the status register and writes in two steps, the transmitter never
\* holds more than a byte of each of them, one of the echo and one of the writers.
THEOREM NoTxOverrunAlways == Spec => []NoTxOverrun
<1>1. IInv => NoTxOverrun
  <2> SUFFICES ASSUME IInv PROVE NoTxOverrun
    OBVIOUS
  <2>1. tx \in Nat /\ tx <= 2 + Cardinality(Ready)
    BY ReadyCount DEF IInv, TypeOK, TxInv
  <2> QED
    BY <2>1, ReadyCount DEF NoTxOverrun
<1> QED
  BY <1>1, ConsoleInvariant, PTL
=============================================================================
