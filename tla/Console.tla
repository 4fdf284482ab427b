------------------------------ MODULE Console -------------------------------
(***************************************************************************)
(* The console of kernel/console.c over the UART driver of kernel/uart.c:  *)
(* processes that read lines and write bytes, the UART interrupt that      *)
(* takes typed characters, edits and echoes them and reports the end of a  *)
(* transmission, and other CPUs that print with uartputc_sync() at any     *)
(* time.                                                                   *)
(*                                                                         *)
(* The UART (external) has a queue of received characters and one of       *)
(* characters to send; it interrupts while it has received something, and  *)
(* when the last character is sent until the status register is read or a  *)
(* character is written.  cons.lock is a variable, as the handler keeps it *)
(* while it waits to echo; tx_lock is held over one step.                  *)
(***************************************************************************)
EXTENDS Naturals, Sequences, FiniteSets

CONSTANTS
  Char, NL, EOF, ERASE, KILL,   \* typed characters
  Reader, Writer, Printer,
  ReadSizes,        \* what a reader asks for
  INPUT_BUF_SIZE,
  IdxMod,           \* cons.r, cons.w and cons.e wrap here (2^32)
  StartIdx,         \* characters typed before, modulo IdxMod
  Chunk,            \* bytes of a write(), at most 32
  MaxEvents         \* bound: characters typed and calls made

Typed == Char \cup {NL, EOF, ERASE, KILL}

ASSUME ConsoleAssumption ==
  /\ {INPUT_BUF_SIZE, IdxMod, Chunk, MaxEvents} \subseteq Nat
  /\ INPUT_BUF_SIZE > 0 /\ IdxMod > INPUT_BUF_SIZE /\ IdxMod % INPUT_BUF_SIZE = 0
  /\ StartIdx \in 0 .. IdxMod - 1 /\ ReadSizes \subseteq Nat \ {0} /\ Chunk > 0
  /\ Cardinality({NL, EOF, ERASE, KILL}) = 4 /\ Char \cap {NL, EOF, ERASE, KILL} = {}
  /\ Reader \cap {"free", "intr"} = {} /\ IsFiniteSet(Printer)

VARIABLES
  buf, r, w, e,  \* cons
  lock,          \* cons.lock: "free", "intr" or a reader
  reader,        \* place of a reader, bytes it still wants, bytes it asked for
  killed,
  given,         \* the last characters a reader was given
  intr,          \* place of uartintr(), and characters it has still to echo
  rx, tx,        \* the UART's queues: characters received, number of bytes to send
  thri,          \* its transmitter-empty interrupt
  tx_busy,
  writer,        \* place of a writer and bytes it has left
  printer,       \* place of a CPU in uartputc_sync()
  events

cons == <<buf, r, w, e, given>>
uart == <<rx, tx, thri>>
input == <<reader, killed>>
output == <<tx_busy, writer, printer>>
vars == <<buf, r, w, e, lock, reader, killed, given, intr, rx, tx, thri, tx_busy, writer, printer,
          events>>

Init ==
  /\ buf = [k \in 0 .. INPUT_BUF_SIZE - 1 |-> NL]
  /\ r = StartIdx /\ w = StartIdx /\ e = StartIdx
  /\ lock = "free" /\ given = <<>>
  /\ reader = [p \in Reader |-> [pc |-> "user", n |-> 0, target |-> 0]]
  /\ killed = [p \in Reader |-> FALSE]
  /\ intr = [pc |-> "idle", echo |-> 0]
  /\ rx = <<>> /\ tx = 0 /\ thri = FALSE /\ tx_busy = FALSE
  /\ writer = [p \in Writer |-> [pc |-> "user", left |-> 0]]
  /\ printer = [p \in Printer |-> "user"]
  /\ events = 0

Event == events < MaxEvents /\ events' = events + 1

\* Index arithmetic of uint, and the characters between two indexes.
Plus(i, k) == (i + k) % IdxMod
Minus(i, j) == (i + IdxMod - j) % IdxMod
Between(i, j) == [k \in 1 .. Minus(j, i) |-> buf[Plus(i, k - 1) % INPUT_BUF_SIZE]]
-----------------------------------------------------------------------------
(* consoleread() *)

ReadCall(p, n) ==
  /\ reader[p].pc = "user" /\ Event
  /\ reader' = [reader EXCEPT ![p] = [pc |-> "read", n |-> n, target |-> n]]
  /\ UNCHANGED <<cons, lock, killed, intr, uart, output>>

\* The characters the loop takes before it must wait or is done: up to n, no
\* further than a newline, and up to an end-of-file mark.
Ahead == Between(r, w)
Take(n) ==
  LET stops == {k \in 1 .. Len(Ahead) : Ahead[k] \in {NL, EOF}}
      k == IF stops = {} THEN Len(Ahead) ELSE CHOOSE k \in stops : \A j \in stops : k <= j
  IN IF k <= n THEN k ELSE n

\* The mark itself is not given to the reader; it is left for the next call if
\* this one already has something.
consoleread(p) ==
  LET q == reader[p]
      k == Take(q.n)
      last == Ahead[k]
      eof == k > 0 /\ last = EOF
      got == IF eof THEN k - 1 ELSE k
      n1 == q.n - got
      done == k > 0 /\ (eof \/ n1 = 0 \/ last = NL)
  IN /\ q.pc = "read" /\ lock = "free"
     /\ r' = Plus(r, IF eof /\ n1 < q.target THEN got ELSE k)
     /\ given' = IF got = 0 THEN given ELSE SubSeq(Ahead, 1, got)
     /\ IF done \/ killed[p]
        THEN reader' = [reader EXCEPT ![p].pc = "user"] /\ UNCHANGED lock
        ELSE reader' = [reader EXCEPT ![p].pc = "sleep", ![p].n = n1] /\ lock' = p
     /\ UNCHANGED <<buf, w, e, killed, intr, uart, output, events>>

\* either_copyout() fails for the character after the first k: it is lost, and the
\* call returns.
consoleread_fault(p) ==
  /\ reader[p].pc = "read" /\ lock = "free"
  /\ \E k \in 0 .. Take(reader[p].n) - 1 :
       /\ Ahead[k + 1] # EOF
       /\ r' = Plus(r, k + 1)
       /\ given' = IF k = 0 THEN given ELSE SubSeq(Ahead, 1, k)
  /\ reader' = [reader EXCEPT ![p].pc = "user"]
  /\ UNCHANGED <<buf, w, e, lock, killed, intr, uart, output, events>>

\* killed() has said no: sleep(), which gives the lock up.  A kill() before this
\* has found nobody asleep.
Sleep(p) ==
  /\ reader[p].pc = "sleep"
  /\ reader' = [reader EXCEPT ![p].pc = "zzz"] /\ lock' = "free"
  /\ UNCHANGED <<cons, killed, intr, uart, output, events>>

Woken(pc) == [p \in Reader |-> IF reader[p].pc = "zzz" THEN [reader[p] EXCEPT !.pc = pc] ELSE reader[p]]

Kill(p) ==
  /\ reader[p].pc # "user" /\ ~killed[p]
  /\ killed' = [killed EXCEPT ![p] = TRUE]
  /\ reader' = [reader EXCEPT ![p].pc = IF @ = "zzz" THEN "read" ELSE @]
  /\ UNCHANGED <<cons, lock, intr, uart, output, events>>
-----------------------------------------------------------------------------
(* The UART; a key is pressed once the last one was taken from RHR *)

Keyboard(c) ==
  /\ Event /\ rx = <<>>
  /\ rx' = Append(rx, c)
  /\ UNCHANGED <<cons, lock, input, intr, tx, thri, output>>

Transmit ==
  /\ tx > 0
  /\ tx' = tx - 1 /\ thri' = (tx = 1)
  /\ UNCHANGED <<cons, lock, input, intr, rx, output, events>>

\* A byte written to THR.
WriteTHR == tx' = tx + 1 /\ thri' = FALSE

\* Mutant: the status register is not looked at.
Idle_always == TRUE

\* LSR says that nothing is left to send.
Idle == tx = 0
-----------------------------------------------------------------------------
(* uartintr() and consoleintr() *)

\* Mutant: only received characters interrupt.
uartintr_rxonly ==
  /\ intr.pc = "idle" /\ rx # <<>>
  /\ intr' = [intr EXCEPT !.pc = "tx"] /\ thri' = FALSE
  /\ UNCHANGED <<cons, lock, input, rx, tx, output, events>>

\* Acknowledge by reading ISR.
uartintr ==
  /\ intr.pc = "idle" /\ (thri \/ rx # <<>>)
  /\ intr' = [intr EXCEPT !.pc = "tx"] /\ thri' = FALSE
  /\ UNCHANGED <<cons, lock, input, rx, tx, output, events>>

\* Then, under tx_lock, see whether the transmitter is idle.
TxDone == [p \in Writer |-> IF writer[p].pc = "zzz" THEN [writer[p] EXCEPT !.pc = "write"]
                            ELSE writer[p]]
uartintr_tx ==
  /\ intr.pc = "tx"
  /\ intr' = [intr EXCEPT !.pc = "rx"]
  /\ IF Idle THEN tx_busy' = FALSE /\ writer' = TxDone ELSE UNCHANGED <<tx_busy, writer>>
  /\ UNCHANGED <<cons, lock, input, uart, printer, events>>

\* Mutant: one character too many is stored.
HasRoom_off == Minus(e, r) <= INPUT_BUF_SIZE

\* The buffer has room for one more character.
HasRoom == Minus(e, r) < INPUT_BUF_SIZE

\* A character, with cons.lock: edit the line, or store the character if there
\* is room (the others are dropped), and finish the line at a newline, at an
\* end-of-file mark and when the buffer is full.  An erased character is echoed as
\* backspace, space, backspace.
Finished(c) == c \in {NL, EOF} \/ Minus(e', r) = INPUT_BUF_SIZE
consoleintr ==
  LET c == Head(rx)
      erased == IF c = KILL THEN Minus(e, w) ELSE IF c = ERASE /\ e # w THEN 1 ELSE 0
      stored == c \notin {KILL, ERASE} /\ HasRoom
      echo == IF stored THEN 1 ELSE 3 * erased
  IN /\ intr.pc = "rx" /\ rx # <<>> /\ lock = "free"
     /\ rx' = Tail(rx)
     /\ IF stored
        THEN /\ buf' = [buf EXCEPT ![e % INPUT_BUF_SIZE] = c]
             /\ e' = Plus(e, 1)
             /\ IF Finished(c) THEN w' = e' /\ reader' = Woken("read")
                ELSE UNCHANGED <<w, reader>>
        ELSE e' = Minus(e, erased) /\ UNCHANGED <<buf, w, reader>>
     /\ IF echo = 0 THEN UNCHANGED <<intr, lock>>
        ELSE intr' = [pc |-> "echo", echo |-> echo] /\ lock' = "intr"
     /\ UNCHANGED <<r, given, killed, tx, thri, output, events>>

\* uartputc_sync() for the echo: wait for the transmitter, then write.  With the
\* last byte cons.lock is released.
EchoWait ==
  /\ intr.pc = "echo" /\ Idle
  /\ intr' = [intr EXCEPT !.pc = "put"]
  /\ UNCHANGED <<cons, lock, input, uart, output, events>>

EchoPut ==
  /\ intr.pc = "put"
  /\ WriteTHR
  /\ IF intr.echo = 1 THEN intr' = [pc |-> "rx", echo |-> 0] /\ lock' = "free"
     ELSE intr' = [pc |-> "echo", echo |-> intr.echo - 1] /\ UNCHANGED lock
  /\ UNCHANGED <<cons, input, rx, output, events>>

\* Mutant: the interrupt is acknowledged at the end as well.
uartintr_end_ack ==
  /\ intr.pc = "rx" /\ rx = <<>>
  /\ intr' = [intr EXCEPT !.pc = "idle"] /\ thri' = FALSE
  /\ UNCHANGED <<cons, lock, input, rx, tx, output, events>>

\* uartgetc() finds no character.
uartintr_end ==
  /\ intr.pc = "rx" /\ rx = <<>>
  /\ intr' = [intr EXCEPT !.pc = "idle"]
  /\ UNCHANGED <<cons, lock, input, uart, output, events>>
-----------------------------------------------------------------------------
(* Output *)

\* consolewrite() of a piece that fits its buffer.
WriteCall(p) ==
  /\ writer[p].pc = "user" /\ Event
  /\ writer' = [writer EXCEPT ![p] = [pc |-> "write", left |-> Chunk]]
  /\ UNCHANGED <<cons, lock, input, intr, uart, tx_busy, printer>>

\* Under tx_lock: a byte, once the transmitter is not busy; then sleep until it
\* is free for the next one.
uartwrite(p) ==
  /\ writer[p].pc = "write"
  /\ IF tx_busy
     THEN writer' = [writer EXCEPT ![p].pc = "zzz"] /\ UNCHANGED <<tx, thri, tx_busy>>
     ELSE /\ WriteTHR /\ tx_busy' = TRUE
          /\ writer' = [writer EXCEPT ![p] = [pc |-> IF @.left = 1 THEN "user" ELSE "zzz",
                                              left |-> @.left - 1]]
  /\ UNCHANGED <<cons, lock, input, intr, rx, printer, events>>

\* printf() on another CPU: uartputc_sync() takes no lock the writers take.
PrintCall(p) ==
  /\ printer[p] = "user" /\ Event
  /\ printer' = [printer EXCEPT ![p] = "wait"]
  /\ UNCHANGED <<cons, lock, input, intr, uart, tx_busy, writer>>

SyncWait(p) ==
  /\ printer[p] = "wait" /\ Idle
  /\ printer' = [printer EXCEPT ![p] = "put"]
  /\ UNCHANGED <<cons, lock, input, intr, uart, tx_busy, writer, events>>

SyncPut(p) ==
  /\ printer[p] = "put"
  /\ WriteTHR
  /\ printer' = [printer EXCEPT ![p] = "user"]
  /\ UNCHANGED <<cons, lock, input, intr, rx, tx_busy, writer, events>>
-----------------------------------------------------------------------------
Intr == uartintr \/ uartintr_tx \/ consoleintr \/ EchoWait \/ EchoPut \/ uartintr_end
PrintStep(p) == SyncWait(p) \/ SyncPut(p)
ReadStep(p) == consoleread(p) \/ Sleep(p)

Next ==
  \/ \E p \in Reader : ReadStep(p) \/ consoleread_fault(p) \/ Kill(p)
                       \/ \E n \in ReadSizes : ReadCall(p, n)
  \/ \E p \in Writer : WriteCall(p) \/ uartwrite(p)
  \/ \E p \in Printer : PrintCall(p) \/ PrintStep(p)
  \/ Intr \/ Transmit \/ \E c \in Typed : Keyboard(c)

\* The UART sends what it has; the CPU takes interrupts; processes and CPUs that
\* can go on do.  Nobody need type, read, write or kill.
Fairness ==
  /\ WF_vars(Intr) /\ WF_vars(Transmit)
  /\ \A p \in Reader : WF_vars(ReadStep(p))
  /\ \A p \in Writer : WF_vars(uartwrite(p))
  /\ \A p \in Printer : WF_vars(PrintStep(p))

Spec == Init /\ [][Next]_vars /\ Fairness
-----------------------------------------------------------------------------
\* The types of the variables.
TypeOK ==
  /\ buf \in [0 .. INPUT_BUF_SIZE - 1 -> Char \cup {NL, EOF}]
  /\ {r, w, e} \subseteq 0 .. IdxMod - 1
  /\ lock \in {"free", "intr"} \cup Reader
  /\ reader \in [Reader -> [pc : {"user", "read", "sleep", "zzz"}, n : Nat, target : Nat]]
  /\ killed \in [Reader -> BOOLEAN]
  /\ intr \in [pc : {"idle", "tx", "rx", "echo", "put"}, echo : Nat]
  /\ rx \in Seq(Typed) /\ tx \in Nat /\ thri \in BOOLEAN /\ tx_busy \in BOOLEAN
  /\ writer \in [Writer -> [pc : {"user", "write", "zzz"}, left : Nat]]
  /\ printer \in [Printer -> {"user", "wait", "put"}]
  /\ events \in Nat

\* The circular buffer with its three wrapping indexes is the line discipline:
\* nothing a reader was not given is overwritten, nothing is given twice, and
\* editing never reaches into a finished line.
Lines == INSTANCE LineDiscipline WITH
  line <- Between(w, e), ready <- Between(r, w), Size <- INPUT_BUF_SIZE
IsLineDiscipline == Lines!Spec

\* It rests on the indexes being in order, no more than the buffer apart.
InOrder == Minus(w, r) + Minus(e, w) <= INPUT_BUF_SIZE

\* Who sleeps will be woken: a reader sleeps only while no finished line waits,
\* a writer only while the transmitter is busy; and a busy transmitter has a byte
\* to send, or its interrupt is pending or being handled.
NoLostWakeup ==
  /\ \A p \in Reader : reader[p].pc = "zzz" => r = w
  /\ \A p \in Writer : writer[p].pc = "zzz" => tx_busy
  /\ tx_busy => tx > 0 \/ thri \/ intr.pc = "tx"

\* Its inductive form.  The handler has cons.lock while it echoes; a reader that
\* has decided to sleep has it too, wants something, and has read all there is.
EchoHasLock == intr.pc \in {"echo", "put"} => lock = "intr" /\ intr.echo > 0
ReadersWait ==
  \A p \in Reader :
    /\ reader[p].pc # "user" => 0 < reader[p].n /\ reader[p].n <= reader[p].target
    /\ reader[p].pc = "sleep" => lock = p
    /\ reader[p].pc \in {"sleep", "zzz"} => r = w
WritersWait ==
  /\ \A p \in Writer : /\ writer[p].pc # "user" => writer[p].left > 0
                       /\ writer[p].pc = "zzz" => tx_busy
  /\ tx_busy => tx > 0 \/ thri \/ intr.pc = "tx"
WakeupInv == EchoHasLock /\ ReadersWait /\ WritersWait

\* Although uartputc_sync() looks and writes in two steps without tx_lock, the
\* transmitter never holds more than one byte of the writers, one of the echo and
\* one of each printing CPU, which its FIFO has room for.
NoTxOverrun == tx <= 2 + Cardinality(Printer)

\* Its inductive form: a byte under way is the writers' while the driver takes the
\* transmitter for busy, or that of a CPU, or of the echo, which is not about to
\* write the next.
Ready == {p \in Printer : printer[p] # "put"}
TxInv == tx <= (IF tx_busy THEN 1 ELSE 0) + (IF intr.pc # "put" THEN 1 ELSE 0) + Cardinality(Ready)

\* Every write() to the console ends, whatever is typed and printed meanwhile.
WritesEnd == \A p \in Writer : writer[p].pc # "user" ~> writer[p].pc = "user"
=============================================================================
