--------------------------- MODULE LineDiscipline ---------------------------
(***************************************************************************)
(* What the console promises about input: characters are edited in a line; *)
(* a finished line joins the input that is ready, and readers are given    *)
(* the ready input in order, each character once, no call past the end of  *)
(* a line or past an end-of-file mark.  A character that cannot be stored  *)
(* where the reader wants it is lost.                                      *)
(***************************************************************************)
EXTENDS Naturals, Sequences

CONSTANTS Char, NL, EOF, ERASE, KILL, Size

VARIABLES
  line,   \* being edited
  ready,  \* finished, not yet read
  given   \* what was read last

vars == <<line, ready, given>>
Init == line = <<>> /\ ready = <<>> /\ given = <<>>

\* At most Size characters wait; a line that fills the space counts as finished.
Type(c) ==
  /\ c \in Char \cup {NL, EOF}
  /\ Len(ready) + Len(line) < Size
  /\ IF c \in {NL, EOF} \/ Len(ready) + Len(line) = Size - 1
     THEN ready' = ready \o Append(line, c) /\ line' = <<>>
     ELSE line' = Append(line, c) /\ UNCHANGED ready
  /\ UNCHANGED given

Edit ==
  /\ line # <<>>
  /\ line' \in {<<>>, SubSeq(line, 1, Len(line) - 1)}
  /\ UNCHANGED <<ready, given>>

\* k characters of one line, its newline included, or an end-of-file mark, which
\* gives none.
Read ==
  /\ \/ \E k \in 1 .. Len(ready) :
          /\ \A i \in 1 .. k : ready[i] # EOF /\ (ready[i] = NL => i = k)
          /\ given' = SubSeq(ready, 1, k)
          /\ ready' = SubSeq(ready, k + 1, Len(ready))
     \/ ready # <<>> /\ Head(ready) = EOF /\ ready' = Tail(ready) /\ UNCHANGED given
  /\ UNCHANGED line

\* k characters, and one that is lost.
ReadFault ==
  /\ \E k \in 0 .. Len(ready) - 1 :
       /\ \A i \in 1 .. k : ready[i] \notin {NL, EOF}
       /\ ready[k + 1] # EOF
       /\ given' = IF k = 0 THEN given ELSE SubSeq(ready, 1, k)
       /\ ready' = SubSeq(ready, k + 2, Len(ready))
  /\ UNCHANGED line

Next == Read \/ ReadFault \/ Edit \/ \E c \in Char \cup {NL, EOF} : Type(c)
Spec == Init /\ [][Next]_vars
=============================================================================
