-------------------------------- MODULE Fifo --------------------------------
(***************************************************************************)
(* What a pipe promises: bytes come out in the order they went in, no more *)
(* than Size are under way, and nothing goes in once the reading end is    *)
(* closed or either end comes back.                                        *)
(***************************************************************************)
EXTENDS Naturals, Sequences

CONSTANTS Val, Size

VARIABLES q, ropen, wopen

Init == q = <<>> /\ ropen = TRUE /\ wopen = TRUE

Put(v) ==
  /\ ropen /\ wopen /\ Len(q) < Size
  /\ q' = Append(q, v)
  /\ UNCHANGED <<ropen, wopen>>

Take ==
  /\ ropen /\ q # <<>>
  /\ q' = Tail(q)
  /\ UNCHANGED <<ropen, wopen>>

CloseRead == ropen /\ ropen' = FALSE /\ UNCHANGED <<q, wopen>>
CloseWrite == wopen /\ wopen' = FALSE /\ UNCHANGED <<q, ropen>>

Next == Take \/ CloseRead \/ CloseWrite \/ \E v \in Val : Put(v)

Spec == Init /\ [][Next]_<<q, ropen, wopen>>
=============================================================================
