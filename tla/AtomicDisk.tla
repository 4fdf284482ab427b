----------------------------- MODULE AtomicDisk -----------------------------
(***************************************************************************)
(* What the log promises file-system calls: their writes reach the disk in *)
(* groups, all or nothing, only when no call is half done, and a crash     *)
(* takes the disk back to the last group.                                  *)
(***************************************************************************)
EXTENDS Naturals

CONSTANTS Block, Value

VARIABLES
  cur,    \* what a call reads
  saved,  \* what is there after a crash
  active  \* the number of calls between begin_op() and end_op()

Init ==
  /\ cur \in [Block -> Value] /\ saved = cur
  /\ active = 0

Begin == active' = active + 1 /\ UNCHANGED <<cur, saved>>

Write(b, v) ==
  /\ active > 0
  /\ cur' = [cur EXCEPT ![b] = v]
  /\ UNCHANGED <<saved, active>>

End ==
  /\ active > 0
  /\ active' = active - 1
  /\ UNCHANGED <<cur, saved>>

Commit ==
  /\ active = 0
  /\ saved' = cur
  /\ UNCHANGED <<cur, active>>

Crash ==
  /\ cur' = saved /\ active' = 0
  /\ UNCHANGED saved

Next ==
  \/ Begin \/ End \/ Commit \/ Crash
  \/ \E b \in Block, v \in Value : Write(b, v)

Spec == Init /\ [][Next]_<<cur, saved, active>>
=============================================================================
