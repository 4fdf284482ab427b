-------------------------------- MODULE Log --------------------------------
(***************************************************************************)
(* The redo log of kernel/log.c over the buffer cache and a disk, with     *)
(* crashes.  A step is one critical section of log.lock or one disk write; *)
(* a crash may come between any two steps and loses everything but the     *)
(* disk.  The disk has home blocks, the log's data blocks and the header   *)
(* block; writing one block is atomic (virtio_disk_rw() waits for it).     *)
(***************************************************************************)
EXTENDS Naturals, Sequences, FiniteSets

CONSTANTS
  Block,        \* home blocks
  Value,        \* what a block can hold
  NoBuf,        \* marks a block that is not in the buffer cache
  Thread,       \* threads that make file-system calls
  LOGBLOCKS,    \* data blocks in the log
  MAXOPBLOCKS,  \* blocks begin_op() reserves for a call
  OpBlocks,     \* blocks a call really dirties at most
  MaxOps,       \* bound: calls made by each thread
  MaxCrashes    \* bound: crashes

ASSUME LogAssumption ==
  /\ LOGBLOCKS \in Nat /\ MAXOPBLOCKS \in Nat /\ OpBlocks \in Nat
  /\ MaxOps \in Nat /\ MaxCrashes \in Nat
  /\ OpBlocks < MAXOPBLOCKS /\ MAXOPBLOCKS <= LOGBLOCKS
  /\ NoBuf \notin Value
  /\ IsFiniteSet(Block) /\ IsFiniteSet(Thread)

VARIABLES
  disk, logblk, header,  \* on disk: home blocks, log blocks, log header
  cache, pinned,         \* buffer cache: contents, and blocks bpin() holds
  lh,                    \* log.lh: the block numbers of the transaction
  outstanding, committing,
  tail,                  \* position in write_log() or install_trans()
  boot,                  \* what recover_from_log() does next, or "up"
  pc, dirty, ops,        \* per thread: place, blocks dirtied, calls left
  crashes

disks == <<disk, logblk, header>>
buffers == <<cache, pinned>>
calls == <<pc, dirty, ops>>
vars == <<disk, logblk, header, cache, pinned, lh, outstanding, committing,
          tail, boot, pc, dirty, ops, crashes>>

Init ==
  /\ disk \in [Block -> Value]
  /\ logblk \in {[i \in 1 .. LOGBLOCKS |-> v] : v \in Value}
  /\ header = <<>>
  /\ cache = [b \in Block |-> NoBuf] /\ pinned = {}
  /\ lh = <<>> /\ outstanding = 0 /\ committing = FALSE /\ tail = 1
  /\ boot = "read_head"
  /\ pc = [t \in Thread |-> "idle"] /\ dirty = [t \in Thread |-> {}]
  /\ ops = [t \in Thread |-> MaxOps]
  /\ crashes = 0

\* bread(): the cached contents, or the disk's.
bread(b) == IF cache[b] # NoBuf THEN cache[b] ELSE disk[b]

\* Block b is part of the transaction.
Logged(b) == \E i \in 1 .. Len(lh) : lh[i] = b

\* wakeup(&log).
Awake == [t \in Thread |-> IF pc[t] = "asleep" THEN "begin_op" ELSE pc[t]]
-----------------------------------------------------------------------------
\* A thread makes a file-system call.
Call(t) ==
  /\ boot = "up" /\ pc[t] = "idle" /\ ops[t] > 0
  /\ ops' = [ops EXCEPT ![t] = @ - 1]
  /\ pc' = [pc EXCEPT ![t] = "begin_op"]
  /\ UNCHANGED <<disks, buffers, lh, outstanding, committing, tail, boot, dirty,
                 crashes>>

\* Mutant of MayBegin: a commit in progress is ignored.
MayBegin_any_time == Len(lh) + (outstanding + 1) * MAXOPBLOCKS <= LOGBLOCKS

\* begin_op(): no commit is going on and this call cannot exhaust the log.
MayBegin ==
  /\ ~committing
  /\ Len(lh) + (outstanding + 1) * MAXOPBLOCKS <= LOGBLOCKS

\* begin_op(): one turn of its loop; it sleeps or reserves log space.
begin_op(t) ==
  /\ pc[t] = "begin_op"
  /\ outstanding' = IF MayBegin THEN outstanding + 1 ELSE outstanding
  /\ pc' = [pc EXCEPT ![t] = IF MayBegin THEN "op" ELSE "asleep"]
  /\ UNCHANGED <<disks, buffers, lh, committing, tail, boot, dirty, ops, crashes>>

\* Mutant of log_write: no absorption, every write takes a log block.
log_write_no_absorb(t, b, v) ==
  /\ pc[t] = "op" /\ Cardinality(dirty[t] \cup {b}) <= OpBlocks
  /\ dirty' = [dirty EXCEPT ![t] = @ \cup {b}]
  /\ cache' = [cache EXCEPT ![b] = v]
  /\ lh' = Append(lh, b) /\ pinned' = pinned \cup {b}
  /\ UNCHANGED <<disks, outstanding, committing, tail, boot, pc, ops, crashes>>

\* bread(), a change to the data, log_write() (with absorption), brelse().
log_write(t, b, v) ==
  /\ pc[t] = "op" /\ Cardinality(dirty[t] \cup {b}) <= OpBlocks
  /\ dirty' = [dirty EXCEPT ![t] = @ \cup {b}]
  /\ cache' = [cache EXCEPT ![b] = v]
  /\ IF Logged(b)
     THEN UNCHANGED <<lh, pinned>>
     ELSE lh' = Append(lh, b) /\ pinned' = pinned \cup {b}
  /\ UNCHANGED <<disks, outstanding, committing, tail, boot, pc, ops, crashes>>

\* end_op(), first critical section: the last call out commits.
end_op(t) ==
  /\ pc[t] = "op"
  /\ outstanding' = outstanding - 1
  /\ committing' = (outstanding = 1)
  /\ pc' = IF outstanding = 1
           THEN [pc EXCEPT ![t] = IF lh = <<>> THEN "committed" ELSE "write_log"]
           ELSE [Awake EXCEPT ![t] = "idle"]
  /\ dirty' = [dirty EXCEPT ![t] = {}]
  /\ tail' = 1
  /\ UNCHANGED <<disks, buffers, lh, boot, ops, crashes>>

\* write_log(): copy the next block from the cache to the log.
write_log(t) ==
  /\ pc[t] = "write_log"
  /\ logblk' = [logblk EXCEPT ![tail] = bread(lh[tail])]
  /\ tail' = IF tail = Len(lh) THEN 1 ELSE tail + 1
  /\ pc' = [pc EXCEPT ![t] = IF tail = Len(lh) THEN "write_head" ELSE "write_log"]
  /\ UNCHANGED <<disk, header, buffers, lh, outstanding, committing, boot, dirty,
                 ops, crashes>>

\* write_head(): the commit point.
write_head(t) ==
  /\ pc[t] = "write_head"
  /\ header' = lh
  /\ pc' = [pc EXCEPT ![t] = "install"]
  /\ UNCHANGED <<disk, logblk, buffers, lh, outstanding, committing, tail, boot,
                 dirty, ops, crashes>>

\* install_trans(0): the next block goes home and is unpinned.
install_trans(t) ==
  /\ pc[t] = "install"
  /\ disk' = [disk EXCEPT ![lh[tail]] = logblk[tail]]
  /\ cache' = [cache EXCEPT ![lh[tail]] = logblk[tail]]
  /\ pinned' = pinned \ {lh[tail]}
  /\ tail' = IF tail = Len(lh) THEN 1 ELSE tail + 1
  /\ pc' = [pc EXCEPT ![t] = IF tail = Len(lh) THEN "erase" ELSE "install"]
  /\ UNCHANGED <<logblk, header, lh, outstanding, committing, boot, dirty, ops,
                 crashes>>

\* commit(): log.lh.n = 0 and the second write_head().
erase(t) ==
  /\ pc[t] = "erase"
  /\ lh' = <<>> /\ header' = <<>>
  /\ pc' = [pc EXCEPT ![t] = "committed"]
  /\ UNCHANGED <<disk, logblk, buffers, outstanding, committing, tail, boot,
                 dirty, ops, crashes>>

\* Mutant of committed: nobody is woken.
committed_no_wakeup(t) ==
  /\ pc[t] = "committed"
  /\ committing' = FALSE
  /\ pc' = [pc EXCEPT ![t] = "idle"]
  /\ UNCHANGED <<disks, buffers, lh, outstanding, tail, boot, dirty, ops, crashes>>

\* end_op(), second critical section.
committed(t) ==
  /\ pc[t] = "committed"
  /\ committing' = FALSE
  /\ pc' = [Awake EXCEPT ![t] = "idle"]
  /\ UNCHANGED <<disks, buffers, lh, outstanding, tail, boot, dirty, ops, crashes>>
-----------------------------------------------------------------------------
\* bget() takes an unreferenced buffer for another block.
Recycle(b) ==
  /\ boot = "up" /\ cache[b] # NoBuf /\ b \notin pinned
  /\ cache' = [cache EXCEPT ![b] = NoBuf]
  /\ UNCHANGED <<disks, pinned, lh, outstanding, committing, tail, boot, calls,
                 crashes>>

\* The machine stops and starts again: only the disk is left.
Crash ==
  /\ crashes < MaxCrashes /\ crashes' = crashes + 1
  /\ cache' = [b \in Block |-> NoBuf] /\ pinned' = {}
  /\ lh' = <<>> /\ outstanding' = 0 /\ committing' = FALSE /\ tail' = 1
  /\ boot' = "read_head"
  /\ pc' = [t \in Thread |-> "idle"] /\ dirty' = [t \in Thread |-> {}]
  /\ UNCHANGED <<disks, ops>>

\* Mutant of read_head: the log is not installed.
read_head_skip ==
  /\ boot = "read_head"
  /\ lh' = header /\ tail' = 1
  /\ boot' = "clear"
  /\ UNCHANGED <<disks, buffers, outstanding, committing, calls, crashes>>

\* recover_from_log(): read_head().
read_head ==
  /\ boot = "read_head"
  /\ lh' = header /\ tail' = 1
  /\ boot' = IF header = <<>> THEN "clear" ELSE "install"
  /\ UNCHANGED <<disks, buffers, outstanding, committing, calls, crashes>>

\* recover_from_log(): install_trans(1), a block at a time.
recover ==
  /\ boot = "install"
  /\ disk' = [disk EXCEPT ![lh[tail]] = logblk[tail]]
  /\ cache' = [cache EXCEPT ![lh[tail]] = logblk[tail]]
  /\ tail' = IF tail = Len(lh) THEN 1 ELSE tail + 1
  /\ boot' = IF tail = Len(lh) THEN "clear" ELSE "install"
  /\ UNCHANGED <<logblk, header, pinned, lh, outstanding, committing, calls, crashes>>

\* recover_from_log(): write_head() clears the log.
clear ==
  /\ boot = "clear"
  /\ lh' = <<>> /\ header' = <<>>
  /\ boot' = "up"
  /\ UNCHANGED <<disk, logblk, buffers, outstanding, committing, tail, calls, crashes>>
-----------------------------------------------------------------------------
Step(t) ==
  \/ begin_op(t) \/ end_op(t)
  \/ write_log(t) \/ write_head(t) \/ install_trans(t) \/ erase(t) \/ committed(t)

Recovery == read_head \/ recover \/ clear

\* Every thread is asleep or has no call left to make, and the CPUs idle.
Rest ==
  /\ boot = "up"
  /\ \A t \in Thread : pc[t] = "asleep" \/ (pc[t] = "idle" /\ ops[t] = 0)
  /\ UNCHANGED vars

Next ==
  \/ \E t \in Thread : Call(t) \/ Step(t)
  \/ \E t \in Thread, b \in Block, v \in Value : log_write(t, b, v)
  \/ \E b \in Block : Recycle(b)
  \/ Crash \/ Recovery \/ Rest

Spec == Init /\ [][Next]_vars

\* A thread that can run does, the boot thread included; calls end.
Fairness == WF_vars(Recovery) /\ \A t \in Thread : WF_vars(Step(t))
-----------------------------------------------------------------------------
Committing == {t \in Thread :
  pc[t] \in {"write_log", "write_head", "install", "erase", "committed"}}
Active == {t \in Thread : pc[t] = "op"}

TypeOK ==
  /\ disk \in [Block -> Value] /\ logblk \in [1 .. LOGBLOCKS -> Value]
  /\ header \in Seq(Block) /\ lh \in Seq(Block)
  /\ cache \in [Block -> Value \cup {NoBuf}] /\ pinned \subseteq Block
  /\ outstanding \in Nat /\ committing \in BOOLEAN /\ tail \in 1 .. LOGBLOCKS
  /\ boot \in {"read_head", "install", "clear", "up"}
  /\ pc \in [Thread -> {"idle", "begin_op", "asleep", "op", "write_log",
                        "write_head", "install", "erase", "committed"}]
  /\ dirty \in [Thread -> SUBSET Block]
  /\ ops \in [Thread -> Nat] /\ crashes \in Nat

\* No panic of log.c is reachable: a call that dirties fewer blocks than it
\* reserved always finds room for one more in log_write(), and neither
\* log_write() nor end_op() meets a commit in progress.
LogWriteSafe ==
  Active # {} => Len(lh) < LOGBLOCKS /\ outstanding > 0 /\ ~committing

\* One thread commits at a time, and it commits alone.
CommitAlone ==
  /\ outstanding = Cardinality(Active)
  /\ committing <=> Committing # {}
  /\ \A t, u \in Committing : t = u
  /\ committing => outstanding = 0

\* bpin() keeps every block of the transaction in the cache until its new
\* contents are at home, so Recycle never loses a write.
DirtyIsCached ==
  \A b \in Block :
    cache[b] # NoBuf /\ cache[b] # disk[b] =>
      b \in pinned /\ Logged(b)

\* Every call ends, whatever the others do, once there are no more crashes.
CallsFinish == <>[](\A t \in Thread : pc[t] = "idle" /\ boot = "up")
-----------------------------------------------------------------------------
\* The inductive invariant.  Log space that calls in progress may still use:
Reserve == {x \in Thread \X (0 .. MAXOPBLOCKS - 1) :
              pc[x[1]] = "op" /\ Cardinality(dirty[x[1]]) <= x[2]}

SpaceInv ==
  /\ Len(lh) + Cardinality(Reserve) <= LOGBLOCKS
  /\ Len(header) <= LOGBLOCKS
  /\ \A t \in Active : Cardinality(dirty[t]) <= OpBlocks
                        /\ \A b \in dirty[t] : Logged(b)
  /\ \A t \in Thread \ Active : dirty[t] = {}

NoRepeat(h) == \A i, j \in 1 .. Len(h) : h[i] = h[j] => i = j

\* Before the system is up there are no calls, and the cache agrees with the disk.
BootInv ==
  boot # "up" =>
    /\ \A t \in Thread : pc[t] = "idle"
    /\ pinned = {} /\ \A b \in Block : cache[b] \in {NoBuf, disk[b]}
    /\ boot # "read_head" => lh = header
    /\ boot = "install" => tail <= Len(lh)
    /\ \A i \in 1 .. Len(lh) :
         boot = "clear" \/ (boot = "install" /\ i < tail) => disk[lh[i]] = logblk[i]

\* What a thread in commit() has done so far.
PlaceInv(t) ==
  /\ pc[t] \in {"install", "erase"} => header = lh
  /\ pc[t] \in {"write_log", "install"} => tail <= Len(lh)
  /\ pc[t] = "write_head" => tail = 1 /\ lh # <<>>
  /\ pc[t] = "committed" => lh = <<>>
  /\ \A i \in 1 .. Len(lh) :
       /\ pc[t] = "write_log" /\ i < tail => logblk[i] = bread(lh[i])
       /\ pc[t] \in {"write_head", "install", "erase"} => logblk[i] = bread(lh[i])
       /\ pc[t] = "install" /\ tail <= i => lh[i] \in pinned
       /\ pc[t] = "install" /\ i < tail => disk[lh[i]] = logblk[i]
       /\ pc[t] = "erase" => disk[lh[i]] = logblk[i]

CommitInv ==
  boot = "up" =>
    /\ (\A t \in Thread : pc[t] \notin {"install", "erase"}) =>
         header = <<>> /\ \A b \in Block : Logged(b) => b \in pinned
    /\ \A t \in Thread : PlaceInv(t)
    /\ \A b \in pinned : cache[b] # NoBuf

IInv ==
  /\ TypeOK /\ CommitAlone /\ SpaceInv
  /\ NoRepeat(lh) /\ NoRepeat(header)
  /\ BootInv /\ CommitInv /\ DirtyIsCached
-----------------------------------------------------------------------------
\* Disk d as recovery would leave it with header h and log blocks l.
Recovered(h, l, d) == [b \in Block |->
  IF \E i \in 1 .. Len(h) : h[i] = b
  THEN l[CHOOSE i \in 1 .. Len(h) : h[i] = b] ELSE d[b]]

savedBar == Recovered(header, logblk, disk)

curBar == IF boot = "up" THEN [b \in Block |-> bread(b)] ELSE savedBar

AD == INSTANCE AtomicDisk WITH cur <- curBar, saved <- savedBar, active <- outstanding

\* Calls are atomic with respect to crashes: a crash anywhere, in commit() or
\* in recovery included, leaves the writes of all calls up to some commit and
\* nothing of the later ones.
CrashAtomic == AD!Spec
=============================================================================
