-------------------------------- MODULE Disk --------------------------------
(***************************************************************************)
(* The buffer cache of kernel/bio.c, the sleep locks of kernel/sleeplock.c *)
(* that its buffers carry, and the driver of kernel/virtio_disk.c under    *)
(* them, with the device and its interrupt.                                *)
(*                                                                         *)
(* A process that sleeps is at a place whose name ends in "zzz" and moves  *)
(* only when a wakeup() on its channel puts it back.  What a process does  *)
(* to a buffer it has locked, others cannot see: a step runs on to the     *)
(* next lock.  vdisk_lock is held over one step of a process, and by the   *)
(* interrupt handler from its first to its last step.                      *)
(***************************************************************************)
EXTENDS Naturals, Sequences, FiniteSets, FiniteSetsExt, Functions

CONSTANTS
  Proc, NoProc,
  Block, NoBlock,
  NBUF,       \* buffers in the cache
  NUM,        \* descriptors, and entries of each ring
  Uses,       \* what processes do: read, write, log, install
  MaxCalls,   \* bound: uses of a block, in all
  MaxPins     \* blocks the log pins at most

ASSUME DiskAssumption ==
  /\ {NBUF, NUM, MaxCalls, MaxPins} \subseteq Nat /\ NUM >= 3
  /\ Uses \subseteq {"read", "write", "log", "install"}
  /\ NoProc \notin Proc /\ NoBlock \notin Block

Buf == 1 .. NBUF
Desc == 0 .. NUM - 1

VARIABLES
  buf,       \* bcache.buf: blockno, valid, refcnt, the sleep lock's holder, disk, data
  lru,       \* the list from head.next on
  pinned,    \* blocks with a bpin() the log will take back
  proc,      \* place, use, block, buffer, direction and descriptors of a request
  platter,   \* what the disk stores
  latest,    \* the last value a holder gave each block
  free, info,  \* struct disk
  intr,      \* whether virtio_disk_intr() runs
  dev,       \* the device: requests it has, the answers in the used ring that the
             \* driver has not seen, whether it has still to raise the interrupt, and
             \* the interrupt status
  left, panicked

bcache == <<buf, lru, pinned>>
data == <<platter, latest>>
driver == <<free, info>>
vars == <<buf, lru, pinned, proc, platter, latest, free, info, intr, dev, left, panicked>>

NoBuf == [blockno |-> NoBlock, valid |-> FALSE, refcnt |-> 0, lock |-> NoProc,
          disk |-> FALSE, data |-> 0]
Idle == [pc |-> "user", use |-> "", block |-> NoBlock, b |-> 0, write |-> FALSE, idx |-> <<>>]
NoInfo == [b |-> 0, status |-> 255, write |-> FALSE]

\* binit() linked the buffers in and virtio_disk_init() freed the descriptors;
\* since then, every buffer has come to hold a block.
Init ==
  /\ \E held \in Injection(Buf, Block) :
       buf = [b \in Buf |-> [NoBuf EXCEPT !.blockno = held[b], !.valid = TRUE,
                                              !.data = <<held[b], 0>>]]
  /\ lru = [k \in Buf |-> NBUF + 1 - k]
  /\ pinned = {}
  /\ proc = [p \in Proc |-> Idle]
  /\ platter = [x \in Block |-> <<x, 0>>] /\ latest = platter
  /\ free = Desc /\ info = [d \in Desc |-> NoInfo]
  /\ intr = FALSE
  /\ dev = [work |-> {}, used |-> <<>>, raise |-> FALSE, isr |-> FALSE]
  /\ left = MaxCalls /\ panicked = FALSE

At(p, pc) == proc[p].pc = pc
Mine(p) == buf[proc[p].b]
Go(p, pc) == proc' = [proc EXCEPT ![p].pc = pc]

\* The processes after a wakeup() of those that Sleeps(q) says sleep here.
Wake(pc, Sleeps(_)) == [q \in Proc |-> IF Sleeps(q) THEN [proc[q] EXCEPT !.pc = pc] ELSE proc[q]]
-----------------------------------------------------------------------------
(* bio.c *)

\* A process uses a block: it reads it, writes it through, changes it under the
\* log, or (the log, for a block it pinned) installs it.  begin_op() admits uses
\* under the log while the log has room; one commit at a time installs.
InUse(use) == {proc[q].block : q \in {r \in Proc : proc[r].use = use}}
May(use, x) ==
  /\ use = "log" => Cardinality(pinned \cup InUse("log") \cup {x}) <= MaxPins
  /\ use = "install" => x \in pinned \ InUse("install")

Cached(x) == {b \in Buf : buf[b].blockno = x}

\* Mutant: only the end of the list is looked at.
Unused_tail == {k \in {NBUF} : buf[lru[k]].refcnt = 0}

\* Places in the list of buffers without references.
Unused == {k \in Buf : buf[lru[k]].refcnt = 0}

\* Mutant: the buffer counts as read in.
Recycled_valid(b, x) == [b EXCEPT !.blockno = x, !.refcnt = 1]

\* A buffer given to another block.
Recycled(b, x) == [b EXCEPT !.blockno = x, !.valid = FALSE, !.refcnt = 1]

\* Under bcache.lock: one more reference to the block's buffer, or the least
\* recently used buffer without one is given to the block; the lock is next.
bget(p, use, x) ==
  LET hit == CHOOSE b \in Cached(x) : TRUE
      b == IF Cached(x) # {} THEN hit ELSE lru[Max(Unused)]
  IN /\ At(p, "user") /\ left > 0 /\ May(use, x)
     /\ left' = left - 1
     /\ panicked' = (Cached(x) \cup Unused = {})
     /\ IF panicked' THEN UNCHANGED <<buf, proc>>
        ELSE /\ buf' = [buf EXCEPT ![b] = IF Cached(x) # {} THEN [@ EXCEPT !.refcnt = @ + 1]
                                         ELSE Recycled(@, x)]
             /\ proc' = [proc EXCEPT ![p] = [Idle EXCEPT !.pc = "lock", !.use = use,
                                               !.block = x, !.b = b]]
     /\ UNCHANGED <<lru, pinned, driver, data, intr, dev>>

\* Where a use goes on once its buffer is locked and holds the block.
AfterRead(p) == CASE proc[p].use = "read" -> "brelse"
                  [] proc[p].use = "install" -> "rw"
                  [] OTHER -> "modify"

\* The rest of bread(): lock the buffer, or sleep; read the block unless the
\* buffer holds it.
acquiresleep(p) ==
  /\ At(p, "lock")
  /\ IF Mine(p).lock # NoProc THEN Go(p, "lockzzz") /\ UNCHANGED buf
     ELSE /\ buf' = [buf EXCEPT ![proc[p].b].lock = p]
          /\ proc' = [proc EXCEPT ![p].pc = IF Mine(p).valid THEN AfterRead(p) ELSE "rw",
                                  ![p].write = Mine(p).valid]
  /\ UNCHANGED <<lru, pinned, driver, data, intr, dev, left, panicked>>

\* The holder changes the data.  It writes it through, or log_write() pins the
\* buffer of a block that is not in the log yet.
bpin(p) == proc[p].use = "log" /\ proc[p].block \notin pinned
modify(p) ==
  LET x == proc[p].block
  IN /\ At(p, "modify")
     /\ latest' = [latest EXCEPT ![x][2] = @ + 1]
     /\ buf' = [buf EXCEPT ![proc[p].b].data = latest'[x],
                           ![proc[p].b].refcnt = IF bpin(p) THEN @ + 1 ELSE @]
     /\ pinned' = IF bpin(p) THEN pinned \cup {x} ELSE pinned
     /\ proc' = [proc EXCEPT ![p].pc = IF proc[p].use = "write" THEN "rw" ELSE "brelse"]
     /\ UNCHANGED <<lru, driver, platter, intr, dev, left, panicked>>

\* brelse(): first releasesleep(), which wakes everybody who waits for the lock.
releasesleep(p) ==
  /\ At(p, "brelse")
  /\ buf' = [buf EXCEPT ![proc[p].b].lock = NoProc]
  /\ proc' = [Wake("lock", LAMBDA q : At(q, "lockzzz") /\ proc[q].b = proc[p].b)
              EXCEPT ![p].pc = "unref"]
  /\ UNCHANGED <<lru, pinned, driver, data, intr, dev, left, panicked>>

\* Then, under bcache.lock, the reference; a buffer nobody refers to becomes the
\* most recently used.
Released(b) == [buf EXCEPT ![b].refcnt = @ - 1]
brelse(p) ==
  LET b == proc[p].b
  IN /\ At(p, "unref")
     /\ buf' = Released(b)
     /\ lru' = IF buf'[b].refcnt = 0 THEN <<b>> \o SelectSeq(lru, LAMBDA c : c # b) ELSE lru
     /\ proc' = [proc EXCEPT ![p] = Idle]
     /\ UNCHANGED <<pinned, driver, data, intr, dev, left, panicked>>
-----------------------------------------------------------------------------
(* virtio_disk.c: the steps of a process need vdisk_lock *)

\* The first three free descriptors for a request, which the device is told of
\* (neither ring is ever full: a request takes three of NUM descriptors); then
\* sleep until the interrupt clears b->disk.  With fewer than three,
\* alloc3_desc() takes what there is and frees it again, which already wakes the
\* others that wait for descriptors, and the process sleeps.
First3(S) == LET a == Min(S)  b == Min(S \ {a})  c == Min(S \ {a, b}) IN <<a, b, c>>
NoDescs(q) == At(q, "desczzz")
virtio_disk_rw(p) ==
  LET d == First3(free)
      b == proc[p].b
  IN /\ At(p, "rw") /\ ~intr
     /\ IF Cardinality(free) >= 3
        THEN /\ free' = free \ Range(d)
             /\ info' = [info EXCEPT ![d[1]] = [b |-> b, status |-> 255, write |-> proc[p].write]]
             /\ buf' = [buf EXCEPT ![b].disk = TRUE]
             /\ dev' = [dev EXCEPT !.work = @ \cup {d[1]}]
             /\ proc' = [proc EXCEPT ![p].pc = "diskzzz", ![p].idx = d]
        ELSE /\ proc' = [(IF free = {} THEN proc ELSE Wake("rw", NoDescs))
                         EXCEPT ![p].pc = "desczzz"]
             /\ UNCHANGED <<buf, free, info, dev>>
     /\ UNCHANGED <<lru, pinned, data, intr, left, panicked>>

\* Mutant: the status descriptor is not freed.
free_chain_short(idx) == free \cup {idx[1], idx[2]}

\* The descriptors free after those of a request are.
free_chain(idx) == free \cup Range(idx)

\* Awake again: the request is done, free_chain() frees its descriptors and
\* wakes those who wait for some.  bread() marks the buffer valid; bwrite() has
\* nothing more to do, and after it the log takes its pin back.
rw_done(p) ==
  LET q == proc[p]
      unpin == q.write /\ q.use = "install"
  IN /\ At(p, "disk") /\ ~intr /\ ~Mine(p).disk
     /\ free' = free_chain(q.idx)
     /\ info' = [info EXCEPT ![q.idx[1]] = NoInfo]
     /\ panicked' = (Range(q.idx) \cap free # {})
     /\ buf' = [buf EXCEPT ![q.b].valid = TRUE,
                           ![q.b].refcnt = IF unpin THEN @ - 1 ELSE @]
     /\ pinned' = IF unpin THEN pinned \ {q.block} ELSE pinned
     /\ proc' = [Wake("rw", NoDescs) EXCEPT ![p].idx = <<>>, ![p].write = TRUE,
                   ![p].pc = IF q.write THEN "brelse" ELSE AfterRead(p)]
     /\ UNCHANGED <<lru, data, intr, dev, left>>

\* virtio_disk_intr(): acknowledge first, then look at the used ring until
\* nothing is new.
IntrEnter ==
  /\ dev.isr /\ ~intr
  /\ intr' = TRUE /\ dev' = [dev EXCEPT !.isr = FALSE]
  /\ UNCHANGED <<bcache, driver, proc, data, left, panicked>>

IntrNext ==
  LET id == Head(dev.used)
      b == info[id].b
  IN /\ intr /\ dev.used # <<>>
     /\ dev' = [dev EXCEPT !.used = Tail(@)]
     /\ panicked' = (info[id].status # 0 \/ b = 0)
     /\ IF panicked' THEN UNCHANGED <<buf, proc>>
        ELSE /\ buf' = [buf EXCEPT ![b].disk = FALSE]
             /\ proc' = Wake("disk", LAMBDA q : At(q, "diskzzz") /\ proc[q].b = b)
     /\ UNCHANGED <<lru, pinned, free, info, data, intr, left>>

\* Mutant: the handler leaves after one completion.
IntrExit_once ==
  /\ intr
  /\ intr' = FALSE
  /\ UNCHANGED <<bcache, driver, proc, data, dev, left, panicked>>

\* Nothing is new in the used ring.
IntrExit ==
  /\ intr /\ dev.used = <<>>
  /\ intr' = FALSE
  /\ UNCHANGED <<bcache, driver, proc, data, dev, left, panicked>>
-----------------------------------------------------------------------------
(* The device: it carries requests out in any order, enters each in the used *)
(* ring, and then raises the interrupt.                                      *)

DevDo(d) ==
  LET r == info[d]
      x == buf[r.b].blockno
  IN /\ d \in dev.work
     /\ IF r.write THEN platter' = [platter EXCEPT ![x] = buf[r.b].data] /\ UNCHANGED buf
        ELSE buf' = [buf EXCEPT ![r.b].data = platter[x]] /\ UNCHANGED platter
     /\ info' = [info EXCEPT ![d].status = 0]
     /\ dev' = [dev EXCEPT !.work = @ \ {d}, !.used = Append(@, d), !.raise = TRUE]
     /\ UNCHANGED <<lru, pinned, free, proc, latest, intr, left, panicked>>

DevRaise ==
  /\ dev.raise
  /\ dev' = [dev EXCEPT !.raise = FALSE, !.isr = TRUE]
  /\ UNCHANGED <<bcache, driver, proc, data, intr, left, panicked>>
-----------------------------------------------------------------------------
Step(p) ==
  \/ acquiresleep(p) \/ modify(p) \/ releasesleep(p) \/ brelse(p)
  \/ virtio_disk_rw(p) \/ rw_done(p)
  \/ \E use \in Uses, x \in Block : bget(p, use, x)
Intr == IntrEnter \/ IntrNext \/ IntrExit
Device == DevRaise \/ \E d \in Desc : DevDo(d)

\* Nobody uses a block, or the kernel has panicked.
Rest == (panicked \/ \A p \in Proc : At(p, "user")) /\ UNCHANGED vars

Next ==
  \/ ~panicked /\ (Intr \/ Device \/ \E p \in Proc : Step(p))
  \/ Rest

Spec == Init /\ [][Next]_vars
-----------------------------------------------------------------------------
\* Whoever has bread() a block and holds its buffer sees what the last holder
\* left there, whether that is on the disk, on its way there, or only pinned in
\* the cache.
HolderSeesLatest ==
  \A p \in Proc :
    proc[p].b # 0 /\ Mine(p).lock = p /\ proc[p].write =>
      Mine(p).data = latest[proc[p].block]

\* Every descriptor is free or belongs to one request; and a request is either
\* with the device or in the used ring, once, until the interrupt handler has
\* told its process.
Answered == Range(dev.used)
Requests == {p \in Proc : proc[p].idx # <<>>}
DescsExact ==
  /\ \A p, q \in Proc : p # q => Range(proc[p].idx) \cap Range(proc[q].idx) = {}
  /\ UNION {Range(proc[p].idx) : p \in Proc} = Desc \ free
  /\ {proc[p].idx[1] : p \in {q \in Requests : Mine(q).disk}} = dev.work \cup Answered
  /\ dev.work \cap Answered = {} /\ Cardinality(Answered) = Len(dev.used)

\* No wakeup is lost: who sleeps for a lock, for descriptors or for a request
\* sleeps while the lock is held, the descriptors are short or the request is not
\* done; and an answer the handler has not seen has an interrupt coming.
WakeupsNotLost ==
  /\ \A p \in Proc :
       /\ At(p, "lockzzz") => Mine(p).lock # NoProc
       /\ At(p, "desczzz") => Cardinality(free) < 3 /\ Requests # {}
       /\ At(p, "diskzzz") => Mine(p).disk
  /\ Answered # {} => dev.raise \/ dev.isr \/ intr

\* No panic: bget() always finds a buffer, as every process holds one at most and
\* the log pins MaxPins; free_desc() frees what is in use; an interrupt is about
\* a request that has succeeded.
NoPanic == ~panicked
=============================================================================
