------------------------------- MODULE Files --------------------------------
(***************************************************************************)
(* The file-system calls of kernel/sysfile.c and kernel/file.c over the    *)
(* inode table, directories and path walk of kernel/fs.c, with crashes.    *)
(*                                                                         *)
(* The log makes the calls that overlap one transaction: `committed` is    *)
(* the disk as of the last moment no call was inside begin_op/end_op (Log  *)
(* shows that a crash leaves exactly that).  A step of a process is what   *)
(* it does between two points where others can interfere: while it holds   *)
(* one inode lock it takes, uses and gives it back in one step; where the  *)
(* code keeps a lock over another lock or an iput(), `lock` records it.    *)
(* iput() is a step of its own, or three when it frees the inode.          *)
(***************************************************************************)
EXTENDS FileDisk

CONSTANTS
  Proc, NoProc,
  Call,        \* the calls a process may make: records [op, ...]
  NFILE,       \* entries of the file table
  NOFILE,      \* descriptors of a process
  NINODE,      \* entries of the in-memory inode table
  WriteMax,    \* units filewrite() writes in one transaction
  FileName,    \* the file in the image
  MaxCalls,    \* bound: calls made in all
  MaxCrashes   \* bound: crashes

ASSUME FilesAssumption ==
  /\ {NFILE, NOFILE, NINODE, WriteMax, MaxCalls, MaxCrashes} \subseteq Nat
  /\ NoProc \notin Proc /\ WriteMax > 0

VARIABLES
  disk,       \* the disk as the buffer cache shows it
  committed,  \* the disk a crash would leave
  mem,        \* itable: ref, valid and the copy of the disk inode
  lock,       \* holder of an inode's sleep lock
  file,       \* ftable
  proc,       \* place in a call and what the call holds
  cwd, ofile, \* p->cwd, p->ofile
  left,       \* calls left to make
  crashes,
  leaked,     \* inodes iput() has left allocated without links or references
  panicked

vars == <<disk, committed, mem, lock, file, proc, cwd, ofile, left, crashes, leaked, panicked>>
kept == <<left, crashes, leaked>>
tables == <<file, cwd, ofile>>
-----------------------------------------------------------------------------
File == 1 .. NFILE
Fd == 0 .. NOFILE - 1
NoEntry == [ref |-> 0, valid |-> FALSE, din |-> FreeInode]
NoFile == [ref |-> 0, type |-> "NONE", ip |-> 0, off |-> 0, r |-> FALSE, w |-> FALSE]

\* A process: where it is, the call it makes and how much of a write is left,
\* the rest of the path, whether the walk stops at the parent and where it goes
\* on; the inodes it has a reference to (w: the walk's, or its result); the
\* entry's name offset; the inodes it is about to iput(), the first perhaps in
\* the middle of it; whether it is inside a transaction.
Idle == [pc |-> "user", c |-> [op |-> "none"], n |-> 0, path |-> <<>>, parent |-> FALSE,
         after |-> "", w |-> 0, ip |-> 0, dp |-> 0, off |-> 0,
         puts |-> <<>>, put |-> "", inop |-> FALSE]

\* mkfs made the disk; a process opened the one file and forked the others.
Init ==
  /\ disk = Image(FileName) /\ committed = disk
  /\ mem = [i \in Inum |->
              CASE i = ROOTINO -> [ref |-> Cardinality(Proc), valid |-> TRUE, din |-> disk.ino[i]]
                [] i = 2 -> [ref |-> 1, valid |-> TRUE, din |-> disk.ino[i]]
                [] OTHER -> NoEntry]
  /\ lock = [i \in Inum |-> NoProc]
  /\ file = [f \in File |->
               IF f = 1 THEN [ref |-> Cardinality(Proc), type |-> "INODE", ip |-> 2,
                              off |-> 0, r |-> TRUE, w |-> TRUE]
               ELSE NoFile]
  /\ proc = [p \in Proc |-> Idle]
  /\ cwd = [p \in Proc |-> ROOTINO]
  /\ ofile = [p \in Proc |-> [fd \in Fd |-> IF fd = 0 THEN 1 ELSE 0]]
  /\ left = MaxCalls /\ crashes = 0 /\ leaked = {} /\ panicked = FALSE
-----------------------------------------------------------------------------
(* The inode table *)

\* iget() can find or make an entry for i.
HasSlot(i) == mem[i].ref > 0 \/ Cardinality({j \in Inum : mem[j].ref > 0}) < NINODE

\* The table after one more reference to i; a recycled entry is not valid.
iget(m, i) == [m EXCEPT ![i] = IF @.ref > 0 THEN [@ EXCEPT !.ref = @ + 1]
                               ELSE [NoEntry EXCEPT !.ref = 1]]

\* The in-memory inode once ilock() has read it from the disk if need be.
ilocked(d, i) == IF mem[i].valid THEN mem[i].din ELSE d.ino[i]

\* The table with a valid copy of i.
Loaded(m, i, din) == [m EXCEPT ![i].valid = TRUE, ![i].din = din]

At(p, pc) == proc[p].pc = pc /\ proc[p].puts = <<>>

\* The checks that panic: ilock() of an inode that is free on disk, iget() with
\* all NINODE entries referenced, and the ones the calls make.  After a panic
\* nobody moves.
Panics(cond) == panicked' = cond
NoType(i) == ilocked(disk, i).type = "FREE"

\* Process p goes on at pc after it has put the inodes is, holding no others.
Go(p, pc, is) == proc' = [proc EXCEPT ![p].pc = pc, ![p].puts = is,
                                      ![p].w = 0, ![p].ip = 0, ![p].dp = 0]
-----------------------------------------------------------------------------
(* iput() *)

\* Allocated on disk d, and without links.
Orphan(d, i) == d.ino[i].type # "FREE" /\ d.ino[i].nlink = 0

\* Mutant: whether others hold a reference is not looked at.
LastOf_any(i) == mem[i].valid /\ mem[i].din.nlink = 0

\* The last reference to an inode that has no links.
LastOf(i) == mem[i].ref = 1 /\ mem[i].valid /\ mem[i].din.nlink = 0

DropRef(m, i) == [m EXCEPT ![i] = IF @.ref = 1 THEN NoEntry ELSE [@ EXCEPT !.ref = @ - 1]]

\* Not the last reference, or the inode is still linked.
PutRef(p) ==
  /\ proc[p].puts # <<>> /\ proc[p].put = "" /\ ~LastOf(Head(proc[p].puts))
  /\ mem' = DropRef(mem, Head(proc[p].puts))
  /\ proc' = [proc EXCEPT ![p].puts = Tail(@)]
  /\ UNCHANGED <<disk, committed, lock, tables, panicked, kept>>

\* The last reference to an unlinked inode: lock it, under itable.lock.  If the
\* lock were held, acquiresleep() would sleep with a spin lock held and panic.
PutLast(p) ==
  LET i == Head(proc[p].puts)
  IN /\ proc[p].puts # <<>> /\ proc[p].put = "" /\ LastOf(i)
     /\ lock' = [lock EXCEPT ![i] = p]
     /\ proc' = [proc EXCEPT ![p].put = "free"]
     /\ Panics(lock[i] # NoProc)
     /\ UNCHANGED <<disk, committed, mem, tables, kept>>

\* Then free it on disk, without itable.lock; bfree() panics if a block is free.
PutFree(p) ==
  LET i == Head(proc[p].puts)
      t == itrunc(disk, i, mem[i].din)
  IN /\ proc[p].put = "free"
     /\ disk' = iupdate(t.d, i, [t.ip EXCEPT !.type = "FREE"])
     /\ mem' = [mem EXCEPT ![i].din = FreeInode, ![i].valid = FALSE]
     /\ lock' = [lock EXCEPT ![i] = NoProc]
     /\ proc' = [proc EXCEPT ![p].put = "drop"]
     /\ Panics(~(Direct(mem[i].din) \cup Indirect(disk, mem[i].din) \subseteq disk.used))
     /\ UNCHANGED <<committed, tables, kept>>

\* And drop the reference, under itable.lock again.  In between another process
\* may have allocated the inode anew, linked and unlinked it and put it, which
\* was not the last reference; now nobody frees it.
PutDrop(p) ==
  LET i == Head(proc[p].puts)
  IN /\ proc[p].put = "drop"
     /\ mem' = DropRef(mem, i)
     /\ leaked' = IF mem[i].ref = 1 /\ Orphan(disk, i) THEN leaked \cup {i} ELSE leaked
     /\ proc' = [proc EXCEPT ![p].puts = Tail(@), ![p].put = ""]
     /\ UNCHANGED <<disk, committed, lock, tables, panicked, left, crashes>>

iput(p) == PutRef(p) \/ PutLast(p) \/ PutFree(p) \/ PutDrop(p)
-----------------------------------------------------------------------------
(* Entering and leaving a call *)

PathCalls == {"open", "link", "unlink", "mkdir", "mknod", "chdir"}

\* Start a call that takes a path: begin_op() comes first.
SysPath(p, c) ==
  /\ At(p, "user") /\ left > 0 /\ c.op \in PathCalls
  /\ proc' = [proc EXCEPT ![p].pc = "begin", ![p].c = c, ![p].path = c.path,
                          ![p].parent = c.op \in {"unlink", "mkdir", "mknod"}
                                        \/ (c.op = "open" /\ c.create)]
  /\ left' = left - 1
  /\ UNCHANGED <<disk, committed, mem, lock, tables, crashes, leaked, panicked>>

\* Where a call goes on once its path is walked.
After(c) == CASE c.op \in {"mkdir", "mknod"} -> "create"
              [] c.op = "open" -> IF c.create THEN "create" ELSE "open"
              [] OTHER -> c.op

begin_op(p) ==
  /\ At(p, "begin")
  /\ proc' = [proc EXCEPT ![p].inop = TRUE,
                          ![p].pc = IF @ = "begin" /\ proc[p].c.op \in PathCalls THEN "namex"
                                    ELSE proc[p].c.op,
                          ![p].after = IF proc[p].c.op \in PathCalls THEN After(proc[p].c) ELSE ""]
  /\ UNCHANGED <<disk, committed, mem, lock, tables, panicked, kept>>

\* The last of the overlapping calls commits them all.  chdir() sets p->cwd
\* only now; a write() that is not finished begins its next transaction.
Commit(p) == committed' = IF \E q \in Proc \ {p} : proc[q].inop THEN committed ELSE disk
end_op(p) ==
  /\ At(p, "end")
  /\ Commit(p)
  /\ cwd' = IF proc[p].c.op = "chdir" /\ proc[p].ip # 0
            THEN [cwd EXCEPT ![p] = proc[p].ip] ELSE cwd
  /\ proc' = [proc EXCEPT ![p] = IF @.n > 0 THEN [@ EXCEPT !.pc = "begin", !.inop = FALSE]
                                 ELSE Idle]
  /\ UNCHANGED <<disk, mem, lock, file, ofile, panicked, kept>>
-----------------------------------------------------------------------------
(* namex() *)

\* From the root or the current directory.  An empty path names that directory,
\* and has no parent.
namex(p) ==
  LET q == proc[p]
      i == IF q.c.abs THEN ROOTINO ELSE cwd[p]
  IN /\ At(p, "namex")
     /\ mem' = iget(mem, i) /\ Panics(~HasSlot(i))
     /\ proc' = [proc EXCEPT ![p] =
                   IF q.path # <<>> THEN [@ EXCEPT !.pc = "walk", !.w = i]
                   ELSE IF q.parent THEN [@ EXCEPT !.pc = q.after, !.puts = <<i>>]
                   ELSE [@ EXCEPT !.pc = q.after, !.w = i]]
     /\ UNCHANGED <<disk, committed, lock, tables, kept>>

\* Mutant: a name that is not found leaves the directory referenced.
walk_leak(p) ==
  LET q == proc[p]
      din == ilocked(disk, q.w)
      next == dirlookup(disk, din, Head(q.path)).inum
      stop == q.parent /\ Len(q.path) = 1
      fail == din.type # "DIR" \/ (~stop /\ next = 0)
      m == Loaded(mem, q.w, din)
  IN /\ At(p, "walk") /\ lock[q.w] = NoProc
     /\ mem' = IF fail \/ stop THEN m ELSE iget(m, next)
     /\ proc' = [proc EXCEPT ![p] =
                   IF fail THEN [@ EXCEPT !.pc = q.after, !.w = 0]
                   ELSE IF stop THEN [@ EXCEPT !.pc = q.after]
                   ELSE [@ EXCEPT !.w = next, !.puts = <<q.w>>, !.path = Tail(@),
                                  !.pc = IF Len(q.path) = 1 THEN q.after ELSE "walk"]]
     /\ Panics(NoType(q.w))
     /\ UNCHANGED <<disk, committed, lock, tables, kept>>

\* One element: lock the directory, stop there if the parent is wanted, else
\* look the name up and take a reference before the directory is unlocked and
\* put.  The walk fails with w = 0.
walk(p) ==
  LET q == proc[p]
      din == ilocked(disk, q.w)
      next == dirlookup(disk, din, Head(q.path)).inum
      stop == q.parent /\ Len(q.path) = 1
      fail == din.type # "DIR" \/ (~stop /\ next = 0)
      m == Loaded(mem, q.w, din)
  IN /\ At(p, "walk") /\ lock[q.w] = NoProc
     /\ mem' = IF fail \/ stop THEN m ELSE iget(m, next)
     /\ proc' = [proc EXCEPT ![p] =
                   IF fail THEN [@ EXCEPT !.pc = q.after, !.w = 0, !.puts = <<q.w>>]
                   ELSE IF stop THEN [@ EXCEPT !.pc = q.after]
                   ELSE [@ EXCEPT !.w = next, !.puts = <<q.w>>, !.path = Tail(@),
                                  !.pc = IF Len(q.path) = 1 THEN q.after ELSE "walk"]]
     /\ Panics(NoType(q.w) \/ (~fail /\ ~stop /\ ~HasSlot(next)))
     /\ UNCHANGED <<disk, committed, lock, tables, kept>>

\* The walk has failed: the call returns -1.
notfound(p) ==
  /\ proc[p].w = 0
  /\ At(p, "open") \/ At(p, "create") \/ At(p, "link") \/ At(p, "unlink")
     \/ At(p, "chdir")
  /\ Go(p, "end", <<>>)
  /\ UNCHANGED <<disk, committed, mem, lock, tables, panicked, kept>>
-----------------------------------------------------------------------------
(* open() and create() *)

FreeFile == {f \in File : file[f].ref = 0}
FreeFd(p) == {fd \in Fd : ofile[p][fd] = 0}

\* The end of open(), with i locked and its copy din: a file table entry and a
\* descriptor take over the reference; without them the inode is put again.
opened(p, m, i, din) ==
  LET c == proc[p].c
      t == itrunc(disk, i, din)
      trunc == c.trunc /\ din.type = "FILE"
  IN IF FreeFile = {} \/ FreeFd(p) = {}
     THEN /\ mem' = m /\ Go(p, "end", <<i>>)
          /\ UNCHANGED <<disk, file, ofile>>
     ELSE /\ file' = [file EXCEPT ![Min(FreeFile)] =
                        [ref |-> 1, type |-> IF din.type = "DEV" THEN "DEVICE" ELSE "INODE",
                         ip |-> i, off |-> 0, r |-> c.r, w |-> c.w]]
          /\ ofile' = [ofile EXCEPT ![p][Min(FreeFd(p))] = Min(FreeFile)]
          /\ disk' = IF trunc THEN t.d ELSE disk
          /\ mem' = IF trunc THEN Loaded(m, i, t.ip) ELSE m
          /\ Go(p, "end", <<>>)

\* open() of what the path names; a directory only for reading.  The device
\* numbers mknod() was given are valid ones.
open(p) ==
  LET i == proc[p].w
      din == ilocked(disk, i)
      m == Loaded(mem, i, din)
  IN /\ At(p, "open") /\ i # 0 /\ lock[i] = NoProc
     /\ IF din.type = "DIR" /\ (proc[p].c.w \/ proc[p].c.trunc)
        THEN /\ mem' = m /\ Go(p, "end", <<i>>)
             /\ UNCHANGED <<disk, file, ofile>>
        ELSE opened(p, m, i, din)
     /\ Panics(NoType(i))
     /\ UNCHANGED <<committed, lock, cwd, kept>>

NewType(c) == CASE c.op = "mkdir" -> "DIR" [] c.op = "mknod" -> "DEV" [] OTHER -> "FILE"

\* create() with the parent locked: the name exists, or an inode is allocated
\* and referenced, or there is none.
create(p) ==
  LET q == proc[p]
      din == ilocked(disk, q.w)
      m == Loaded(mem, q.w, din)
      old == dirlookup(disk, din, q.path[1]).inum
      new == ialloc(disk, NewType(q.c))
  IN /\ At(p, "create") /\ q.w # 0 /\ lock[q.w] = NoProc
     /\ \/ /\ old # 0
           /\ mem' = iget(m, old) /\ Panics(NoType(q.w) \/ ~HasSlot(old))
           /\ proc' = [proc EXCEPT ![p].pc = "exists", ![p].w = 0, ![p].ip = old,
                                   ![p].puts = <<q.w>>]
           /\ UNCHANGED <<disk, lock>>
        \/ /\ old = 0 /\ new.inum = 0
           /\ mem' = m /\ Panics(NoType(q.w)) /\ Go(p, "end", <<q.w>>)
           /\ UNCHANGED <<disk, lock>>
        \/ /\ old = 0 /\ new.inum # 0
           /\ disk' = new.d /\ mem' = iget(m, new.inum)
           /\ Panics(NoType(q.w) \/ ~HasSlot(new.inum))
           /\ lock' = [lock EXCEPT ![q.w] = p]
           /\ proc' = [proc EXCEPT ![p].pc = "created", ![p].w = 0, ![p].dp = q.w,
                                   ![p].ip = new.inum]
     /\ UNCHANGED <<committed, tables, kept>>

\* The name exists: open() of a file or device goes on with it.
exists(p) ==
  LET q == proc[p]
      din == ilocked(disk, q.ip)
      m == Loaded(mem, q.ip, din)
  IN /\ At(p, "exists") /\ lock[q.ip] = NoProc
     /\ IF q.c.op = "open" /\ din.type \in {"FILE", "DEV"} THEN opened(p, m, q.ip, din)
        ELSE /\ mem' = m /\ Go(p, "end", <<q.ip>>)
             /\ UNCHANGED <<disk, file, ofile>>
     /\ Panics(NoType(q.ip))
     /\ UNCHANGED <<committed, lock, cwd, kept>>

\* The new inode, locked as well as its parent: one link, "." and ".." for a
\* directory, the entry in the parent, the parent's link for "..".  Any of the
\* three entries may find the disk full; then the new inode loses its link and
\* is put, which frees it, before the parent is unlocked.
DotDot(s, i, j) == IF s.tot = 1 THEN dirlink(s.d, i, s.ip, "..", j) ELSE s
Dots(s, i, j) == DotDot(dirlink(s.d, i, s.ip, ".", i), i, j)
Link1(d, ip, dp, i, j, c) ==
  LET ip1 == [ip EXCEPT !.nlink = 1]
      s0 == [d |-> iupdate(d, i, ip1), ip |-> ip1, tot |-> 1]
  IN IF NewType(c) = "DIR" THEN Dots(s0, i, j) ELSE s0

\* create() after its first writes s and dirlink(dp, name) e.
CreateEnd(p, q, s, e) ==
  LET up == IF NewType(q.c) = "DIR" THEN [e.ip EXCEPT !.nlink = @ + 1] ELSE e.ip
      undone(x) == [x EXCEPT !.nlink = 0]
  IN \/ /\ s.tot = 1 /\ e.tot = 1
        /\ disk' = iupdate(e.d, q.dp, up)
        /\ mem' = Loaded(Loaded(mem, q.dp, up), q.ip, s.ip)
        /\ lock' = [lock EXCEPT ![q.dp] = NoProc, ![q.ip] = p]
        /\ proc' = [proc EXCEPT ![p].pc = "done", ![p].dp = 0, ![p].puts = <<q.dp>>]
     \/ /\ s.tot = 1 /\ e.tot # 1
        /\ disk' = iupdate(e.d, q.ip, undone(s.ip))
        /\ mem' = Loaded(Loaded(mem, q.dp, e.ip), q.ip, undone(s.ip))
        /\ proc' = [proc EXCEPT ![p].pc = "bad", ![p].ip = 0, ![p].puts = <<q.ip>>]
        /\ UNCHANGED lock
     \/ /\ s.tot # 1
        /\ disk' = iupdate(s.d, q.ip, undone(s.ip))
        /\ mem' = Loaded(mem, q.ip, undone(s.ip))
        /\ proc' = [proc EXCEPT ![p].pc = "bad", ![p].ip = 0, ![p].puts = <<q.ip>>]
        /\ UNCHANGED lock
CreateLink(p, q, s) ==
  CreateEnd(p, q, s, dirlink(s.d, q.dp, mem[q.dp].din, q.path[1], q.ip))

created(p) ==
  LET q == proc[p]
  IN /\ At(p, "created") /\ lock[q.ip] = NoProc
     /\ Panics(NoType(q.ip))
     /\ CreateLink(p, q, Link1(disk, ilocked(disk, q.ip), mem[q.dp].din, q.ip, q.dp, q.c))
     /\ UNCHANGED <<committed, tables, kept>>

\* create() returned the locked inode: open() makes a file of it, mkdir() and
\* mknod() unlock and put it.
done(p) ==
  LET i == proc[p].ip
  IN /\ At(p, "done")
     /\ IF proc[p].c.op = "open" THEN opened(p, mem, i, mem[i].din)
        ELSE Go(p, "end", <<i>>) /\ UNCHANGED <<disk, mem, file, ofile>>
     /\ lock' = [lock EXCEPT ![i] = NoProc]
     /\ UNCHANGED <<committed, cwd, kept, panicked>>

\* The common end of failed calls that still hold the parent: iunlockput(dp).
\* A link() that failed also has its new link to take back.
bad(p) ==
  LET q == proc[p]
  IN /\ At(p, "bad")
     /\ lock' = [lock EXCEPT ![q.dp] = NoProc]
     /\ proc' = [proc EXCEPT ![p].pc = IF q.c.op = "link" THEN "unlinkold" ELSE "end",
                             ![p].dp = 0, ![p].puts = <<q.dp>>]
     /\ UNCHANGED <<disk, committed, mem, tables, kept, panicked>>
-----------------------------------------------------------------------------
(* unlink() *)

\* Mutant: "." may be removed.
unlink_dot(p) ==
  LET q == proc[p]
      din == ilocked(disk, q.w)
      m == Loaded(mem, q.w, din)
      e == dirlookup(disk, din, q.path[1])
  IN /\ At(p, "unlink") /\ q.w # 0 /\ lock[q.w] = NoProc
     /\ IF q.path[1] = ".." \/ e.inum = 0
        THEN mem' = m /\ Go(p, "end", <<q.w>>) /\ Panics(NoType(q.w)) /\ UNCHANGED lock
        ELSE /\ mem' = iget(m, e.inum) /\ Panics(NoType(q.w) \/ ~HasSlot(e.inum))
             /\ lock' = [lock EXCEPT ![q.w] = p]
             /\ proc' = [proc EXCEPT ![p].pc = "victim", ![p].w = 0, ![p].dp = q.w,
                                     ![p].ip = e.inum, ![p].off = e.off]
     /\ UNCHANGED <<disk, committed, tables, kept>>

\* With the parent locked: "." and ".." stay, another name that exists is looked
\* at next, with the parent still locked.
unlink(p) ==
  LET q == proc[p]
      din == ilocked(disk, q.w)
      m == Loaded(mem, q.w, din)
      e == dirlookup(disk, din, q.path[1])
  IN /\ At(p, "unlink") /\ q.w # 0 /\ lock[q.w] = NoProc
     /\ IF q.path[1] \in {".", ".."} \/ e.inum = 0
        THEN mem' = m /\ Go(p, "end", <<q.w>>) /\ Panics(NoType(q.w)) /\ UNCHANGED lock
        ELSE /\ mem' = iget(m, e.inum) /\ Panics(NoType(q.w) \/ ~HasSlot(e.inum))
             /\ lock' = [lock EXCEPT ![q.w] = p]
             /\ proc' = [proc EXCEPT ![p].pc = "victim", ![p].w = 0, ![p].dp = q.w,
                                     ![p].ip = e.inum, ![p].off = e.off]
     /\ UNCHANGED <<disk, committed, tables, kept>>

\* With both locked: not a directory with entries; clear the entry, take the
\* link of ".." back.  The parent is put while the victim is still locked.
victim(p) ==
  LET q == proc[p]
      din == ilocked(disk, q.ip)
      m == Loaded(mem, q.ip, din)
      e == writei(disk, q.dp, mem[q.dp].din, q.off, <<Zero>>)
      up == IF din.type = "DIR" THEN [e.ip EXCEPT !.nlink = @ - 1] ELSE e.ip
  IN /\ At(p, "victim") /\ lock[q.ip] = NoProc
     /\ IF din.type = "DIR" /\ ~isdirempty(disk, din)
        THEN /\ mem' = m /\ Panics(din.nlink < 1)
             /\ proc' = [proc EXCEPT ![p].pc = "bad", ![p].ip = 0, ![p].puts = <<q.ip>>]
             /\ UNCHANGED <<disk, lock>>
        ELSE /\ disk' = iupdate(e.d, q.dp, up)
             /\ mem' = Loaded(m, q.dp, up)
             /\ Panics(NoType(q.ip) \/ din.nlink < 1 \/ e.tot # 1)
             /\ lock' = [lock EXCEPT ![q.dp] = NoProc, ![q.ip] = p]
             /\ proc' = [proc EXCEPT ![p].pc = "unlinked", ![p].dp = 0, ![p].puts = <<q.dp>>]
     /\ UNCHANGED <<committed, tables, kept>>

\* ip->nlink--, iupdate(): shared with the end of a failed link().
Unlinked(i) ==
  LET din == [mem[i].din EXCEPT !.nlink = @ - 1]
  IN disk' = iupdate(disk, i, din) /\ mem' = Loaded(mem, i, din)

unlinked(p) ==
  /\ At(p, "unlinked")
  /\ Unlinked(proc[p].ip)
  /\ lock' = [lock EXCEPT ![proc[p].ip] = NoProc]
  /\ Go(p, "end", <<proc[p].ip>>)
  /\ UNCHANGED <<committed, tables, kept, panicked>>
-----------------------------------------------------------------------------
(* link() *)

\* Mutant: the new link is not counted.
link_uncounted(p) ==
  LET q == proc[p]
      din == ilocked(disk, q.w)
  IN /\ At(p, "link") /\ q.w # 0 /\ lock[q.w] = NoProc
     /\ mem' = Loaded(mem, q.w, din)
     /\ IF din.type = "DIR" THEN Go(p, "end", <<q.w>>)
        ELSE proc' = [proc EXCEPT ![p].pc = "namex", ![p].after = "newlink", ![p].w = 0,
                                  ![p].ip = q.w, ![p].path = q.c.new, ![p].parent = TRUE]
     /\ Panics(NoType(q.w))
     /\ UNCHANGED <<disk, committed, lock, tables, kept>>

\* The old name: one more link, before the new name is looked for.
link(p) ==
  LET q == proc[p]
      din == ilocked(disk, q.w)
      more == [din EXCEPT !.nlink = @ + 1]
  IN /\ At(p, "link") /\ q.w # 0 /\ lock[q.w] = NoProc
     /\ IF din.type = "DIR"
        THEN mem' = Loaded(mem, q.w, din) /\ Go(p, "end", <<q.w>>) /\ UNCHANGED disk
        ELSE /\ disk' = iupdate(disk, q.w, more) /\ mem' = Loaded(mem, q.w, more)
             /\ proc' = [proc EXCEPT ![p].pc = "namex", ![p].after = "newlink", ![p].w = 0,
                                     ![p].ip = q.w, ![p].path = q.c.new, ![p].parent = TRUE]
     /\ Panics(NoType(q.w))
     /\ UNCHANGED <<committed, lock, tables, kept>>

\* The new name's parent, locked: enter the name unless it exists (dirlink()
\* takes and puts a reference then) or the disk is full.
newlink(p) ==
  LET q == proc[p]
      din == ilocked(disk, q.w)
      m == Loaded(mem, q.w, din)
      old == dirlookup(disk, din, q.path[1]).inum
      e == dirlink(disk, q.w, din, q.path[1], q.ip)
  IN /\ At(p, "newlink") /\ q.w # 0 /\ lock[q.w] = NoProc
     /\ IF old # 0
        THEN /\ mem' = iget(m, old) /\ Panics(NoType(q.w) \/ ~HasSlot(old))
             /\ lock' = [lock EXCEPT ![q.w] = p]
             /\ proc' = [proc EXCEPT ![p].pc = "bad", ![p].w = 0, ![p].dp = q.w, ![p].puts = <<old>>]
             /\ UNCHANGED disk
        ELSE /\ disk' = e.d /\ mem' = Loaded(m, q.w, e.ip) /\ Panics(NoType(q.w))
             /\ IF e.tot = 1 THEN Go(p, "end", <<q.w, q.ip>>)
                ELSE proc' = [proc EXCEPT ![p].pc = "unlinkold", ![p].w = 0, ![p].puts = <<q.w>>]
             /\ UNCHANGED lock
     /\ UNCHANGED <<committed, tables, kept>>

nonewlink(p) ==
  /\ At(p, "newlink") /\ proc[p].w = 0
  /\ proc' = [proc EXCEPT ![p].pc = "unlinkold"]
  /\ UNCHANGED <<disk, committed, mem, lock, tables, kept, panicked>>

\* bad: take the link back.
unlinkold(p) ==
  /\ At(p, "unlinkold") /\ lock[proc[p].ip] = NoProc
  /\ Unlinked(proc[p].ip)
  /\ Go(p, "end", <<proc[p].ip>>)
  /\ UNCHANGED <<committed, lock, tables, kept, panicked>>
-----------------------------------------------------------------------------
(* chdir(), and the calls on descriptors *)

\* The new directory's reference is kept; the old one's is put, and p->cwd is
\* set after end_op() (nobody else looks at it in between).
chdir(p) ==
  LET q == proc[p]
      din == ilocked(disk, q.w)
  IN /\ At(p, "chdir") /\ q.w # 0 /\ lock[q.w] = NoProc
     /\ mem' = Loaded(mem, q.w, din) /\ Panics(NoType(q.w))
     /\ IF din.type # "DIR" THEN Go(p, "end", <<q.w>>) /\ UNCHANGED cwd
        ELSE /\ cwd' = [cwd EXCEPT ![p] = 0]
             /\ proc' = [proc EXCEPT ![p].pc = "end", ![p].w = 0, ![p].ip = q.w,
                                     ![p].puts = <<cwd[p]>>]
     /\ UNCHANGED <<disk, committed, lock, file, ofile, kept>>

\* argfd() finds an open file.
OpenFd(p, c) == At(p, "user") /\ left > 0 /\ ofile[p][c.fd] # 0
TheFile(p, c) == ofile[p][c.fd]

sys_dup(p, c) ==
  /\ c.op = "dup" /\ OpenFd(p, c) /\ FreeFd(p) # {}
  /\ ofile' = [ofile EXCEPT ![p][Min(FreeFd(p))] = TheFile(p, c)]
  /\ file' = [file EXCEPT ![TheFile(p, c)].ref = @ + 1]
  /\ left' = left - 1
  /\ UNCHANGED <<disk, committed, mem, lock, proc, cwd, crashes, leaked, panicked>>

\* The last close of a file puts its inode, in a transaction.
sys_close(p, c) ==
  LET f == TheFile(p, c)
  IN /\ c.op = "close" /\ OpenFd(p, c)
     /\ ofile' = [ofile EXCEPT ![p][c.fd] = 0]
     /\ IF file[f].ref > 1
        THEN file' = [file EXCEPT ![f].ref = @ - 1] /\ UNCHANGED proc
        ELSE /\ file' = [file EXCEPT ![f] = NoFile]
             /\ proc' = [proc EXCEPT ![p].pc = "begin", ![p].c = c, ![p].ip = file[f].ip]
     /\ left' = left - 1
     /\ UNCHANGED <<disk, committed, mem, lock, cwd, crashes, leaked, panicked>>

close(p) ==
  /\ At(p, "close") /\ Go(p, "end", <<proc[p].ip>>)
  /\ UNCHANGED <<disk, committed, mem, lock, tables, kept, panicked>>

\* fileread() of an inode: the offset moves by what readi() returned.
sys_read(p, c) ==
  LET f == file[TheFile(p, c)]
  IN /\ c.op = "read" /\ OpenFd(p, c) /\ f.r /\ f.type = "INODE" /\ lock[f.ip] = NoProc
     /\ mem' = Loaded(mem, f.ip, ilocked(disk, f.ip)) /\ Panics(NoType(f.ip))
     /\ file' = [file EXCEPT ![TheFile(p, c)].off =
                   @ + Len(readi(disk, ilocked(disk, f.ip), @, c.n))]
     /\ left' = left - 1
     /\ UNCHANGED <<disk, committed, lock, proc, cwd, ofile, crashes, leaked>>

\* filestat(): the inode is locked and read; nothing moves.
sys_fstat(p, c) ==
  LET f == file[TheFile(p, c)]
  IN /\ c.op = "fstat" /\ OpenFd(p, c) /\ lock[f.ip] = NoProc
     /\ mem' = Loaded(mem, f.ip, ilocked(disk, f.ip)) /\ Panics(NoType(f.ip))
     /\ left' = left - 1
     /\ UNCHANGED <<disk, committed, lock, proc, tables, crashes, leaked>>

\* filewrite() of an inode: a transaction for every WriteMax units.
sys_write(p, c) ==
  /\ c.op = "write" /\ OpenFd(p, c)
  /\ file[TheFile(p, c)].w /\ file[TheFile(p, c)].type = "INODE"
  /\ proc' = [proc EXCEPT ![p].pc = "begin", ![p].c = c, ![p].n = c.n]
  /\ left' = left - 1
  /\ UNCHANGED <<disk, committed, mem, lock, tables, crashes, leaked, panicked>>

write(p) ==
  LET q == proc[p]
      f == file[TheFile(p, q.c)]
      n1 == Min({q.n, WriteMax})
      s == writei(disk, f.ip, ilocked(disk, f.ip), f.off, [k \in 1 .. n1 |-> <<"", 1>>])
  IN /\ At(p, "write") /\ lock[f.ip] = NoProc
     /\ disk' = s.d /\ mem' = Loaded(mem, f.ip, s.ip) /\ Panics(NoType(f.ip))
     /\ file' = [file EXCEPT ![TheFile(p, q.c)].off = @ + s.tot]
     /\ proc' = [proc EXCEPT ![p].pc = "end", ![p].n = IF s.tot = n1 THEN @ - n1 ELSE 0]
     /\ UNCHANGED <<committed, lock, cwd, ofile, kept>>
-----------------------------------------------------------------------------
(* Crash, and ireclaim() at the next boot *)

\* Only the committed disk is left.  userinit() takes the root as the first
\* process's directory; that process runs fsinit() before any other exists.
Crash(p) ==
  /\ crashes < MaxCrashes
  /\ crashes' = crashes + 1 /\ leaked' = {}
  /\ disk' = committed /\ UNCHANGED <<committed, left, panicked>>
  /\ mem' = [i \in Inum |-> IF i = ROOTINO THEN [NoEntry EXCEPT !.ref = Cardinality(Proc)]
                            ELSE NoEntry]
  /\ lock' = [i \in Inum |-> NoProc]
  /\ file' = [f \in File |-> NoFile]
  /\ cwd' = [q \in Proc |-> ROOTINO]
  /\ ofile' = [q \in Proc |-> [fd \in Fd |-> 0]]
  /\ proc' = [q \in Proc |-> [Idle EXCEPT !.pc = IF q = p THEN "reclaim" ELSE "off"]]

\* The next inode without links: read it in, for iput() to see that and free it.
\* n counts the inodes looked at.
Orphans(p) == {i \in Inum : i > proc[p].n /\ Orphan(disk, i)}

\* Mutant: the inode is not read in, so that iput() does not see it has no links.
ireclaim_unread(p) ==
  /\ At(p, "reclaim") /\ Orphans(p) # {}
  /\ LET i == Min(Orphans(p))
     IN /\ mem' = iget(mem, i) /\ Panics(~HasSlot(i))
        /\ proc' = [proc EXCEPT ![p].pc = "reclaimed", ![p].inop = TRUE, ![p].n = i,
                                ![p].puts = <<i>>]
  /\ UNCHANGED <<disk, committed, lock, tables, kept>>
ireclaim(p) ==
  /\ At(p, "reclaim") /\ Orphans(p) # {}
  /\ LET i == Min(Orphans(p))
     IN /\ mem' = Loaded(iget(mem, i), i, disk.ino[i]) /\ Panics(~HasSlot(i))
        /\ proc' = [proc EXCEPT ![p].pc = "reclaimed", ![p].inop = TRUE, ![p].n = i,
                                ![p].puts = <<i>>]
  /\ UNCHANGED <<disk, committed, lock, tables, kept>>

reclaimed(p) ==
  /\ At(p, "reclaimed") /\ Commit(p)
  /\ proc' = [proc EXCEPT ![p].pc = "reclaim", ![p].inop = FALSE]
  /\ UNCHANGED <<disk, mem, lock, tables, kept, panicked>>

\* All inodes looked at: the system is up.
booted(p) ==
  /\ At(p, "reclaim") /\ Orphans(p) = {}
  /\ proc' = [q \in Proc |-> Idle]
  /\ UNCHANGED <<disk, committed, mem, lock, tables, kept, panicked>>
-----------------------------------------------------------------------------
\* The code of a call goes on.
Step(p) ==
  \/ iput(p) \/ begin_op(p) \/ end_op(p) \/ namex(p) \/ walk(p) \/ notfound(p)
  \/ open(p) \/ create(p) \/ exists(p) \/ created(p) \/ done(p) \/ bad(p)
  \/ unlink(p) \/ victim(p) \/ unlinked(p)
  \/ link(p) \/ newlink(p) \/ nonewlink(p) \/ unlinkold(p)
  \/ chdir(p) \/ close(p) \/ write(p)
  \/ ireclaim(p) \/ reclaimed(p) \/ booted(p)

Enter(p, c) ==
  \/ SysPath(p, c) \/ sys_dup(p, c) \/ sys_close(p, c) \/ sys_fstat(p, c)
  \/ sys_read(p, c) \/ sys_write(p, c)

\* Nobody is in a call, or the kernel has panicked.
Rest == (panicked \/ \A p \in Proc : At(p, "user")) /\ UNCHANGED vars

Next ==
  \/ ~panicked /\ \E p \in Proc : Step(p) \/ Crash(p) \/ \E c \in Call : Enter(p, c)
  \/ Rest

Spec == Init /\ [][Next]_vars
-----------------------------------------------------------------------------
\* The types of the tables.
TypeOK ==
  /\ mem \in [Inum -> [ref : Nat, valid : BOOLEAN,
                       din : [type : {"FREE", "DIR", "FILE", "DEV"}, nlink : Nat, size : Nat,
                              addrs : [0 .. NDIRECT -> 0 .. NBLOCK]]]]
  /\ lock \in [Inum -> Proc \cup {NoProc}]
  /\ \A p \in Proc : cwd[p] \in 0 .. NINODES /\ ofile[p] \in [Fd -> 0 .. NFILE]

\* No panic() of the file-system code is reached.
NoPanic == ~panicked

Count(S) == Cardinality(S)
Times(s, x) == Cardinality({k \in DOMAIN s : s[k] = x})
One(b) == IF b THEN 1 ELSE 0

\* ref counts what it should, whatever path a call left by: the current
\* directories, the entries of the file table and the pointers of calls in
\* progress; and a file's ref the descriptors that name it.
RefsExact ==
  /\ \A i \in Inum : mem[i].ref =
       Count({p \in Proc : cwd[p] = i}) + Count({f \in File : file[f].ip = i})
       + MapThenSumSet(LAMBDA p : One(proc[p].w = i) + One(proc[p].ip = i)
                                  + One(proc[p].dp = i) + Times(proc[p].puts, i), Proc)
  /\ \A f \in File : file[f].ref = Count({x \in Proc \X Fd : ofile[x[1]][x[2]] = f})

\* An inode without links that is still allocated is one somebody holds and will
\* free with the last iput(); or, after a crash, one that ireclaim() has yet to
\* come to.  Nothing else that is unlinked stays on the disk, except what iput()
\* leaks when the inode is allocated anew before it has dropped its reference.
OrphansHeld ==
  \A i \in Inum : Orphan(disk, i) =>
    \/ mem[i].ref > 0 \/ i \in leaked
    \/ \E p \in Proc : proc[p].pc \in {"reclaim", "reclaimed"} /\ i > proc[p].n

\* The inode whose lock the next step of p takes; 0 if none.
Needs(p) ==
  LET q == proc[p]
  IN CASE q.puts # <<>> -> 0
       [] q.pc \in {"walk", "open", "create", "unlink", "link", "newlink", "chdir"} -> q.w
       [] q.pc \in {"exists", "created", "victim", "unlinkold"} -> q.ip
       [] q.pc = "write" -> file[TheFile(p, q.c)].ip
       [] OTHER -> 0
Waits(p) == Needs(p) # 0 /\ lock[Needs(p)] # NoProc

\* Inode locks are taken from a directory to what it names and never in a circle:
\* no calls wait for one another, and none for itself.
NoLockCycle ==
  \A S \in SUBSET Proc \ {{}} : \E p \in S : ~(Waits(p) /\ lock[Needs(p)] \in S)

\* The bitmap and the inodes agree: every block in use belongs to one place in
\* one inode, every block an inode names is in use, and nothing below a size is
\* missing.
BlocksOf(d, i) == Direct(d.ino[i]) \cup Indirect(d, d.ino[i])
BlockNames(d, i) ==
  Count({k \in 0 .. NDIRECT : d.ino[i].addrs[k] # 0})
  + (IF d.ino[i].addrs[NDIRECT] = 0 THEN 0
     ELSE Count({k \in 0 .. NINDIRECT - 1 : d.blk[d.ino[i].addrs[NDIRECT]][k][2] # 0}))
BlocksExact ==
  /\ \A i \in Inum : BlockNames(disk, i) = Count(BlocksOf(disk, i))
  /\ \A i, j \in Inum : i # j => BlocksOf(disk, i) \cap BlocksOf(disk, j) = {}
  /\ UNION {BlocksOf(disk, i) : i \in Inum} = disk.used
  /\ \A i \in Inum : \A off \in {o \in 0 .. disk.ino[i].size - 1 : o % BSIZE = 0} :
       bmap(disk, disk.ino[i], off \div BSIZE).d = disk

\* The entries in use of inode i on disk d, with their places, and the inodes a
\* path from the root can reach.
EntriesOf(d, i) ==
  IF d.ino[i].type # "DIR" THEN {}
  ELSE LET es == Entries(d, d.ino[i])
       IN {[dir |-> i, k |-> k, name |-> es[k][1], inum |-> es[k][2]] :
             k \in {k \in DOMAIN es : es[k][2] # 0}}
Named(d, S) == S \cup {e.inum : e \in UNION {EntriesOf(d, i) : i \in S}}
RECURSIVE Closure(_, _)
Closure(d, S) == LET T == Named(d, S) IN IF T = S THEN S ELSE Closure(d, T)

\* After a crash, whenever it comes: every name a path can reach leads to an
\* allocated inode whose link count covers all its names ("." and the root's ".."
\* are not counted), so that removing some of them never frees it under the others.
NamesSafe ==
  LET reached == Closure(committed, {ROOTINO})
      names == {e \in UNION {EntriesOf(committed, i) : i \in reached} :
                  e.name # "." /\ ~(e.name = ".." /\ e.dir = ROOTINO)}
  IN \A i \in reached :
       /\ committed.ino[i].type # "FREE"
       /\ Count({e \in names : e.inum = i}) <= committed.ino[i].nlink
=============================================================================
