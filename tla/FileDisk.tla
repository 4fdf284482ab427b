------------------------------ MODULE FileDisk ------------------------------
(***************************************************************************)
(* What kernel/fs.c keeps on disk, as operators on a disk value: the       *)
(* bitmap, the inodes and the blocks with file content, directory entries  *)
(* or block numbers.  A disk is a record [used, blk, ino]; the operators   *)
(* that change it return the new one.  A block holds BSIZE units: a unit   *)
(* is a directory entry, a piece of file content or a block number, always *)
(* a pair <<name, number>>.  The last inode argument of an operator is the *)
(* in-memory copy its caller holds locked.                                 *)
(***************************************************************************)
EXTENDS Naturals, Sequences, FiniteSets, FiniteSetsExt

CONSTANTS
  NBLOCK,     \* data blocks on the disk
  NINODES,    \* inodes on the disk
  BSIZE,      \* units in a block
  NDIRECT,    \* blocks an inode names itself
  NINDIRECT   \* blocks its indirect block names

ASSUME FileDiskAssumption ==
  /\ {NBLOCK, NINODES, BSIZE, NDIRECT, NINDIRECT} \subseteq Nat \ {0}
  /\ NINDIRECT <= BSIZE

Blk == 1 .. NBLOCK
Inum == 1 .. NINODES
ROOTINO == 1
MAXFILE == NDIRECT + NINDIRECT

Zero == <<"", 0>>
ZeroBlock == [k \in 0 .. BSIZE - 1 |-> Zero]
NoAddrs == [k \in 0 .. NDIRECT |-> 0]
Dinode(type, nlink) == [type |-> type, nlink |-> nlink, size |-> 0, addrs |-> NoAddrs]
FreeInode == Dinode("FREE", 0)
-----------------------------------------------------------------------------
(* Blocks *)

\* The first free block, zeroed and marked in use; b = 0 if there is none.
balloc(d) ==
  IF d.used = Blk THEN [d |-> d, b |-> 0]
  ELSE LET b == Min(Blk \ d.used)
       IN [d |-> [d EXCEPT !.used = @ \cup {b}, !.blk[b] = ZeroBlock], b |-> b]

\* The blocks marked free again.
bfree(d, bs) == [d EXCEPT !.used = @ \ bs]

\* The block an address names, or a new one where it names none.
OrAlloc(d, addr) == IF addr # 0 THEN [d |-> d, b |-> addr] ELSE balloc(d)

\* Block bn of ip through the indirect block i, or straight from ip: a is what
\* became of its address.
BmapDirect(ip, bn, a) == [d |-> a.d, ip |-> [ip EXCEPT !.addrs[bn] = a.b], addr |-> a.b]
BmapEntry(ip, k, b, a) ==
  [d |-> [a.d EXCEPT !.blk[b][k] = <<"", a.b>>], ip |-> [ip EXCEPT !.addrs[NDIRECT] = b], addr |-> a.b]
BmapIndirect(d, ip, k, i) ==
  IF i.b = 0 THEN [d |-> d, ip |-> ip, addr |-> 0]
  ELSE BmapEntry(ip, k, i.b, OrAlloc(i.d, i.d.blk[i.b][k][2]))

\* The address of block bn of ip, allocated (with the indirect block) if it is
\* missing; addr = 0 when the disk is full.  An indirect block allocated before
\* the disk ran out stays in ip.
bmap(d, ip, bn) ==
  IF bn < NDIRECT THEN BmapDirect(ip, bn, OrAlloc(d, ip.addrs[bn]))
  ELSE BmapIndirect(d, ip, bn - NDIRECT, OrAlloc(d, ip.addrs[NDIRECT]))

\* The blocks an inode names, the indirect block and those it names included.
Indirect(d, ip) ==
  IF ip.addrs[NDIRECT] = 0 THEN {}
  ELSE {d.blk[ip.addrs[NDIRECT]][k][2] : k \in 0 .. NINDIRECT - 1} \ {0}
Direct(ip) == {ip.addrs[k] : k \in 0 .. NDIRECT} \ {0}

\* Copy the in-memory inode to the disk.
iupdate(d, inum, ip) == [d EXCEPT !.ino[inum] = ip]

\* Mutant: the blocks the indirect block names are not freed.
itrunc_direct(d, inum, ip) ==
  LET ip1 == [ip EXCEPT !.size = 0, !.addrs = NoAddrs]
  IN [d |-> iupdate(bfree(d, Direct(ip)), inum, ip1), ip |-> ip1]

\* Free all blocks of ip and write it back with size 0.
itrunc(d, inum, ip) ==
  LET ip1 == [ip EXCEPT !.size = 0, !.addrs = NoAddrs]
  IN [d |-> iupdate(bfree(d, Direct(ip) \cup Indirect(d, ip)), inum, ip1), ip |-> ip1]
-----------------------------------------------------------------------------
(* File content *)

Unit(d, ip, off) == d.blk[bmap(d, ip, off \div BSIZE).addr][off % BSIZE]

\* At most n units from off on, no further than the size.
readi(d, ip, off, n) ==
  [k \in 1 .. (IF off > ip.size THEN 0 ELSE Min({n, ip.size - off})) |->
     Unit(d, ip, off + k - 1)]

\* Write the units of src from off on, until the disk is full; then the size
\* grows to what was written and the inode is written back.  tot is the number
\* of units written; a write that starts past the end or ends past MAXFILE
\* writes nothing.
RECURSIVE WriteUnits(_, _, _)
WriteUnit(s, off, src, m) ==
  IF m.addr = 0 THEN [s EXCEPT !.d = m.d, !.ip = m.ip]
  ELSE WriteUnits([d |-> [m.d EXCEPT !.blk[m.addr][off % BSIZE] = Head(src)],
                   ip |-> m.ip, tot |-> s.tot + 1], off + 1, Tail(src))
WriteUnits(s, off, src) ==
  IF src = <<>> THEN s ELSE WriteUnit(s, off, src, bmap(s.d, s.ip, off \div BSIZE))

WriteBack(w, inum, ip) == [w EXCEPT !.d = iupdate(w.d, inum, ip), !.ip = ip]
Written(w, inum, off) == WriteBack(w, inum, [w.ip EXCEPT !.size = Max({@, off + w.tot})])

writei(d, inum, ip, off, src) ==
  IF off > ip.size \/ off + Len(src) > MAXFILE * BSIZE
  THEN [d |-> d, ip |-> ip, tot |-> 0]
  ELSE Written(WriteUnits([d |-> d, ip |-> ip, tot |-> 0], off, src), inum, off)
-----------------------------------------------------------------------------
(* Inodes and directories *)

\* The first free inode, zeroed and given its type; inum = 0 if there is none.
ialloc(d, type) ==
  LET free == {i \in Inum : d.ino[i].type = "FREE"}
  IN IF free = {} THEN [d |-> d, inum |-> 0]
     ELSE [d |-> [d EXCEPT !.ino[Min(free)] = Dinode(type, 0)], inum |-> Min(free)]

Entries(d, dp) == readi(d, dp, 0, dp.size)

\* The inode an entry of dp names and the entry's offset; inum = 0 if no entry
\* in use has the name.
FirstHit(es, hits) ==
  IF hits = {} THEN [inum |-> 0, off |-> 0]
  ELSE [inum |-> es[Min(hits)][2], off |-> Min(hits) - 1]
LookupIn(es, name) == FirstHit(es, {k \in DOMAIN es : es[k][2] # 0 /\ es[k][1] = name})
dirlookup(d, dp, name) == LookupIn(Entries(d, dp), name)

\* A new entry in the first empty slot, or at the end; the caller has looked
\* the name up.  tot # 1 when the disk is full.
FreeSlots(es) == {k \in DOMAIN es : es[k][2] = 0}
dirlink(d, dpnum, dp, name, inum) ==
  writei(d, dpnum, dp, Min(FreeSlots(Entries(d, dp)) \cup {dp.size + 1}) - 1, << <<name, inum>> >>)

\* Nothing but "." and ".." is left.
isdirempty(d, dp) == 3 .. dp.size \subseteq FreeSlots(Entries(d, dp))
-----------------------------------------------------------------------------
(* mkfs: the image with the root directory and files in it.  It allocates  *)
(* blocks and inodes in order and marks them at the end; every inode gets  *)
(* one link, "." and ".." of the root none.  The root's size is rounded up *)
(* past the entries, to the next block boundary.                           *)

EmptyDisk == [used |-> {}, blk |-> [b \in Blk |-> ZeroBlock], ino |-> [i \in Inum |-> FreeInode]]

iappend(d, inum, units) ==
  writei(d, inum, d.ino[inum], d.ino[inum].size, units).d

MkfsInode(d, inum, type) == [d EXCEPT !.ino[inum] = Dinode(type, 1)]

MkfsFile(d, name, inum, units) ==
  iappend(iappend(MkfsInode(d, inum, "FILE"), ROOTINO, << <<name, inum>> >>), inum, units)

MkfsRoot ==
  iappend(MkfsInode(EmptyDisk, ROOTINO, "DIR"), ROOTINO,
          << <<".", ROOTINO>>, <<"..", ROOTINO>> >>)

FixRootSize(d) == [d EXCEPT !.ino[ROOTINO].size = ((@ \div BSIZE) + 1) * BSIZE]

\* One file, of one unit.
Image(name) == FixRootSize(MkfsFile(MkfsRoot, name, 2, << <<"", 1>> >>))
=============================================================================
