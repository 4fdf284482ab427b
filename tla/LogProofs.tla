----------------------------- MODULE LogProofs -----------------------------
(***************************************************************************)
(* Proofs about Log for any number of threads, blocks and crashes and any  *)
(* log size: log.c never panics, commits alone, and implements AtomicDisk. *)
(***************************************************************************)
EXTENDS Log, FiniteSetTheorems, TLAPS

\* A set of threads is finite, and empty when it counts zero.
LEMMA ThreadsFinite ==
  ASSUME NEW A \in SUBSET Thread
  PROVE  /\ IsFiniteSet(A) /\ Cardinality(A) \in Nat
         /\ Cardinality(A) = 0 <=> A = {}
<1>1. IsFiniteSet(A)
  BY LogAssumption, FS_Subset
<1> QED
  BY <1>1, FS_CardinalityType, FS_EmptySet

\* The log space that calls A may still use is at most MAXOPBLOCKS for each.
LEMMA ReserveBound ==
  ASSUME NEW A \in SUBSET Thread, NEW R \in SUBSET (A \X (0 .. MAXOPBLOCKS - 1))
  PROVE  /\ IsFiniteSet(R) /\ Cardinality(R) \in Nat
         /\ Cardinality(R) <= Cardinality(A) * MAXOPBLOCKS
<1> DEFINE N == 0 .. MAXOPBLOCKS - 1
<1>1. IsFiniteSet(N) /\ Cardinality(N) = MAXOPBLOCKS
  <2>1. MAXOPBLOCKS \in Nat /\ MAXOPBLOCKS > 0
    BY LogAssumption
  <2> QED
    BY <2>1, FS_Interval
<1>2. IsFiniteSet(A \X N) /\ Cardinality(A \X N) = Cardinality(A) * MAXOPBLOCKS
  BY <1>1, ThreadsFinite, FS_Product
<1>3. IsFiniteSet(R) /\ Cardinality(R) <= Cardinality(A \X N)
  BY <1>2, FS_Subset
<1> QED
  BY <1>2, <1>3, FS_CardinalityType

\* The reserved space belongs to calls in progress.
LEMMA ReserveOfActive ==
  /\ Active \in SUBSET Thread /\ Reserve \in SUBSET (Active \X (0 .. MAXOPBLOCKS - 1))
  /\ Active' \in SUBSET Thread /\ Reserve' \in SUBSET (Active' \X (0 .. MAXOPBLOCKS - 1))
  BY DEF Active, Reserve

\* A step that starts and ends no call leaves the accounting alone.
LEMMA SameCalls ==
  ASSUME dirty' = dirty, \A t \in Thread : pc'[t] = "op" <=> pc[t] = "op"
  PROVE  Active' = Active /\ Reserve' = Reserve
  BY DEF Active, Reserve

\* With no call in progress nothing is reserved.
LEMMA NoCalls ==
  ASSUME \A t \in Thread : pc[t] # "op"
  PROVE  Active = {} /\ Reserve = {} /\ Cardinality(Active) = 0 /\ Cardinality(Reserve) = 0
<1>1. Active = {} /\ Reserve = {}
  BY DEF Active, Reserve
<1> QED
  BY <1>1, FS_EmptySet

\* initlog() and binit() on a disk with an empty log.
LEMMA InitIInv == Init => IInv
<1> SUFFICES ASSUME Init PROVE IInv
  OBVIOUS
<1> USE DEF Init
<1>1. TypeOK
  <2>1. logblk \in [1 .. LOGBLOCKS -> Value]
    OBVIOUS
  <2>2. tail \in 1 .. LOGBLOCKS
    BY LogAssumption
  <2>3. ops \in [Thread -> Nat]
    BY LogAssumption
  <2>4. header \in Seq(Block) /\ lh \in Seq(Block)
    OBVIOUS
  <2>5. committing \in BOOLEAN /\ pinned \subseteq Block
    BY Zenon
  <2>6. /\ cache \in [Block -> Value \cup {NoBuf}] /\ dirty \in [Thread -> SUBSET Block]
        /\ pc \in [Thread -> {"idle"}]
    OBVIOUS
  <2> QED
    BY <2>1, <2>2, <2>3, <2>4, <2>5, <2>6 DEF TypeOK
<1>2. Active = {} /\ Reserve = {} /\ Cardinality(Active) = 0 /\ Cardinality(Reserve) = 0
  BY NoCalls
<1>3. CommitAlone
  BY <1>2 DEF CommitAlone, Committing
<1>4. SpaceInv
  BY <1>2, LogAssumption DEF SpaceInv
<1>5. BootInv /\ CommitInv /\ DirtyIsCached /\ NoRepeat(lh) /\ NoRepeat(header)
  BY DEF BootInv, CommitInv, PlaceInv, DirtyIsCached, NoRepeat
<1> QED
  BY <1>1, <1>3, <1>4, <1>5 DEF IInv

\* A thread makes a call, sleeps in begin_op(), or has nothing to do.
LEMMA CallIInv ==
  ASSUME IInv, NEW t \in Thread, Call(t)
  PROVE  IInv'
<1> USE DEF Call, disks, buffers
<1>1. TypeOK'
  BY DEF IInv, TypeOK
<1>2. Active' = Active /\ Reserve' = Reserve /\ Committing' = Committing
  <2>1. \A u \in Thread : pc'[u] = "op" <=> pc[u] = "op"
    BY DEF IInv, TypeOK
  <2>2. Committing' = Committing
    BY DEF IInv, TypeOK, Committing
  <2> QED
    BY <2>1, <2>2, SameCalls
<1>3. CommitAlone'
  BY <1>2 DEF IInv, CommitAlone
<1>4. SpaceInv'
  BY <1>2 DEF IInv, SpaceInv, Logged
<1>5. NoRepeat(lh)' /\ NoRepeat(header)' /\ DirtyIsCached'
  BY DEF IInv, NoRepeat, DirtyIsCached, Logged
<1>6. BootInv'
  BY DEF IInv, BootInv
<1>7. CommitInv'
  BY DEF IInv, TypeOK, CommitInv, PlaceInv, Logged, bread
<1> QED
  BY <1>1, <1>3, <1>4, <1>5, <1>6, <1>7 DEF IInv

\* begin_op(): what is reserved for the calls in progress fits in the log.
LEMMA BeginIInv ==
  ASSUME IInv, NEW t \in Thread, begin_op(t)
  PROVE  IInv'
<1> USE DEF begin_op, disks, buffers
<1>1. TypeOK'
  BY DEF IInv, TypeOK
<1>2. Committing' = Committing
  BY DEF IInv, TypeOK, Committing
<1>3. ASSUME ~MayBegin PROVE CommitAlone' /\ SpaceInv'
  <2>1. Active' = Active /\ Reserve' = Reserve
    <3>1. \A u \in Thread : pc'[u] = "op" <=> pc[u] = "op"
      BY <1>3 DEF IInv, TypeOK
    <3> QED
      BY <3>1, SameCalls
  <2> QED
    BY <1>2, <1>3, <2>1 DEF IInv, CommitAlone, SpaceInv, Logged
<1>4. ASSUME MayBegin PROVE CommitAlone' /\ SpaceInv'
  <2>1. t \notin Active /\ Active' = Active \cup {t}
    BY <1>4 DEF IInv, TypeOK, Active
  <2>2. Cardinality(Active') = Cardinality(Active) + 1
    BY <2>1, ThreadsFinite, ReserveOfActive, FS_AddElement
  <2>3. CommitAlone'
    BY <1>2, <1>4, <2>2 DEF IInv, CommitAlone, MayBegin
  <2>4. Len(lh)' + Cardinality(Reserve)' <= LOGBLOCKS
    <3>1. Cardinality(Reserve)' <= Cardinality(Active') * MAXOPBLOCKS
          /\ Cardinality(Reserve)' \in Nat
      BY ReserveOfActive, ReserveBound
    <3>2. Cardinality(Active') = outstanding + 1
      BY <2>2 DEF IInv, CommitAlone
    <3>3. Len(lh)' = Len(lh) /\ Len(lh) \in Nat
      BY DEF IInv, TypeOK
    <3> QED
      BY <1>4, <3>1, <3>2, <3>3, LogAssumption DEF MayBegin, IInv, TypeOK
  <2>5. dirty[t] = {} /\ Cardinality(dirty[t]) = 0
    BY <2>1, FS_EmptySet DEF IInv, SpaceInv
  <2>6. \A u \in Active' : Cardinality(dirty'[u]) <= OpBlocks /\ \A b \in dirty'[u] : Logged(b)'
    <3>1. dirty' = dirty /\ 0 <= OpBlocks
      BY LogAssumption
    <3>2. \A u \in Active : Cardinality(dirty[u]) <= OpBlocks /\ \A b \in dirty[u] : Logged(b)'
      BY DEF IInv, SpaceInv, Logged
    <3> QED
      BY <2>1, <2>5, <3>1, <3>2
  <2>7. SpaceInv'
    BY <2>1, <2>4, <2>6 DEF IInv, SpaceInv
  <2> QED
    BY <2>3, <2>7
<1>5. CommitAlone' /\ SpaceInv'
  BY <1>3, <1>4
<1>6. NoRepeat(lh)' /\ NoRepeat(header)' /\ DirtyIsCached'
  BY DEF IInv, NoRepeat, DirtyIsCached, Logged
<1>7. BootInv'
  BY DEF IInv, BootInv
<1>8. CommitInv'
  BY DEF IInv, TypeOK, CommitInv, PlaceInv, Logged, bread
<1> QED
  BY <1>1, <1>5, <1>6, <1>7, <1>8 DEF IInv

\* log_write(): a block the call had not dirtied uses up one reserved block.
LEMMA LogWriteReserve ==
  ASSUME IInv, NEW t \in Thread, NEW b \in Block, NEW v \in Value, log_write(t, b, v)
  PROVE  Len(lh') + Cardinality(Reserve') <= LOGBLOCKS
<1> USE DEF log_write, disks
<1>1. t \in Active /\ IsFiniteSet(dirty[t]) /\ Cardinality(dirty[t]) \in Nat
  BY LogAssumption, FS_Subset, FS_CardinalityType DEF IInv, TypeOK, Active
<1>2. CASE b \in dirty[t]
  <2>1. Logged(b) /\ dirty' = dirty /\ lh' = lh /\ pc' = pc
    BY <1>1, <1>2 DEF IInv, SpaceInv, TypeOK
  <2>2. Reserve' = Reserve
    BY <2>1 DEF Reserve
  <2> QED
    BY <2>1, <2>2 DEF IInv, SpaceInv
<1>3. CASE b \notin dirty[t]
  <2> DEFINE k == Cardinality(dirty[t])
  <2>1. Cardinality(dirty'[t]) = k + 1 /\ k + 1 <= OpBlocks
    <3>1. dirty'[t] = dirty[t] \cup {b}
      BY DEF IInv, TypeOK
    <3> QED
      BY <1>1, <1>3, <3>1, FS_AddElement
  <2>2. \A u \in Thread \ {t} : dirty'[u] = dirty[u]
    BY DEF IInv, TypeOK
  <2>3. <<t, k>> \in Reserve
    BY <1>1, <2>1, LogAssumption DEF Reserve, Active
  <2>4. Reserve' \in SUBSET (Reserve \ {<<t, k>>})
    <3> SUFFICES ASSUME NEW x \in Reserve' PROVE x \in Reserve /\ x # <<t, k>>
      OBVIOUS
    <3>1. x \in Thread \X (0 .. MAXOPBLOCKS - 1) /\ pc[x[1]] = "op"
          /\ Cardinality(dirty'[x[1]]) <= x[2]
      BY DEF Reserve
    <3>2. CASE x[1] = t
      BY <1>1, <2>1, <3>1, <3>2 DEF Reserve
    <3>3. CASE x[1] # t
      BY <2>2, <3>1, <3>3 DEF Reserve
    <3> QED
      BY <3>2, <3>3
  <2>5. IsFiniteSet(Reserve)
    BY ReserveOfActive, ReserveBound
  <2>6. /\ IsFiniteSet(Reserve \ {<<t, k>>})
        /\ Cardinality(Reserve \ {<<t, k>>}) = Cardinality(Reserve) - 1
    BY <2>3, <2>5, FS_RemoveElement
  <2>7. Cardinality(Reserve') <= Cardinality(Reserve) - 1
    BY <2>4, <2>6, FS_Subset
  <2>8. Cardinality(Reserve) \in Nat /\ Cardinality(Reserve') \in Nat
    BY ReserveOfActive, ReserveBound
  <2>9. Len(lh) \in Nat /\ Len(lh') \in Nat /\ Len(lh') <= Len(lh) + 1
    BY DEF IInv, TypeOK
  <2> QED
    BY <2>7, <2>8, <2>9, LogAssumption DEF IInv, SpaceInv
<1> QED
  BY <1>2, <1>3

\* What log_write() does to the block numbers.
LEMMA LogWriteBlocks ==
  ASSUME IInv, NEW t \in Thread, NEW b \in Block, NEW v \in Value, log_write(t, b, v)
  PROVE  /\ lh' \in Seq(Block)
         /\ Logged(b)' /\ \A c \in Block : Logged(c) => Logged(c)'
         /\ \A c \in Block : Logged(c)' => Logged(c) \/ c = b
         /\ NoRepeat(lh)'
<1>1. lh \in Seq(Block) /\ Len(lh) \in Nat /\ NoRepeat(lh)
  BY DEF IInv, TypeOK
<1>2. CASE Logged(b)
  <2>1. lh' = lh
    BY <1>2 DEF log_write
  <2> QED
    BY <1>1, <1>2, <2>1 DEF Logged, NoRepeat
<1>3. CASE ~Logged(b)
  <2>1. lh' = Append(lh, b)
    BY <1>3 DEF log_write
  <2>2. lh' \in Seq(Block) /\ Len(lh') = Len(lh) + 1 /\ lh'[Len(lh) + 1] = b
        /\ \A i \in 1 .. Len(lh) : lh'[i] = lh[i]
    BY <1>1, <2>1
  <2>3. Logged(b)' /\ \A c \in Block : Logged(c) => Logged(c)'
    BY <1>1, <2>2 DEF Logged
  <2>4. \A c \in Block : Logged(c)' => Logged(c) \/ c = b
    BY <1>1, <2>2 DEF Logged
  <2>5. \A i \in 1 .. Len(lh) : lh[i] # b
    BY <1>3 DEF Logged
  <2>6. NoRepeat(lh)'
    BY <1>1, <2>2, <2>5 DEF NoRepeat
  <2> QED
    BY <2>2, <2>3, <2>4, <2>6
<1> QED
  BY <1>2, <1>3

LEMMA LogWriteIInv ==
  ASSUME IInv, NEW t \in Thread, NEW b \in Block, NEW v \in Value, log_write(t, b, v)
  PROVE  IInv'
<1> USE DEF log_write, disks
<1>1. TypeOK'
  BY LogWriteBlocks DEF IInv, TypeOK
<1>2. Active' = Active /\ Committing' = Committing /\ t \in Active
  BY DEF Active, Committing
<1>3. CommitAlone'
  BY <1>2 DEF IInv, CommitAlone
<1>4. Committing = {} /\ boot = "up"
  <2>1. outstanding # 0
    BY <1>2, ThreadsFinite, ReserveOfActive DEF IInv, CommitAlone
  <2> QED
    BY <2>1 DEF IInv, CommitAlone, BootInv
<1>5. Logged(b)' /\ \A c \in Block : Logged(c) => Logged(c)'
  BY LogWriteBlocks
<1>6. \A c \in Block : Logged(c)' => Logged(c) \/ c = b
  BY LogWriteBlocks
<1>7. SpaceInv'
  <2>1. Cardinality(dirty'[t]) <= OpBlocks /\ \A c \in dirty'[t] : Logged(c)'
    BY <1>2, <1>5 DEF IInv, SpaceInv, TypeOK
  <2>2. \A u \in Thread \ {t} : dirty'[u] = dirty[u]
    BY DEF IInv, TypeOK
  <2>3. \A u \in Active : Cardinality(dirty'[u]) <= OpBlocks /\ \A c \in dirty'[u] : Logged(c)'
    <3> SUFFICES ASSUME NEW u \in Active, u # t
                 PROVE Cardinality(dirty'[u]) <= OpBlocks /\ \A c \in dirty'[u] : Logged(c)'
      BY <2>1
    <3> QED
      BY <1>5, <2>2 DEF IInv, SpaceInv, Active, TypeOK
  <2>4. \A u \in Thread \ Active : dirty'[u] = {}
    BY <1>2, <2>2 DEF IInv, SpaceInv
  <2> QED
    BY <1>2, <2>3, <2>4, LogWriteReserve DEF SpaceInv, IInv
<1>8. NoRepeat(lh)' /\ NoRepeat(header)'
  BY LogWriteBlocks DEF IInv, NoRepeat
<1>9. BootInv'
  BY <1>4 DEF BootInv
<1>10. DirtyIsCached' /\ \A c \in pinned' : cache'[c] # NoBuf
  BY <1>4, <1>5, LogAssumption DEF IInv, TypeOK, DirtyIsCached, CommitInv, PlaceInv, Committing
<1>11. CommitInv'
  <2>1. \A u \in Thread : pc'[u] \notin {"write_log", "write_head", "install", "erase", "committed"}
    BY <1>4 DEF Committing
  <2>2. header' = <<>> /\ \A c \in Block : Logged(c)' => c \in pinned'
    BY <1>4, <1>6, <2>1 DEF IInv, CommitInv, PlaceInv
  <2> QED
    BY <1>10, <2>1, <2>2 DEF CommitInv, PlaceInv
<1> QED
  BY <1>1, <1>3, <1>7, <1>8, <1>9, <1>10, <1>11 DEF IInv

\* end_op(): the last call out becomes the only committer.
LEMMA EndIInv ==
  ASSUME IInv, NEW t \in Thread, end_op(t)
  PROVE  IInv'
<1> USE DEF end_op, disks, buffers, Awake
<1>1. TypeOK'
  <2>1. t \in Active /\ outstanding # 0
    BY ThreadsFinite, ReserveOfActive DEF IInv, CommitAlone, Active
  <2> QED
    BY <2>1, LogAssumption DEF IInv, TypeOK
<1>2. t \in Active /\ Active' = Active \ {t}
  BY DEF IInv, TypeOK, Active
<1>3. Cardinality(Active') = Cardinality(Active) - 1 /\ outstanding # 0
  BY <1>2, ThreadsFinite, ReserveOfActive, FS_RemoveElement DEF IInv, CommitAlone
<1>4. Committing = {} /\ boot = "up"
  BY <1>3 DEF IInv, CommitAlone, BootInv
<1>5. Committing' = IF outstanding = 1 THEN {t} ELSE {}
  BY <1>4 DEF Committing, IInv, TypeOK
<1>6. CommitAlone'
  <2>1. outstanding \in Nat /\ outstanding' = Cardinality(Active')
    BY <1>3 DEF IInv, CommitAlone, TypeOK
  <2>2. CASE outstanding = 1
    <3>1. committing'
      BY <2>2, Zenon
    <3>2. Committing' = {t} /\ outstanding' = 0
      BY <1>5, <2>1, <2>2
    <3> QED
      BY <2>1, <3>1, <3>2 DEF CommitAlone
  <2>3. CASE outstanding # 1
    <3>1. committing' = FALSE /\ Committing' = {}
      BY <1>5, <2>3
    <3> QED
      BY <2>1, <3>1 DEF CommitAlone
  <2> QED
    BY <2>2, <2>3
<1>7. SpaceInv'
  <2>1. \A u \in Thread \ {t} : dirty'[u] = dirty[u]
    BY DEF IInv, TypeOK
  <2>2. dirty'[t] = {}
    BY DEF IInv, TypeOK
  <2>3. \A u \in Thread : pc'[u] = "op" => pc[u] = "op" /\ u # t
    BY DEF IInv, TypeOK
  <2>4. Reserve' \in SUBSET Reserve
    BY <2>1, <2>3 DEF Reserve
  <2>5. Cardinality(Reserve') <= Cardinality(Reserve)
        /\ Cardinality(Reserve) \in Nat /\ Cardinality(Reserve') \in Nat
    BY <2>4, ReserveOfActive, ReserveBound, FS_Subset
  <2>6. Len(lh') + Cardinality(Reserve') <= LOGBLOCKS
    BY <2>5, LogAssumption DEF IInv, SpaceInv, TypeOK
  <2>7. \A u \in Active' : Cardinality(dirty'[u]) <= OpBlocks /\ \A b \in dirty'[u] : Logged(b)'
    BY <1>2, <2>1, ReserveOfActive DEF IInv, SpaceInv, Logged
  <2>8. \A u \in Thread \ Active' : dirty'[u] = {}
    BY <1>2, <2>1, <2>2 DEF IInv, SpaceInv
  <2> QED
    BY <2>6, <2>7, <2>8 DEF IInv, SpaceInv
<1>8. NoRepeat(lh)' /\ NoRepeat(header)' /\ DirtyIsCached' /\ BootInv'
  BY <1>4 DEF IInv, NoRepeat, DirtyIsCached, Logged, BootInv
<1>9. CommitInv'
  <2>1. \A u \in Thread : pc'[u] \notin {"write_head", "install", "erase"}
                        /\ pc[u] \notin {"write_head", "install", "erase"}
    BY <1>4 DEF Committing, IInv, TypeOK
  <2>2. \A u \in Thread : pc'[u] \in {"write_log", "committed"} => u = t /\ outstanding = 1
    BY <1>5 DEF Committing
  <2>3. \A u \in Thread :
          /\ pc'[u] = "write_log" => tail' = 1 /\ 1 <= Len(lh)
          /\ pc'[u] = "committed" => lh = <<>>
    <3>1. outstanding = 1 => pc'[t] = IF lh = <<>> THEN "committed" ELSE "write_log"
      BY DEF IInv, TypeOK
    <3>2. tail' = 1 /\ (lh # <<>> => 1 <= Len(lh))
      BY DEF IInv, TypeOK
    <3> QED
      BY <2>2, <3>1, <3>2
  <2>4. header' = <<>> /\ \A b \in Block : Logged(b)' => b \in pinned'
    BY <1>4, <2>1 DEF IInv, CommitInv, PlaceInv, Logged
  <2>5. \A b \in pinned' : cache'[b] # NoBuf
    BY <1>4 DEF IInv, CommitInv, PlaceInv
  <2>6. \A u \in Thread : PlaceInv(u)'
    <3>1. lh' = lh /\ \A i \in 1 .. Len(lh) : ~(i < tail')
      BY DEF IInv, TypeOK
    <3> SUFFICES ASSUME NEW u \in Thread PROVE PlaceInv(u)'
      OBVIOUS
    <3>2. CASE pc'[u] = "write_log"
      <4>1. tail' = 1 /\ 1 <= Len(lh) /\ lh' = lh
        BY <2>3, <3>1, <3>2
      <4>2. \A i \in 1 .. Len(lh') : ~(i < tail')
        BY <3>1
      <4> QED
        BY <3>2, <4>1, <4>2 DEF PlaceInv
    <3>3. CASE pc'[u] = "committed"
      BY <2>3, <3>1, <3>3 DEF PlaceInv
    <3>4. CASE pc'[u] \notin {"write_log", "committed"}
      BY <2>1, <3>4 DEF PlaceInv
    <3> QED
      BY <3>2, <3>3, <3>4
  <2> QED
    BY <2>1, <2>4, <2>5, <2>6 DEF CommitInv
<1> QED
  BY <1>1, <1>6, <1>7, <1>8, <1>9 DEF IInv

\* While a thread commits there is no call in progress and no other committer.
LEMMA Committer ==
  ASSUME IInv, NEW t \in Committing
  PROVE  /\ boot = "up" /\ outstanding = 0 /\ Active = {} /\ committing
         /\ \A u \in Thread \ {t} : u \notin Committing
<1>1. boot = "up"
  BY DEF IInv, BootInv, Committing
<1>2. committing /\ outstanding = 0
  BY DEF IInv, CommitAlone
<1>3. Active = {}
  BY <1>2, ThreadsFinite, ReserveOfActive DEF IInv, CommitAlone
<1> QED
  BY <1>1, <1>2, <1>3 DEF IInv, CommitAlone

\* The log and its header never outgrow the log's blocks.
LEMMA LogFits ==
  ASSUME IInv
  PROVE  /\ Len(lh) \in 0 .. LOGBLOCKS /\ Len(header) \in 0 .. LOGBLOCKS
         /\ Cardinality(Reserve) \in 0 .. LOGBLOCKS
<1>1. Len(lh) \in Nat /\ Len(header) \in Nat
  BY DEF IInv, TypeOK
<1>2. Cardinality(Reserve) \in Nat
  BY ReserveOfActive, ReserveBound
<1>3. Len(lh) + Cardinality(Reserve) <= LOGBLOCKS /\ Len(header) <= LOGBLOCKS
  BY DEF IInv, SpaceInv
<1> QED
  BY <1>1, <1>2, <1>3, LogAssumption

\* A step of commit() touches neither the calls nor the block numbers.
LEMMA CommitStepIInv ==
  ASSUME IInv, NEW t \in Committing, NEW l \in {"write_log", "write_head", "install", "erase"},
         pc' = [pc EXCEPT ![t] = l], lh' = lh, header' \in {lh, header},
         UNCHANGED <<outstanding, committing, boot, dirty>>
  PROVE  CommitAlone' /\ SpaceInv' /\ NoRepeat(lh)' /\ NoRepeat(header)' /\ BootInv'
<1>1. t \in Thread
  BY DEF Committing
<1>2. Active' = Active /\ Reserve' = Reserve
  <2>1. \A u \in Thread : pc'[u] = "op" <=> pc[u] = "op"
    BY DEF IInv, TypeOK, Committing
  <2> QED
    BY <2>1, SameCalls
<1>3. Committing' = Committing
  BY <1>1 DEF IInv, TypeOK, Committing
<1>4. CommitAlone'
  BY <1>2, <1>3 DEF IInv, CommitAlone
<1>5. SpaceInv'
  <2>1. Len(lh) <= LOGBLOCKS
    BY LogFits
  <2> QED
    BY <1>2, <2>1 DEF IInv, SpaceInv, Logged
<1>6. NoRepeat(lh)' /\ NoRepeat(header)'
  BY DEF IInv, NoRepeat
<1>7. BootInv'
  BY Committer DEF BootInv
<1> QED
  BY <1>4, <1>5, <1>6, <1>7

\* write_log() and write_head() before and at the commit point.
LEMMA WriteLogIInv ==
  ASSUME IInv, NEW t \in Thread, write_log(t)
  PROVE  IInv'
<1> USE DEF write_log, buffers
<1>1. t \in Committing
  BY DEF Committing
<1>2. boot = "up" /\ tail \in 1 .. Len(lh) /\ Len(lh) <= LOGBLOCKS /\ header = <<>>
      /\ \A u \in Thread \ {t} : u \notin Committing
  <2>1. boot = "up" /\ \A u \in Thread \ {t} : u \notin Committing
    BY <1>1, Committer
  <2>2. \A u \in Thread : pc[u] \notin {"install", "erase"}
    BY <2>1 DEF Committing
  <2> QED
    BY <2>1, <2>2, LogFits DEF IInv, TypeOK, CommitInv, PlaceInv
<1>3. lh[tail] \in Block /\ bread(lh[tail]) \in Value
  BY <1>2 DEF IInv, TypeOK, bread
<1>4. TypeOK'
  BY <1>2, <1>3, LogAssumption DEF IInv, TypeOK
<1>5. CommitAlone' /\ SpaceInv' /\ NoRepeat(lh)' /\ NoRepeat(header)' /\ BootInv'
  <2>1. CASE tail = Len(lh)
    BY <1>1, <2>1, CommitStepIInv
  <2>2. CASE tail # Len(lh)
    BY <1>1, <2>2, CommitStepIInv
  <2> QED
    BY <2>1, <2>2
<1>6. DirtyIsCached'
  BY DEF IInv, DirtyIsCached, Logged
<1>7. CommitInv'
  <2>1. \A u \in Thread \ {t} : pc'[u] = pc[u]
    BY DEF IInv, TypeOK
  <2>2. pc'[t] = IF tail = Len(lh) THEN "write_head" ELSE "write_log"
    BY DEF IInv, TypeOK
  <2>3. \A u \in Thread \ {t} : pc'[u] \notin
          {"write_log", "write_head", "install", "erase", "committed"}
    BY <1>2, <2>1 DEF Committing
  <2>4. header' = <<>> /\ \A b \in Block : Logged(b)' => b \in pinned'
    BY <1>2, <2>3 DEF IInv, CommitInv, PlaceInv, Logged, Committing
  <2>5. \A i \in 1 .. Len(lh) : i <= tail => logblk'[i] = bread(lh[i])
    BY <1>2 DEF IInv, CommitInv, PlaceInv, TypeOK
  <2>6. \A i \in 1 .. Len(lh) : bread(lh[i])' = bread(lh[i])
    BY DEF bread
  <2>7. \A i \in 1 .. Len(lh') :
          pc'[t] = "write_head" \/ (pc'[t] = "write_log" /\ i < tail') => logblk'[i] = bread(lh[i])'
    BY <1>2, <2>2, <2>5, <2>6
  <2>8. (pc'[t] = "write_log" => tail' <= Len(lh')) /\ \A b \in pinned' : cache'[b] # NoBuf
    BY <1>2, <2>2 DEF IInv, CommitInv, PlaceInv
  <2>9. PlaceInv(t)'
    <3>1. pc'[t] = "write_head" => tail' = 1 /\ lh' # <<>>
      BY <1>2, <2>2
    <3>2. pc'[t] \in {"write_head", "write_log"}
      BY <2>2
    <3> QED
      BY <2>7, <2>8, <3>1, <3>2 DEF PlaceInv
  <2>10. \A u \in Thread : PlaceInv(u)'
    BY <2>3, <2>9 DEF PlaceInv
  <2> QED
    BY <2>4, <2>8, <2>10 DEF CommitInv
<1> QED
  BY <1>4, <1>5, <1>6, <1>7 DEF IInv

LEMMA WriteHeadIInv ==
  ASSUME IInv, NEW t \in Thread, write_head(t)
  PROVE  IInv'
<1> USE DEF write_head, buffers
<1>1. t \in Committing
  BY DEF Committing
<1>2. boot = "up" /\ \A u \in Thread \ {t} : u \notin Committing
  BY <1>1, Committer
<1>3. TypeOK'
  BY DEF IInv, TypeOK
<1>4. CommitAlone' /\ SpaceInv' /\ NoRepeat(lh)' /\ NoRepeat(header)' /\ BootInv'
  BY <1>1, CommitStepIInv, Zenon
<1>5. DirtyIsCached'
  BY DEF IInv, DirtyIsCached, Logged
<1>6. CommitInv'
  <2>1. \A u \in Thread \ {t} : pc'[u] = pc[u]
    BY DEF IInv, TypeOK
  <2>2. pc'[t] = "install"
    BY DEF IInv, TypeOK
  <2>3. \A u \in Thread \ {t} : pc'[u] \notin
          {"write_log", "write_head", "install", "erase", "committed"}
    BY <1>2, <2>1 DEF Committing
  <2>0. CommitInv
    BY DEF IInv
  <2>4. \A b \in Block : Logged(b) => b \in pinned
    BY <1>2, <2>0, <2>1, <2>3 DEF CommitInv, PlaceInv
  <2>5. \A i \in 1 .. Len(lh) : lh[i] \in pinned
    BY <2>4 DEF Logged, IInv, TypeOK
  <2>6. \A i \in 1 .. Len(lh) : logblk[i] = bread(lh[i]) /\ bread(lh[i])' = bread(lh[i])
    BY <1>2, <2>0 DEF CommitInv, PlaceInv, bread
  <2>7. tail = 1 /\ 1 <= Len(lh) /\ \A b \in pinned : cache[b] # NoBuf
    BY <1>2, <2>0 DEF CommitInv, PlaceInv
  <2> QED
    BY <2>2, <2>3, <2>5, <2>6, <2>7 DEF CommitInv, PlaceInv, IInv, TypeOK
<1> QED
  BY <1>3, <1>4, <1>5, <1>6 DEF IInv

\* install_trans(): the block it writes is the only one whose home changes,
\* because no block is logged twice.
LEMMA InstallIInv ==
  ASSUME IInv, NEW t \in Thread, install_trans(t)
  PROVE  IInv'
<1> USE DEF install_trans
<1>1. t \in Committing
  BY DEF Committing
<1>2. /\ boot = "up" /\ tail \in 1 .. Len(lh) /\ Len(lh) <= LOGBLOCKS
      /\ \A u \in Thread \ {t} : u \notin Committing
  <2>1. boot = "up" /\ \A u \in Thread \ {t} : u \notin Committing
    BY <1>1, Committer
  <2> QED
    BY <2>1, LogFits DEF IInv, TypeOK, CommitInv, PlaceInv
<1>3. lh[tail] \in Block /\ logblk[tail] \in Value /\ logblk[tail] = bread(lh[tail])
      /\ logblk[tail] # NoBuf
  BY <1>2, LogAssumption DEF IInv, TypeOK, CommitInv, PlaceInv
<1>4. TypeOK'
  BY <1>2, <1>3, LogAssumption DEF IInv, TypeOK
<1>5. CommitAlone' /\ SpaceInv' /\ NoRepeat(lh)' /\ NoRepeat(header)' /\ BootInv'
  <2>1. CASE tail = Len(lh)
    BY <1>1, <2>1, CommitStepIInv
  <2>2. CASE tail # Len(lh)
    BY <1>1, <2>2, CommitStepIInv
  <2> QED
    BY <2>1, <2>2
<1>6. \A b \in Block : bread(b)' = bread(b)
  BY <1>3 DEF IInv, TypeOK, bread
<1>7. DirtyIsCached'
  BY <1>3 DEF IInv, TypeOK, DirtyIsCached, Logged
<1>8. CommitInv'
  <2>1. \A u \in Thread \ {t} : pc'[u] = pc[u]
    BY DEF IInv, TypeOK
  <2>2. pc'[t] = IF tail = Len(lh) THEN "erase" ELSE "install"
    BY DEF IInv, TypeOK
  <2>3. \A u \in Thread \ {t} : pc'[u] \notin
          {"write_log", "write_head", "install", "erase", "committed"}
    BY <1>2, <2>1 DEF Committing
  <2>4. header' = lh'
    BY <1>2 DEF IInv, CommitInv, PlaceInv
  <2>5. \A i \in 1 .. Len(lh) : lh[i] \in Block /\ logblk[i] = bread(lh[i])
    BY <1>2 DEF IInv, TypeOK, CommitInv, PlaceInv
  <2>6. \A i \in 1 .. Len(lh) : logblk'[i] = bread(lh[i])'
    BY <1>6, <2>5
  <2>7. \A i \in 1 .. Len(lh) : i <= tail => disk'[lh[i]] = logblk[i]
    <3>1. \A i \in 1 .. Len(lh) : i < tail => lh[i] # lh[tail] /\ disk[lh[i]] = logblk[i]
      BY <1>2 DEF IInv, CommitInv, PlaceInv, NoRepeat
    <3> QED
      BY <1>2, <1>3, <2>5, <3>1 DEF IInv, TypeOK
  <2>8. \A i \in 1 .. Len(lh) : tail < i => lh[i] \in pinned'
    <3>1. \A i \in 1 .. Len(lh) : tail < i => lh[i] # lh[tail] /\ lh[i] \in pinned
      BY <1>2 DEF IInv, CommitInv, PlaceInv, NoRepeat
    <3> QED
      BY <3>1
  <2>9. \A b \in pinned' : cache'[b] # NoBuf
    BY <1>2, <1>3 DEF IInv, TypeOK, CommitInv, PlaceInv
  <2>10. (pc'[t] = "install" => tail' = tail + 1 /\ tail' <= Len(lh'))
         /\ (pc'[t] = "erase" => tail = Len(lh))
    BY <1>2, <2>2
  <2>11. \A i \in 1 .. Len(lh') :
           /\ logblk'[i] = bread(lh[i])'
           /\ pc'[t] = "install" /\ tail' <= i => lh'[i] \in pinned'
           /\ pc'[t] = "erase" \/ (pc'[t] = "install" /\ i < tail') => disk'[lh'[i]] = logblk'[i]
    BY <1>2, <2>2, <2>6, <2>7, <2>8, <2>10
  <2> QED
    BY <2>2, <2>3, <2>4, <2>9, <2>10, <2>11 DEF CommitInv, PlaceInv
<1> QED
  BY <1>4, <1>5, <1>7, <1>8 DEF IInv

\* The end of commit(): the header is erased once everything is at home.
LEMMA EraseIInv ==
  ASSUME IInv, NEW t \in Thread, erase(t)
  PROVE  IInv'
<1> USE DEF erase, buffers
<1>1. t \in Committing
  BY DEF Committing
<1>2. boot = "up" /\ Active = {} /\ \A u \in Thread \ {t} : u \notin Committing
  BY <1>1, Committer
<1>3. TypeOK'
  BY DEF IInv, TypeOK
<1>4. Active' = Active /\ Reserve' = Reserve /\ Committing' = Committing
  <2>1. \A u \in Thread : pc'[u] = "op" <=> pc[u] = "op"
    BY DEF IInv, TypeOK
  <2>2. Committing' = Committing
    BY DEF IInv, TypeOK, Committing
  <2> QED
    BY <2>1, <2>2, SameCalls
<1>5. CommitAlone'
  BY <1>4 DEF IInv, CommitAlone
<1>6. SpaceInv'
  <2>1. Cardinality(Reserve) <= LOGBLOCKS
    BY LogFits, LogAssumption
  <2>2. Cardinality(Reserve) \in Nat
    BY ReserveOfActive, ReserveBound
  <2> QED
    BY <1>2, <1>4, <2>1, <2>2, LogAssumption DEF IInv, SpaceInv
<1>7. NoRepeat(lh)' /\ NoRepeat(header)' /\ BootInv'
  BY <1>2 DEF NoRepeat, BootInv
<1>8. \A b \in Block : cache[b] # NoBuf => cache[b] = disk[b]
  <2> SUFFICES ASSUME NEW b \in Block, cache[b] # NoBuf, cache[b] # disk[b] PROVE FALSE
    OBVIOUS
  <2>1. PICK i \in 1 .. Len(lh) : lh[i] = b
    BY DEF IInv, DirtyIsCached, Logged
  <2>2. disk[b] = logblk[i] /\ logblk[i] = cache[b]
    BY <1>2, <2>1 DEF IInv, CommitInv, PlaceInv, bread
  <2> QED
    BY <2>2
<1>9. DirtyIsCached'
  BY <1>8 DEF DirtyIsCached
<1>10. CommitInv'
  <2>1. \A u \in Thread : pc'[u] \notin {"write_log", "write_head", "install", "erase"}
    BY <1>2 DEF Committing, IInv, TypeOK
  <2>2. \A b \in Block : ~Logged(b)'
    BY DEF Logged
  <2> QED
    BY <1>2, <2>1, <2>2 DEF IInv, CommitInv, PlaceInv
<1> QED
  BY <1>3, <1>5, <1>6, <1>7, <1>9, <1>10 DEF IInv

LEMMA CommittedIInv ==
  ASSUME IInv, NEW t \in Thread, committed(t)
  PROVE  IInv'
<1> USE DEF committed, disks, buffers, Awake
<1>1. t \in Committing
  BY DEF Committing
<1>2. boot = "up" /\ Active = {} /\ \A u \in Thread \ {t} : u \notin Committing
  BY <1>1, Committer
<1>3. TypeOK'
  BY DEF IInv, TypeOK
<1>4. Active' = Active /\ Reserve' = Reserve
  <2>1. \A u \in Thread : pc'[u] = "op" <=> pc[u] = "op"
    BY DEF IInv, TypeOK
  <2> QED
    BY <2>1, SameCalls
<1>5. Committing' = {}
  BY <1>2 DEF Committing, IInv, TypeOK
<1>6. CommitAlone'
  BY <1>4, <1>5 DEF IInv, CommitAlone
<1>7. SpaceInv'
  BY <1>4 DEF IInv, SpaceInv, Logged
<1>8. NoRepeat(lh)' /\ NoRepeat(header)' /\ BootInv' /\ DirtyIsCached'
  BY <1>2 DEF IInv, NoRepeat, BootInv, DirtyIsCached, Logged
<1>9. CommitInv'
  <2>1. \A u \in Thread : pc'[u] \notin {"write_log", "write_head", "install", "erase", "committed"}
    BY <1>5 DEF Committing
  <2>2. \A u \in Thread : pc[u] \notin {"install", "erase"}
    BY <1>2 DEF Committing
  <2>3. header = <<>> /\ \A b \in Block : Logged(b) => b \in pinned
    BY <1>2, <2>2 DEF IInv, CommitInv, PlaceInv
  <2> QED
    BY <1>2, <2>1, <2>3 DEF IInv, CommitInv, PlaceInv, Logged
<1> QED
  BY <1>3, <1>6, <1>7, <1>8, <1>9 DEF IInv

\* bget() recycles a buffer whose contents are on the disk.
LEMMA RecycleIInv ==
  ASSUME IInv, NEW b \in Block, Recycle(b)
  PROVE  IInv' /\ \A c \in Block : bread(c)' = bread(c)
<1> USE DEF Recycle, disks, calls
<1>1. TypeOK'
  BY DEF IInv, TypeOK
<1>2. Active' = Active /\ Reserve' = Reserve /\ Committing' = Committing
  BY SameCalls DEF Committing
<1>3. CommitAlone' /\ SpaceInv' /\ NoRepeat(lh)' /\ NoRepeat(header)' /\ BootInv'
  <2>1. CommitAlone' /\ SpaceInv'
    BY <1>2 DEF IInv, CommitAlone, SpaceInv, Logged
  <2>2. NoRepeat(lh)' /\ NoRepeat(header)'
    BY DEF IInv, NoRepeat
  <2> QED
    BY <2>1, <2>2 DEF BootInv
<1>4. cache[b] = disk[b]
  BY DEF IInv, DirtyIsCached
<1>5. \A c \in Block : bread(c)' = bread(c)
  BY <1>4 DEF bread, IInv, TypeOK
<1>6. DirtyIsCached'
  BY DEF IInv, TypeOK, DirtyIsCached, Logged
<1>7. CommitInv'
  <2>1. \A i \in 1 .. Len(lh) : lh[i] \in Block /\ bread(lh[i])' = bread(lh[i])
    BY <1>5 DEF IInv, TypeOK
  <2>2. \A c \in pinned : cache'[c] # NoBuf
    BY DEF IInv, TypeOK, CommitInv, PlaceInv
  <2> QED
    BY <2>1, <2>2 DEF IInv, CommitInv, PlaceInv, Logged
<1> QED
  BY <1>1, <1>3, <1>5, <1>6, <1>7 DEF IInv

\* A crash leaves nothing but the disk, whose header still fits and repeats no
\* block.
LEMMA CrashIInv ==
  ASSUME IInv, Crash
  PROVE  IInv'
<1> USE DEF Crash, disks
<1>1. TypeOK'
  <2>1. tail' \in 1 .. LOGBLOCKS /\ outstanding' \in Nat
    BY LogAssumption
  <2>2. crashes' \in Nat /\ lh' \in Seq(Block) /\ pinned' \subseteq Block
    BY DEF IInv, TypeOK
  <2> QED
    BY <2>1, <2>2 DEF IInv, TypeOK
<1>2. Active' = {} /\ Reserve' = {} /\ Committing' = {}
  BY DEF Active, Reserve, Committing
<1>3. CommitAlone'
  BY <1>2, FS_EmptySet DEF CommitAlone
<1>4. SpaceInv'
  BY <1>2, FS_EmptySet, LogAssumption DEF IInv, SpaceInv
<1>5. NoRepeat(lh)' /\ NoRepeat(header)'
  BY DEF IInv, NoRepeat
<1>6. BootInv' /\ CommitInv'
  BY DEF BootInv, CommitInv
<1>7. DirtyIsCached'
  BY DEF DirtyIsCached
<1> QED
  BY <1>1, <1>3, <1>4, <1>5, <1>6, <1>7 DEF IInv

\* recover_from_log(): it may itself be cut short by a crash at any step.
LEMMA RecoveryIInv ==
  ASSUME IInv, Recovery
  PROVE  IInv'
<1> USE DEF calls
<1>1. UNCHANGED <<pc, dirty, outstanding, committing>> /\ boot # "up"
  BY DEF Recovery, read_head, recover, clear
<1>2. \A t \in Thread : pc[t] = "idle"
  BY <1>1 DEF IInv, BootInv
<1>3. Active = {} /\ Reserve = {} /\ Cardinality(Reserve) = 0
  BY <1>2, NoCalls
<1>4. Active' = Active /\ Reserve' = Reserve /\ Committing' = Committing
  BY <1>1, SameCalls DEF Committing
<1>5. CommitAlone'
  BY <1>1, <1>4 DEF IInv, CommitAlone
<1>6. lh' \in {<<>>, lh, header} /\ header' \in {<<>>, header}
  BY DEF Recovery, read_head, recover, clear, disks
<1>7. SpaceInv' /\ NoRepeat(lh)' /\ NoRepeat(header)'
  BY <1>1, <1>3, <1>4, <1>6, LogFits, LogAssumption DEF IInv, SpaceInv, NoRepeat
<1>8. CASE read_head
  <2> USE <1>8 DEF read_head, disks, buffers
  <2>1. TypeOK'
    BY LogAssumption DEF IInv, TypeOK
  <2>2. BootInv'
    BY DEF IInv, TypeOK, BootInv
  <2>3. CommitInv' /\ DirtyIsCached'
    BY <1>1 DEF IInv, BootInv, CommitInv, PlaceInv, DirtyIsCached
  <2> QED
    BY <1>5, <1>7, <2>1, <2>2, <2>3 DEF IInv
<1>9. CASE recover
  <2> USE <1>9 DEF recover
  <2>1. tail \in 1 .. Len(lh) /\ Len(lh) <= LOGBLOCKS /\ lh = header
    BY LogFits DEF IInv, TypeOK, BootInv
  <2>2. lh[tail] \in Block /\ logblk[tail] \in Value
    <3>1. tail \in 1 .. LOGBLOCKS /\ lh \in Seq(Block) /\ logblk \in [1 .. LOGBLOCKS -> Value]
      BY DEF IInv, TypeOK
    <3> QED
      BY <2>1, <3>1
  <2>3. TypeOK'
    BY <2>1, <2>2, LogAssumption DEF IInv, TypeOK
  <2>4. \A b \in Block : cache'[b] \in {NoBuf, disk'[b]}
    BY <2>2 DEF IInv, TypeOK, BootInv
  <2>5. \A i \in 1 .. Len(lh) : i <= tail => disk'[lh[i]] = logblk[i]
    <3>1. \A i \in 1 .. Len(lh) : i < tail => lh[i] # lh[tail] /\ disk[lh[i]] = logblk[i]
      BY <2>1 DEF IInv, BootInv, NoRepeat
    <3> QED
      BY <2>1, <2>2, <3>1 DEF IInv, TypeOK
  <2>6. BootInv'
    BY <1>1, <1>2, <2>1, <2>4, <2>5 DEF IInv, BootInv
  <2>7. CommitInv' /\ DirtyIsCached'
    BY <1>1, <2>4 DEF IInv, CommitInv, PlaceInv, DirtyIsCached
  <2> QED
    BY <1>5, <1>7, <2>3, <2>6, <2>7 DEF IInv
<1>10. CASE clear
  <2> USE <1>10 DEF clear, buffers
  <2>1. TypeOK'
    BY DEF IInv, TypeOK
  <2>2. BootInv' /\ DirtyIsCached'
    BY <1>1 DEF IInv, BootInv, DirtyIsCached
  <2>3. CommitInv'
    <3>1. pinned' = {} /\ \A b \in Block : ~Logged(b)'
      BY <1>1 DEF IInv, BootInv, Logged
    <3> QED
      BY <1>1, <1>2, <3>1 DEF CommitInv, PlaceInv
  <2> QED
    BY <1>5, <1>7, <2>1, <2>2, <2>3 DEF IInv
<1> QED
  BY <1>8, <1>9, <1>10 DEF Recovery

\* Every step preserves the invariant.
LEMMA NextIInv ==
  ASSUME IInv, [Next]_vars
  PROVE  IInv'
<1>1. CASE UNCHANGED vars
  <2> USE <1>1 DEF vars
  <2>1. Active' = Active /\ Reserve' = Reserve /\ Committing' = Committing
    BY DEF Active, Reserve, Committing
  <2>2. TypeOK' /\ CommitAlone' /\ SpaceInv' /\ NoRepeat(lh)' /\ NoRepeat(header)'
    <3>1. TypeOK'
      BY DEF IInv, TypeOK
    <3>2. CommitAlone' /\ SpaceInv'
      BY <2>1 DEF IInv, CommitAlone, SpaceInv, Logged
    <3>3. NoRepeat(lh)' /\ NoRepeat(header)'
      BY DEF IInv, NoRepeat
    <3> QED
      BY <3>1, <3>2, <3>3
  <2>3. BootInv' /\ CommitInv' /\ DirtyIsCached'
    <3>1. BootInv'
      BY DEF IInv, BootInv
    <3>2. CommitInv'
      BY DEF IInv, CommitInv, PlaceInv, Logged, bread
    <3>3. DirtyIsCached'
      BY DEF IInv, DirtyIsCached, Logged
    <3> QED
      BY <3>1, <3>2, <3>3
  <2> QED
    BY <2>2, <2>3 DEF IInv
<1>2. CASE \E t \in Thread : Call(t)
  BY <1>2, CallIInv
<1>3. CASE \E t \in Thread : Step(t)
  BY <1>3, BeginIInv, EndIInv, WriteLogIInv, WriteHeadIInv, InstallIInv, EraseIInv,
     CommittedIInv DEF Step
<1>4. CASE \E t \in Thread, b \in Block, v \in Value : log_write(t, b, v)
  BY <1>4, LogWriteIInv
<1>5. CASE (\E b \in Block : Recycle(b)) \/ Crash \/ Recovery
  BY <1>5, RecycleIInv, CrashIInv, RecoveryIInv
<1> QED
  BY <1>1, <1>2, <1>3, <1>4, <1>5 DEF Next, Rest

\* The invariant of log.c holds in every state of every behaviour.
THEOREM LogInvariant == Spec => []IInv
<1>1. IInv /\ [Next]_vars => IInv'
  BY NextIInv
<1> QED
  BY <1>1, InitIInv, PTL DEF Spec

\* log_write() and end_op() never panic: the log never overflows while calls
\* are in progress, whatever the number of threads and the size of the log.
THEOREM LogWriteSafeAlways == Spec => []LogWriteSafe
<1>1. IInv => LogWriteSafe
  <2> SUFFICES ASSUME IInv, NEW t \in Active
               PROVE  Len(lh) < LOGBLOCKS /\ outstanding > 0 /\ ~committing
    BY DEF LogWriteSafe
  <2>1. outstanding > 0 /\ ~committing
    <3>1. outstanding \in Nat /\ outstanding # 0
      BY ThreadsFinite, ReserveOfActive DEF IInv, CommitAlone, TypeOK
    <3> QED
      BY <3>1 DEF IInv, CommitAlone
  <2>2. Cardinality(dirty[t]) \in Nat /\ Cardinality(dirty[t]) <= OpBlocks
    BY LogAssumption, FS_Subset, FS_CardinalityType DEF IInv, TypeOK, SpaceInv, Active
  <2>3. <<t, OpBlocks>> \in Reserve
    BY <2>2, LogAssumption DEF Reserve, Active
  <2>4. Cardinality(Reserve) \in Nat /\ Cardinality(Reserve) # 0
    BY <2>3, ReserveOfActive, ReserveBound, FS_EmptySet
  <2>5. Len(lh) < LOGBLOCKS
    BY <2>4, LogAssumption DEF IInv, SpaceInv, TypeOK
  <2> QED
    BY <2>1, <2>5
<1> QED
  BY <1>1, LogInvariant, PTL

\* commit() runs in one thread at a time and while no call is in progress.
THEOREM CommitAloneAlways == Spec => []CommitAlone
<1>1. IInv => CommitAlone
  BY DEF IInv
<1> QED
  BY <1>1, LogInvariant, PTL
-----------------------------------------------------------------------------
\* What recovery makes of a block in the header, and of a disk on which the
\* blocks of the header are all at home.
LEMMA RecoveredLogged ==
  ASSUME NEW h, NEW l, NEW d, NoRepeat(h), NEW i \in 1 .. Len(h), h[i] \in Block
  PROVE  Recovered(h, l, d)[h[i]] = l[i]
<1>1. (CHOOSE j \in 1 .. Len(h) : h[j] = h[i]) = i
  BY DEF NoRepeat
<1> QED
  BY <1>1 DEF Recovered

LEMMA RecoveredIsDisk ==
  ASSUME NEW h, NEW l, NEW d \in [Block -> Value], NoRepeat(h),
         \A i \in 1 .. Len(h) : h[i] \in Block /\ d[h[i]] = l[i]
  PROVE  Recovered(h, l, d) = d
<1> SUFFICES ASSUME NEW b \in Block PROVE Recovered(h, l, d)[b] = d[b]
  BY DEF Recovered
<1>1. CASE \E i \in 1 .. Len(h) : h[i] = b
  BY <1>1, RecoveredLogged
<1>2. CASE \A i \in 1 .. Len(h) : h[i] # b
  BY <1>2 DEF Recovered
<1> QED
  BY <1>1, <1>2

\* Writing a block of the header home does not change it.
LEMMA RecoveredInstall ==
  ASSUME NEW h, NEW l, NEW d \in [Block -> Value], NEW e, NEW v,
         NEW i \in 1 .. Len(h), h[i] \in Block, e = [d EXCEPT ![h[i]] = v]
  PROVE  Recovered(h, l, e) = Recovered(h, l, d)
  BY DEF Recovered

\* Before write_head() and after the log is erased the header is empty.
LEMMA HeaderEmpty ==
  ASSUME IInv, boot = "up", NEW t \in Thread, pc[t] \in {"op", "write_log", "write_head"}
  PROVE  header = <<>>
<1>1. \A u \in Thread : pc[u] \notin {"install", "erase"}
  <2>1. CASE pc[t] = "op"
    <3>1. outstanding # 0
      BY <2>1, ThreadsFinite, ReserveOfActive DEF IInv, CommitAlone, TypeOK, Active
    <3> QED
      BY <3>1 DEF IInv, CommitAlone, Committing
  <2>2. CASE pc[t] # "op"
    BY <2>2 DEF IInv, CommitAlone, Committing
  <2> QED
    BY <2>1, <2>2
<1> QED
  BY <1>1 DEF IInv, CommitInv

\* A step that changes none of what the two mappings look at.
LEMMA SameBars ==
  ASSUME UNCHANGED <<disk, cache, header>>, header = <<>> \/ logblk' = logblk,
         boot' = boot \/ (boot # "up" /\ boot' # "up")
  PROVE  savedBar' = savedBar /\ curBar' = curBar
<1>1. disk' = disk /\ cache' = cache /\ header' = header
  OBVIOUS
<1>2. ASSUME header = <<>> PROVE savedBar' = savedBar
  <2>1. \A b \in Block : ~(\E i \in 1 .. Len(header) : header[i] = b)
    BY <1>2
  <2>2. savedBar = [b \in Block |-> disk[b]]
    BY <2>1 DEF savedBar, Recovered
  <2>3. savedBar' = [b \in Block |-> disk'[b]]
    BY <1>1, <2>1 DEF savedBar, Recovered
  <2> QED
    BY <1>1, <2>2, <2>3
<1>3. ASSUME logblk' = logblk PROVE savedBar' = savedBar
  BY <1>1, <1>3 DEF savedBar, Recovered
<1>4. savedBar' = savedBar
  BY <1>2, <1>3
<1> QED
  BY <1>1, <1>4 DEF curBar, bread

\* A call is started, makes a write or ends: the same step of AtomicDisk.
LEMMA CallStepAtomic ==
  ASSUME IInv, NEW t \in Thread,
         begin_op(t) \/ end_op(t) \/ \E b \in Block, v \in Value : log_write(t, b, v)
  PROVE  AD!Next \/ UNCHANGED <<curBar, savedBar, outstanding>>
<1>1. CASE begin_op(t)
  <2>1. savedBar' = savedBar /\ curBar' = curBar
    BY <1>1, SameBars DEF begin_op, disks, buffers
  <2> QED
    BY <1>1, <2>1 DEF begin_op, AD!Next, AD!Begin
<1>2. ASSUME pc[t] = "op" PROVE outstanding > 0 /\ boot = "up"
  <2>1. t \in Active /\ outstanding \in Nat
    BY <1>2 DEF Active, IInv, TypeOK
  <2>2. outstanding # 0
    BY <2>1, ThreadsFinite, ReserveOfActive DEF IInv, CommitAlone
  <2>3. BootInv
    BY DEF IInv
  <2> QED
    BY <1>2, <2>1, <2>2, <2>3 DEF BootInv
<1>3. CASE end_op(t)
  <2>1. savedBar' = savedBar /\ curBar' = curBar
    BY <1>3, SameBars DEF end_op, disks, buffers
  <2> QED
    BY <1>2, <1>3, <2>1 DEF end_op, AD!Next, AD!End
<1>4. ASSUME NEW b \in Block, NEW v \in Value, log_write(t, b, v)
      PROVE  AD!Write(b, v)
  <2>1. savedBar' = savedBar /\ outstanding' = outstanding
    <3>1. UNCHANGED <<header, logblk, disk, outstanding>>
      BY <1>4 DEF log_write, disks
    <3> QED
      BY <3>1 DEF savedBar
  <2>2. boot = "up" /\ boot' = "up" /\ outstanding > 0
    BY <1>2, <1>4 DEF log_write
  <2>3. \A c \in Block : bread(c)' = IF c = b THEN v ELSE bread(c)
    <3>1. \A c \in Block : cache'[c] = IF c = b THEN v ELSE cache[c]
      BY <1>4 DEF log_write, IInv, TypeOK
    <3>2. disk' = disk /\ v # NoBuf
      BY <1>4, LogAssumption DEF log_write, disks
    <3> QED
      BY <3>1, <3>2 DEF bread
  <2>4. curBar' = [curBar EXCEPT ![b] = v]
    BY <2>2, <2>3 DEF curBar
  <2> QED
    BY <2>1, <2>2, <2>4 DEF AD!Write
<1> QED
  BY <1>1, <1>3, <1>4 DEF AD!Next

\* write_head() is where the calls of the transaction become durable.
LEMMA WriteHeadAtomic ==
  ASSUME IInv, NEW t \in Thread, write_head(t)
  PROVE  AD!Commit
<1>1. boot = "up" /\ boot' = "up" /\ outstanding = 0 /\ outstanding' = outstanding
  BY DEF write_head, IInv, BootInv, CommitAlone, Committing
<1>2. \A b \in Block : Recovered(lh, logblk, disk)[b] = bread(b)
  <2> SUFFICES ASSUME NEW b \in Block PROVE Recovered(lh, logblk, disk)[b] = bread(b)
    OBVIOUS
  <2>1. CASE Logged(b)
    <3>1. PICK i \in 1 .. Len(lh) : lh[i] = b
      BY <2>1 DEF Logged
    <3>2. logblk[i] = bread(lh[i])
      BY <1>1 DEF write_head, IInv, CommitInv, PlaceInv
    <3> QED
      BY <3>1, <3>2, RecoveredLogged DEF IInv
  <2>2. CASE ~Logged(b)
    <3>1. bread(b) = disk[b]
      BY <2>2 DEF bread, IInv, DirtyIsCached
    <3> QED
      BY <2>2, <3>1 DEF Recovered, Logged
  <2> QED
    BY <2>1, <2>2
<1>3. savedBar' = Recovered(lh, logblk, disk)
  BY DEF write_head, savedBar, Recovered
<1>4. curBar = [b \in Block |-> bread(b)] /\ curBar' = curBar
  BY <1>1 DEF write_head, curBar, bread, buffers
<1>5. savedBar' = curBar
  BY <1>2, <1>3, <1>4 DEF Recovered
<1> QED
  BY <1>1, <1>4, <1>5 DEF AD!Commit

\* The rest of commit() changes neither what calls read nor what a crash keeps.
LEMMA CommitStepAtomic ==
  ASSUME IInv, NEW t \in Thread,
         write_log(t) \/ install_trans(t) \/ erase(t) \/ committed(t)
  PROVE  UNCHANGED <<curBar, savedBar, outstanding>>
<1>1. boot = "up"
  BY DEF write_log, install_trans, erase, committed, IInv, BootInv
<1>2. CASE write_log(t)
  <2>1. header = <<>>
    BY <1>1, <1>2, HeaderEmpty DEF write_log
  <2> QED
    BY <1>2, <2>1, SameBars DEF write_log, buffers
<1>3. CASE install_trans(t)
  <2>1. /\ header = lh /\ tail \in 1 .. Len(lh) /\ lh[tail] \in Block
        /\ tail \in 1 .. LOGBLOCKS
    BY <1>1, <1>3 DEF install_trans, IInv, TypeOK, CommitInv, PlaceInv
  <2>2. savedBar' = savedBar
    <3>1. /\ header' = header /\ logblk' = logblk /\ disk \in [Block -> Value]
          /\ tail \in 1 .. Len(header) /\ header[tail] \in Block
          /\ disk' = [disk EXCEPT ![header[tail]] = logblk[tail]]
      BY <1>3, <2>1 DEF install_trans, IInv, TypeOK
    <3>2. Recovered(header, logblk, disk') = Recovered(header, logblk, disk)
      BY <3>1, RecoveredInstall
    <3> QED
      BY <3>1, <3>2 DEF savedBar
  <2>3. bread(lh[tail]) = logblk[tail] /\ logblk[tail] # NoBuf
    <3>1. logblk[tail] \in Value
      BY <2>1 DEF IInv, TypeOK
    <3>2. PlaceInv(t) /\ pc[t] = "install"
      BY <1>1, <1>3 DEF install_trans, IInv, CommitInv
    <3>3. bread(lh[tail]) = logblk[tail]
      BY <2>1, <3>2 DEF PlaceInv
    <3> QED
      BY <3>1, <3>3, LogAssumption
  <2>4. \A c \in Block : bread(c)' = bread(c)
    <3>1. \A c \in Block : /\ cache'[c] = IF c = lh[tail] THEN logblk[tail] ELSE cache[c]
                           /\ disk'[c] = IF c = lh[tail] THEN logblk[tail] ELSE disk[c]
      BY <1>3, <2>1 DEF install_trans, IInv, TypeOK
    <3> QED
      BY <2>3, <3>1 DEF bread
  <2>5. curBar' = curBar
    BY <1>1, <1>3, <2>4 DEF install_trans, curBar
  <2> QED
    BY <1>3, <2>2, <2>5 DEF install_trans
<1>4. CASE erase(t)
  <2>1. /\ header = lh /\ NoRepeat(header)
        /\ \A i \in 1 .. Len(lh) : lh[i] \in Block /\ disk[lh[i]] = logblk[i]
    BY <1>1, <1>4 DEF erase, IInv, TypeOK, CommitInv, PlaceInv
  <2>2. savedBar = disk
    BY <2>1, RecoveredIsDisk DEF savedBar, IInv, TypeOK
  <2>3. savedBar' = disk
    BY <1>4, RecoveredIsDisk DEF erase, savedBar, Recovered, IInv, TypeOK
  <2> QED
    BY <1>1, <1>4, <2>2, <2>3 DEF erase, curBar, bread, buffers
<1>5. CASE committed(t)
  BY <1>5, SameBars DEF committed, disks, buffers
<1> QED
  BY <1>2, <1>3, <1>4, <1>5

\* Recovery does not either: until it is done, calls would read what it makes.
LEMMA RecoveryAtomic ==
  ASSUME IInv, Recovery
  PROVE  UNCHANGED <<curBar, savedBar, outstanding>>
<1>1. CASE read_head
  BY <1>1, SameBars DEF read_head, disks, buffers
<1>2. CASE recover
  <2>1. header = lh /\ tail \in 1 .. Len(lh) /\ lh[tail] \in Block
    BY <1>2 DEF recover, IInv, TypeOK, BootInv
  <2>2. savedBar' = savedBar
    <3>1. /\ header' = header /\ logblk' = logblk /\ disk \in [Block -> Value]
          /\ tail \in 1 .. Len(header) /\ header[tail] \in Block
          /\ disk' = [disk EXCEPT ![header[tail]] = logblk[tail]]
      BY <1>2, <2>1 DEF recover, IInv, TypeOK
    <3>2. Recovered(header, logblk, disk') = Recovered(header, logblk, disk)
      BY <3>1, RecoveredInstall
    <3> QED
      BY <3>1, <3>2 DEF savedBar
  <2> QED
    BY <1>2, <2>2 DEF recover, curBar
<1>3. CASE clear
  <2>1. /\ header = lh /\ NoRepeat(header)
        /\ \A i \in 1 .. Len(lh) : lh[i] \in Block /\ disk[lh[i]] = logblk[i]
    BY <1>3 DEF clear, IInv, TypeOK, BootInv
  <2>2. savedBar = disk /\ curBar = disk
    BY <1>3, <2>1, RecoveredIsDisk DEF clear, curBar, savedBar, IInv, TypeOK
  <2>3. savedBar' = disk
    BY <1>3 DEF clear, savedBar, Recovered, IInv, TypeOK
  <2>4. \A b \in Block : bread(b)' = disk[b]
    BY <1>3 DEF clear, bread, buffers, IInv, BootInv
  <2>5. curBar' = disk
    BY <1>3, <2>4 DEF clear, curBar, IInv, TypeOK
  <2> QED
    BY <1>3, <2>2, <2>3, <2>5 DEF clear
<1> QED
  BY <1>1, <1>2, <1>3 DEF Recovery

\* Nor does taking a buffer for another block: what it held is on the disk.
LEMMA RecycleAtomic ==
  ASSUME IInv, NEW b \in Block, Recycle(b)
  PROVE  UNCHANGED <<curBar, savedBar, outstanding>>
<1>1. savedBar' = savedBar
  BY DEF Recycle, disks, savedBar, Recovered
<1>2. cache[b] = disk[b] /\ disk' = disk
  BY DEF Recycle, disks, IInv, DirtyIsCached
<1>3. \A c \in Block : bread(c)' = bread(c)
  BY <1>2 DEF Recycle, bread, IInv, TypeOK
<1> QED
  BY <1>1, <1>3 DEF Recycle, curBar

\* The log over the buffer cache implements an atomic disk: whatever the number
\* of blocks, threads and crashes, and wherever a crash falls in commit() or in
\* recovery, the disk comes back with all the writes of the committed calls and
\* none of the others.
THEOREM LogIsCrashAtomic == Spec => CrashAtomic
<1>1. Init => AD!Init
  <2> SUFFICES ASSUME Init PROVE AD!Init
    OBVIOUS
  <2>1. savedBar = disk
    BY DEF Init, savedBar, Recovered
  <2> QED
    BY <2>1 DEF Init, AD!Init, curBar
<1>2. IInv /\ [Next]_vars => [AD!Next]_<<curBar, savedBar, outstanding>>
  <2> SUFFICES ASSUME IInv, [Next]_vars
               PROVE  AD!Next \/ UNCHANGED <<curBar, savedBar, outstanding>>
    OBVIOUS
  <2>1. ASSUME NEW t \in Thread, Call(t) \/ Step(t)
        PROVE  AD!Next \/ UNCHANGED <<curBar, savedBar, outstanding>>
    <3>1. CASE Call(t)
      BY <3>1, SameBars DEF Call, disks, buffers
    <3>2. CASE write_head(t)
      BY <3>2, WriteHeadAtomic DEF AD!Next
    <3>3. CASE begin_op(t) \/ end_op(t)
      BY <3>3, CallStepAtomic
    <3>4. CASE write_log(t) \/ install_trans(t) \/ erase(t) \/ committed(t)
      BY <3>4, CommitStepAtomic
    <3> QED
      BY <2>1, <3>1, <3>2, <3>3, <3>4 DEF Step
  <2>2. ASSUME NEW t \in Thread, NEW b \in Block, NEW v \in Value, log_write(t, b, v)
        PROVE  AD!Next \/ UNCHANGED <<curBar, savedBar, outstanding>>
    BY <2>2, CallStepAtomic
  <2>3. CASE \E b \in Block : Recycle(b)
    BY <2>3, RecycleAtomic
  <2>4. CASE Crash
    <3>1. savedBar' = savedBar
      BY <2>4 DEF Crash, disks, savedBar, Recovered
    <3> QED
      BY <2>4, <3>1 DEF Crash, curBar, AD!Next, AD!Crash
  <2>5. CASE Recovery
    BY <2>5, RecoveryAtomic
  <2>6. CASE UNCHANGED vars
    BY <2>6, SameBars DEF vars
  <2> QED
    BY <2>1, <2>2, <2>3, <2>4, <2>5, <2>6 DEF Next, Rest
<1> QED
  BY <1>1, <1>2, LogInvariant, PTL DEF Spec, CrashAtomic, AD!Spec
=============================================================================
