---------------------------- MODULE KAllocProofs ----------------------------
(***************************************************************************)
(* Proofs about KAlloc for every finite set of holders and any sets of     *)
(* pages and threads.                                                      *)
(***************************************************************************)
EXTENDS KAlloc, FiniteSetTheorems, TLAPS

USE DEF TypeOK

\* The set of holders of a page is finite, so its cardinality is a number
\* that is zero exactly when nobody references the page.
LEMMA RefsFinite ==
  ASSUME NEW pg
  PROVE  /\ IsFiniteSet(Refs(pg))
         /\ Cardinality(Refs(pg)) \in Nat
         /\ Cardinality(Refs(pg)) = 0 <=> Refs(pg) = {}
<1>1. IsFiniteSet(Refs(pg))
  BY KAllocAssumption, FS_Subset, Refs(pg) \in SUBSET Holder DEF Refs
<1> QED
  BY <1>1, FS_CardinalityType, FS_EmptySet

\* The same for the holders after a step.
LEMMA RefsFiniteNext ==
  ASSUME NEW pg
  PROVE  /\ IsFiniteSet(Refs(pg)')
         /\ Cardinality(Refs(pg)') \in Nat
         /\ Cardinality(Refs(pg)') = 0 <=> Refs(pg)' = {}
<1>1. IsFiniteSet(Refs(pg)')
  BY KAllocAssumption, FS_Subset, Refs(pg)' \in SUBSET Holder DEF Refs
<1> QED
  BY <1>1, FS_CardinalityType, FS_EmptySet

\* A holder that held nothing and now holds pg is one more reference to pg
\* and changes nothing for the other pages (kalloc(), inc_refcnt()).
LEMMA GainRef ==
  ASSUME TypeOK, NEW h \in Holder, NEW pg \in Page, held[h] = NoPage,
         held' = [held EXCEPT ![h] = pg]
  PROVE  /\ Cardinality(Refs(pg)') = Cardinality(Refs(pg)) + 1
         /\ Refs(pg)' # {}
         /\ \A o \in Page \ {pg} : Refs(o)' = Refs(o)
<1>1. Refs(pg)' = Refs(pg) \cup {h} /\ h \notin Refs(pg)
  BY KAllocAssumption DEF Refs
<1>2. \A o \in Page \ {pg} : Refs(o)' = Refs(o)
  BY KAllocAssumption DEF Refs
<1>3. IsFiniteSet(Refs(pg))
  BY RefsFinite
<1>4. Cardinality(Refs(pg) \cup {h}) = Cardinality(Refs(pg)) + 1
  BY <1>1, <1>3, FS_AddElement
<1>5. Cardinality(Refs(pg)') = Cardinality(Refs(pg)) + 1
  BY <1>1, <1>4
<1> QED
  BY <1>1, <1>2, <1>5

\* A holder of pg that lets go is one reference less to pg (kfree()).
LEMMA LoseRef ==
  ASSUME TypeOK, NEW h \in Holder, NEW pg \in Page, held[h] = pg,
         held' = [held EXCEPT ![h] = NoPage]
  PROVE  /\ Cardinality(Refs(pg)') = Cardinality(Refs(pg)) - 1
         /\ Refs(pg) # {}
         /\ \A o \in Page \ {pg} : Refs(o)' = Refs(o)
<1>1. Refs(pg)' = Refs(pg) \ {h} /\ h \in Refs(pg)
  BY KAllocAssumption DEF Refs
<1>2. \A o \in Page \ {pg} : Refs(o)' = Refs(o)
  BY KAllocAssumption DEF Refs
<1>3. IsFiniteSet(Refs(pg))
  BY RefsFinite
<1>4. Cardinality(Refs(pg) \ {h}) = Cardinality(Refs(pg)) - 1
  BY <1>1, <1>3, FS_RemoveElement
<1>5. Cardinality(Refs(pg)') = Cardinality(Refs(pg)) - 1
  BY <1>1, <1>4
<1> QED
  BY <1>1, <1>2, <1>5

\* kinit() establishes the invariant.
LEMMA InitIInv == Init => IInv
<1> SUFFICES ASSUME Init PROVE IInv
  OBVIOUS
<1>1. \A pg \in Page : Refs(pg) = {}
  BY KAllocAssumption DEF Init, Refs
<1>2. TypeOK
  BY DEF Init
<1>3. RefcntExact
  BY <1>1, FS_EmptySet DEF Init, RefcntExact
<1>4. FreeUnreferenced /\ NoLeak
  BY <1>1, KAllocAssumption DEF Init, FreeUnreferenced, NoLeak
<1> QED
  BY <1>2, <1>3, <1>4 DEF IInv

\* kalloc() preserves the invariant.
LEMMA KallocIInv ==
  ASSUME IInv, NEW r \in Page, kalloc(r)
  PROVE  IInv'
<1> USE KAllocAssumption DEF IInv
<1> PICK h \in Holder : held[h] = NoPage /\ held' = [held EXCEPT ![h] = r]
  BY DEF kalloc
<1>1. /\ r \in freelist /\ freelist' = freelist \ {r}
      /\ refcnt' = [refcnt EXCEPT ![r] = @ + 1]
      /\ UNCHANGED pushing
      /\ TypeOK'
  BY DEF kalloc
<1>2. /\ Cardinality(Refs(r)') = Cardinality(Refs(r)) + 1
      /\ Refs(r)' # {}
      /\ \A o \in Page \ {r} : Refs(o)' = Refs(o)
  BY GainRef
<1>3. RefcntExact'
  BY <1>1, <1>2 DEF RefcntExact
<1>4. FreeUnreferenced'
  BY <1>1, <1>2 DEF FreeUnreferenced
<1>5. NoLeak'
  BY <1>1, <1>2 DEF NoLeak
<1> QED
  BY <1>1, <1>3, <1>4, <1>5

\* inc_refcnt() preserves the invariant: its page is held, so it is neither on
\* the list nor being pushed.
LEMMA IncIInv ==
  ASSUME IInv, NEW pg \in Page, inc_refcnt(pg)
  PROVE  IInv'
<1> USE KAllocAssumption DEF IInv
<1> PICK h \in Holder : held[h] = NoPage /\ held' = [held EXCEPT ![h] = pg]
  BY DEF inc_refcnt
<1>1. /\ refcnt' = [refcnt EXCEPT ![pg] = @ + 1]
      /\ UNCHANGED <<freelist, pushing>>
  BY DEF inc_refcnt
<1>2. Refs(pg) # {}
  BY DEF inc_refcnt
<1>3. TypeOK'
  BY <1>1
<1>4. /\ Cardinality(Refs(pg)') = Cardinality(Refs(pg)) + 1
      /\ Refs(pg)' # {}
      /\ \A o \in Page \ {pg} : Refs(o)' = Refs(o)
  BY <1>1, GainRef
<1>5. RefcntExact'
  BY <1>1, <1>4 DEF RefcntExact
<1>6. pg \notin freelist /\ \A t \in Thread : pushing[t] # pg
  BY <1>1, <1>2 DEF FreeUnreferenced
<1>7. FreeUnreferenced'
  BY <1>1, <1>4, <1>6 DEF FreeUnreferenced
<1>8. NoLeak'
  BY <1>1, <1>4 DEF NoLeak
<1> QED
  BY <1>3, <1>5, <1>7, <1>8

\* The first half of kfree() preserves the invariant: the page is handed to
\* the second half exactly when its last reference went.
LEMMA KfreeIInv ==
  ASSUME IInv, NEW t \in Thread, NEW pg \in Page, kfree(t, pg)
  PROVE  IInv'
<1> USE KAllocAssumption DEF IInv
<1>2. PICK h \in Holder : held[h] = pg /\ held' = [held EXCEPT ![h] = NoPage]
  BY DEF kfree, Refs
<1>1. /\ refcnt' = [refcnt EXCEPT ![pg] = @ - 1]
      /\ pushing[t] = NoPage
      /\ pushing' = [pushing EXCEPT ![t] = IF refcnt[pg] = 1 THEN pg ELSE NoPage]
      /\ held' = [held EXCEPT ![h] = NoPage]
      /\ UNCHANGED freelist
  BY <1>2 DEF kfree
<1>3. /\ Cardinality(Refs(pg)') = Cardinality(Refs(pg)) - 1
      /\ Refs(pg) # {}
      /\ \A o \in Page \ {pg} : Refs(o)' = Refs(o)
  BY <1>1, <1>2, LoseRef
<1>4. refcnt[pg] = Cardinality(Refs(pg)) /\ refcnt[pg] \in Nat \ {0}
  BY <1>1, <1>3, RefsFinite DEF RefcntExact
<1>5. TypeOK'
  BY <1>1, <1>4
<1>6. RefcntExact'
  BY <1>1, <1>3, <1>4 DEF RefcntExact
<1>7. refcnt[pg] = 1 <=> Refs(pg)' = {}
  BY <1>3, <1>4, RefsFiniteNext
<1>8. pg \notin freelist /\ \A u \in Thread : pushing[u] # pg
  BY <1>1, <1>3 DEF FreeUnreferenced
<1>9. FreeUnreferenced'
  <2>1. ASSUME NEW q \in freelist'
        PROVE  Refs(q)' = {} /\ \A u \in Thread : pushing'[u] # q
    BY <1>1, <1>3, <1>8, <2>1 DEF FreeUnreferenced
  <2>2. ASSUME NEW u \in Thread, NEW q \in Page, pushing'[u] = q
        PROVE  Refs(q)' = {} /\ \A w \in Thread : pushing'[w] = q => w = u
    <3>1. CASE u = t
      BY <1>1, <1>7, <1>8, <2>2, <3>1
    <3>2. CASE u # t
      <4>1. pushing[u] = q /\ q # pg
        BY <1>1, <1>8, <2>2, <3>2
      <4>2. Refs(q)' = {}
        BY <1>3, <4>1 DEF FreeUnreferenced
      <4>3. ASSUME NEW w \in Thread, pushing'[w] = q PROVE w = u
        BY <1>1, <4>1, <4>3 DEF FreeUnreferenced
      <4> QED
        BY <4>2, <4>3
    <3> QED
      BY <3>1, <3>2
  <2>3. \A u \in Thread : pushing'[u] \in Page \cup {NoPage}
    BY <1>5
  <2>4. ASSUME NEW u \in Thread, pushing'[u] # NoPage
        PROVE  /\ Refs(pushing[u])' = {}
               /\ \A w \in Thread : pushing'[w] = pushing'[u] => w = u
    <3>1. PICK q \in Page : pushing'[u] = q
      BY <2>3, <2>4
    <3>2. Refs(pushing[u])' = Refs(q)'
      BY <3>1 DEF Refs
    <3> QED
      BY <2>2, <3>1, <3>2
  <2> QED
    BY <2>1, <2>4 DEF FreeUnreferenced
<1>10. NoLeak'
  <2> SUFFICES ASSUME NEW q \in Page, Refs(q)' = {}
               PROVE  q \in freelist' \/ \E u \in Thread : pushing'[u] = q
    BY DEF NoLeak
  <2>1. CASE q = pg
    BY <1>1, <1>7, <2>1
  <2>2. CASE q # pg
    <3>1. q \in freelist \/ \E u \in Thread : pushing[u] = q
      BY <1>3, <2>2 DEF NoLeak
    <3>2. ASSUME NEW u \in Thread, pushing[u] = q PROVE pushing'[u] = q
      BY <1>1, <3>2
    <3> QED
      BY <1>1, <3>1, <3>2
  <2> QED
    BY <2>1, <2>2
<1> QED
  BY <1>5, <1>6, <1>9, <1>10

\* The second half of kfree() preserves the invariant: only this thread was
\* pushing the page, and nobody references it.
LEMMA PushIInv ==
  ASSUME IInv, NEW t \in Thread, kfree_push(t)
  PROVE  IInv'
<1> USE KAllocAssumption DEF IInv
<1>1. /\ pushing[t] \in Page
      /\ freelist' = freelist \cup {pushing[t]}
      /\ pushing' = [pushing EXCEPT ![t] = NoPage]
      /\ UNCHANGED <<refcnt, held>>
  BY DEF kfree_push
<1>2. \A pg \in Page : Refs(pg)' = Refs(pg)
  BY <1>1 DEF Refs
<1>3. TypeOK'
  BY <1>1
<1>4. RefcntExact'
  BY <1>1, <1>2 DEF RefcntExact
<1>5. FreeUnreferenced'
  BY <1>1, <1>2 DEF FreeUnreferenced
<1>6. NoLeak'
  BY <1>1, <1>2 DEF NoLeak
<1> QED
  BY <1>3, <1>4, <1>5, <1>6

\* A client that moves references about without calling the allocator
\* preserves the invariant.
LEMMA TransferIInv ==
  ASSUME IInv, Transfer
  PROVE  IInv'
<1> USE KAllocAssumption DEF IInv
<1>1. \A pg \in Page : Refs(pg)' = {} <=> Refs(pg) = {}
  BY RefsFinite, RefsFiniteNext DEF Transfer
<1>2. TypeOK'
  BY DEF Transfer
<1>3. RefcntExact'
  BY DEF Transfer, RefcntExact
<1>4. FreeUnreferenced'
  BY <1>1 DEF Transfer, FreeUnreferenced
<1>5. NoLeak'
  BY <1>1 DEF Transfer, NoLeak
<1> QED
  BY <1>2, <1>3, <1>4, <1>5

\* The invariant is inductive.
LEMMA NextIInv == IInv /\ [Next]_vars => IInv'
<1> SUFFICES ASSUME IInv, [Next]_vars PROVE IInv'
  OBVIOUS
<1>1. CASE UNCHANGED vars
  <2>1. \A pg : Refs(pg)' = Refs(pg)
    BY <1>1 DEF vars, Refs
  <2> QED
    BY <1>1, <2>1 DEF vars, IInv, RefcntExact, FreeUnreferenced, NoLeak
<1> QED
  BY <1>1, KallocIInv, IncIInv, KfreeIInv, PushIInv, TransferIInv DEF Next

\* The invariant of the allocator holds in every reachable state.
THEOREM AllocatorInvariant == Spec => []IInv
BY InitIInv, NextIInv, PTL DEF Spec

\* kmem.refcnt counts exactly the references that exist, whatever the clients
\* do between kalloc(), inc_refcnt() and kfree().
THEOREM RefcntExactAlways == Spec => []RefcntExact
BY AllocatorInvariant, PTL DEF IInv

\* kalloc() never hands out a page that somebody still references, and no page
\* is freed twice.
THEOREM FreeUnreferencedAlways == Spec => []FreeUnreferenced
BY AllocatorInvariant, PTL DEF IInv

\* No page is lost in the window in which kfree() has dropped kmem.lock.
THEOREM NoLeakAlways == Spec => []NoLeak
BY AllocatorInvariant, PTL DEF IInv

\* Between the two critical sections of kfree() too, exactly the unreferenced
\* pages are free or on their way to the free list.
THEOREM FreeIffUnreferencedAlways == Spec => []FreeIffUnreferenced
BY FreeUnreferencedAlways, NoLeakAlways, PTL DEF FreeIffUnreferenced
=============================================================================
