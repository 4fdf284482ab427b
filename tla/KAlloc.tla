------------------------------- MODULE KAlloc -------------------------------
(***************************************************************************)
(* The physical page allocator of kernel/kalloc.c: a free list and one     *)
(* reference count per page, both under kmem.lock.  Each action is one     *)
(* critical section of that lock.  kfree() has two: it drops the lock      *)
(* between taking the count to zero and pushing the page on the list.      *)
(*                                                                         *)
(* The clients (page tables, trapframes, kernel threads) are seen only as  *)
(* Holders of counted references.  A reference is counted from the         *)
(* critical section of kalloc() or inc_refcnt() that created it to the one *)
(* of kfree() that drops it.                                               *)
(***************************************************************************)
EXTENDS Naturals, FiniteSets

CONSTANTS
  Page,    \* physical pages between end and PHYSTOP
  Holder,  \* places that can hold one counted reference each
  Thread,  \* kernel threads that may be inside kfree()
  NoPage   \* the null pointer

ASSUME KAllocAssumption ==
  /\ IsFiniteSet(Holder)
  /\ NoPage \notin Page

VARIABLES
  refcnt,    \* kmem.refcnt
  freelist,  \* the pages on kmem.freelist (its order is not observable)
  held,      \* the page each Holder has a counted reference to
  pushing    \* the page a thread has taken to count 0 and not yet pushed

vars == <<refcnt, freelist, held, pushing>>

TypeOK ==
  /\ refcnt \in [Page -> Nat]
  /\ freelist \subseteq Page
  /\ held \in [Holder -> Page \cup {NoPage}]
  /\ pushing \in [Thread -> Page \cup {NoPage}]

Refs(pg) == {h \in Holder : held[h] = pg}

\* kinit(): freerange() gives every page count 1 and hands it to kfree(),
\* before any other code runs.
Init ==
  /\ refcnt = [pg \in Page |-> 0]
  /\ freelist = Page
  /\ held = [h \in Holder |-> NoPage]
  /\ pushing = [t \in Thread |-> NoPage]

\* Mutant: the count of a fresh page is left alone.
kalloc_no_count(r) ==
  /\ r \in freelist
  /\ freelist' = freelist \ {r}
  /\ UNCHANGED <<refcnt, pushing>>
  /\ \E h \in Holder : held[h] = NoPage /\ held' = [held EXCEPT ![h] = r]

\* kalloc(): pop a page and count its first reference in one critical section.
\* On an empty list it returns 0 and changes nothing.
kalloc(r) ==
  /\ r \in freelist
  /\ freelist' = freelist \ {r}
  /\ refcnt' = [refcnt EXCEPT ![r] = @ + 1]
  /\ UNCHANGED pushing
  /\ \E h \in Holder : held[h] = NoPage /\ held' = [held EXCEPT ![h] = r]

\* inc_refcnt(): a further reference to a page that somebody keeps referenced.
inc_refcnt(pa) ==
  /\ refcnt' = [refcnt EXCEPT ![pa] = @ + 1]
  /\ UNCHANGED <<freelist, pushing>>
  /\ Refs(pa) # {}
  /\ \E h \in Holder : held[h] = NoPage /\ held' = [held EXCEPT ![h] = pa]

\* kfree(), first critical section: drop the count; at zero go on to free.
kfree(t, pa) ==
  /\ refcnt' = [refcnt EXCEPT ![pa] = @ - 1]
  /\ pushing[t] = NoPage
  /\ pushing' = [pushing EXCEPT ![t] = IF refcnt[pa] = 1 THEN pa ELSE NoPage]
  /\ UNCHANGED freelist
  /\ \E h \in Refs(pa) : held' = [held EXCEPT ![h] = NoPage]

\* Mutant: the page is dropped instead of pushed.
kfree_push_lost(t) ==
  /\ pushing[t] # NoPage
  /\ pushing' = [pushing EXCEPT ![t] = NoPage]
  /\ UNCHANGED <<refcnt, held, freelist>>

\* kfree(), second critical section: push the page on the list.
kfree_push(t) ==
  /\ pushing[t] # NoPage
  /\ freelist' = freelist \cup {pushing[t]}
  /\ pushing' = [pushing EXCEPT ![t] = NoPage]
  /\ UNCHANGED <<refcnt, held>>

\* Clients move references between holders without calling the allocator
\* (a fresh page becomes a PTE, a PTE's page becomes kfree()'s argument).
Transfer ==
  /\ held' \in [Holder -> Page \cup {NoPage}]
  /\ \A pg \in Page : Cardinality(Refs(pg)') = Cardinality(Refs(pg))
  /\ UNCHANGED <<refcnt, freelist, pushing>>

Next ==
  \/ \E pa \in Page : kalloc(pa) \/ inc_refcnt(pa)
  \/ \E t \in Thread, pa \in Page : kfree(t, pa)
  \/ \E t \in Thread : kfree_push(t)
  \/ Transfer

Spec == Init /\ [][Next]_vars

-----------------------------------------------------------------------------
\* kmem.refcnt counts exactly the references that exist: kalloc(),
\* inc_refcnt() and kfree() never lose or invent one.
RefcntExact == \A pg \in Page : refcnt[pg] = Cardinality(Refs(pg))

\* A page that kalloc() may hand out, or that a thread inside kfree() is about
\* to push, is referenced by nobody, and no page is pushed twice.
FreeUnreferenced ==
  /\ \A pg \in freelist : Refs(pg) = {} /\ \A t \in Thread : pushing[t] # pg
  /\ \A t \in Thread : pushing[t] # NoPage =>
       /\ Refs(pushing[t]) = {}
       /\ \A u \in Thread : pushing[u] = pushing[t] => u = t

\* A page nobody references is on the list or on its way there: dropping the
\* lock in the middle of kfree() loses no page.
NoLeak ==
  \A pg \in Page :
    Refs(pg) = {} => pg \in freelist \/ \E t \in Thread : pushing[t] = pg

\* Both at once: a page is free, or being freed by exactly one thread, if and only
\* if nobody references it.
FreeIffUnreferenced == FreeUnreferenced /\ NoLeak

\* The inductive invariant behind the properties above.
IInv ==
  /\ TypeOK
  /\ RefcntExact
  /\ FreeUnreferenced
  /\ NoLeak
=============================================================================
