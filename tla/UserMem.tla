------------------------------- MODULE UserMem -------------------------------
(***************************************************************************)
(* User memory: copy-on-write page tables over the page allocator          *)
(* (kernel/vm.c), and the system calls and traps that drive them: fork,    *)
(* exec, exit, wait, sbrk, page faults, copyin and copyout.                *)
(*                                                                         *)
(* Every process has one kernel thread.  A step is one critical section of *)
(* kmem.lock or one access to a shared physical page, together with the    *)
(* thread-private work around it; page tables are private to the thread    *)
(* that works on them.  A thread is a program counter, the label to return *)
(* to for each function it is in (none of them is entered twice), and the  *)
(* C locals that live across steps.                                        *)
(*                                                                         *)
(* Sizes are in bytes, page tables are indexed by virtual page number.     *)
(***************************************************************************)
EXTENDS Integers, Sequences, FiniteSets

CONSTANTS
  Page,      \* physical pages
  NoPage,    \* the null pointer
  Proc,      \* process table slots
  InitProc,  \* the slot userinit() fills
  PT,        \* identities for page tables
  NoPT,
  NPages,    \* bound: virtual pages below the trapframe
  PGSIZE,    \* bytes in a page
  PtBase,    \* page-table pages proc_pagetable() allocates
  PtSpan,    \* user pages that share a leaf page-table page
  Val,       \* values user code stores in a page
  Deltas,    \* arguments of sbrk()
  Segments,  \* the program exec() loads: a sequence of [end, w]
  Calls      \* the system calls this instance makes

ASSUME UserMemAssumption ==
  /\ InitProc \in Proc
  /\ NPages \in Nat \ {0} /\ PGSIZE \in Nat \ {0}
  /\ PtBase \in Nat \ {0} /\ PtSpan \in Nat \ {0}
  /\ Deltas \subseteq Int
  /\ NoPage \notin Page /\ NoPT \notin PT
  /\ IsFiniteSet(PT) /\ IsFiniteSet(Proc)

VARIABLES
  refcnt, freelist,  \* kmem
  mem,               \* what each physical page holds
  pte, ptp,          \* leaf PTEs and page-table pages of each page table
  state,             \* p->state, as far as memory is concerned
  pt, tf, sz,        \* p->pagetable, p->trapframe, p->sz
  th,                \* the kernel thread of each process
  panicked           \* the message of panic(), or "no"

kmem == <<refcnt, freelist>>
procs == <<state, pt, tf, sz>>
vars == <<refcnt, freelist, mem, pte, ptp, state, pt, tf, sz, th, panicked>>

USERSTACK == 1
Va == 0 .. NPages - 1
MaxSz == NPages * PGSIZE
PGROUNDUP(n) == (n + PGSIZE - 1) \div PGSIZE
TableOf(v) == PtBase + v \div PtSpan
TableIds == 0 .. TableOf(NPages - 1)
NoPte == [pa |-> NoPage, w |-> FALSE, u |-> FALSE, cow |-> FALSE]
Content == Val \cup {"zero", "junk", "image", "args"}
\* The program that exec() loads fits below the trapframe with its stack and guard.
ASSUME ProgramFits ==
  /\ Segments \in Seq([end : 0 .. MaxSz, w : BOOLEAN])
  /\ "exec" \in Calls =>
       \A n \in {0} \cup {Segments[i].end : i \in 1 .. Len(Segments)} :
         PGROUNDUP(n) + USERSTACK + 1 <= NPages

Smallest(S) == CHOOSE v \in S : \A w \in S : v <= w
Largest(S) == CHOOSE v \in S : \A w \in S : w <= v

\* Functions with more than one caller or with steps of their own; a thread that
\* is not in one has "out" for its return label.
Funcs == {"kfree", "map", "unmap", "freewalk", "newpt", "vmfault", "copyout", "copyin", "grow"}
NoRet == [f \in Funcs |-> "out"]

\* A thread with nothing going on in the kernel.
Idle(label) ==
  [pc |-> label, ret |-> NoRet, ok |-> TRUE, q |-> InitProc, t |-> NoPT,
   va |-> 0, end |-> 0, base |-> 0, a |-> 0, pa |-> NoPage, new |-> NoPage,
   fl |-> NoPte, sz |-> 0, rd |-> FALSE, x |-> "junk", seg |-> 0]

\* Call f; return from f, with a result; call g as the last thing f does.
Call(r, f, back) == [r EXCEPT !.pc = f, !.ret = [@ EXCEPT ![f] = back]]
Return(r, f) == [r EXCEPT !.pc = r.ret[f], !.ret = [@ EXCEPT ![f] = "out"]]
Result(r, f, ok) == [Return(r, f) EXCEPT !.ok = ok]
TailCall(r, f, g) == Call(Return(r, f), g, r.ret[f])
Set(p, r) == th' = [th EXCEPT ![p] = r]
At(p, label) == panicked = "no" /\ th[p].pc = label

Mapped(t, v) == pte[t][v].pa # NoPage
Tables(t) == {i \in TableIds : ptp[t][i] # NoPage}
MappedIn(t, from, to) == {v \in Va : from <= v /\ v < to /\ Mapped(t, v)}
Panic(msg) ==
  panicked' = msg /\ UNCHANGED <<kmem, mem, pte, ptp, procs, th>>
-----------------------------------------------------------------------------
\* kalloc(): r leaves the list with count 1.  The caller fills it.
kalloc(r) ==
  /\ freelist' = freelist \ {r}
  /\ refcnt' = [refcnt EXCEPT ![r] = @ + 1]

\* kfree(pa), first critical section.
kfree(p) ==
  LET r == th[p] IN
  /\ At(p, "kfree")
  /\ refcnt' = [refcnt EXCEPT ![r.pa] = @ - 1]
  /\ Set(p, IF refcnt[r.pa] = 1 THEN [r EXCEPT !.pc = "push"] ELSE Return(r, "kfree"))
  /\ UNCHANGED <<freelist, mem, pte, ptp, procs, panicked>>

\* kfree(pa), second part: fill the page with junk and push it.
push(p) ==
  LET r == th[p] IN
  /\ At(p, "push")
  /\ mem' = [mem EXCEPT ![r.pa] = "junk"]
  /\ freelist' = freelist \cup {r.pa}
  /\ Set(p, Return(r, "kfree"))
  /\ UNCHANGED <<refcnt, pte, ptp, procs, panicked>>
-----------------------------------------------------------------------------
\* mappages(t, va, pa, flags): walk() allocates the missing page-table page,
\* then the PTE is written, or is found to be in use.  Fails when walk() does.
mappages(p) ==
  LET r == th[p]
      i == TableOf(r.va) IN
  /\ At(p, "map")
  /\ \/ /\ ptp[r.t][i] = NoPage
        /\ \E g \in freelist : kalloc(g) /\ ptp' = [ptp EXCEPT ![r.t][i] = g]
        /\ UNCHANGED <<pte, th, panicked>>
     \/ /\ ptp[r.t][i] = NoPage /\ freelist = {}
        /\ Set(p, Result(r, "map", FALSE))
        /\ UNCHANGED <<kmem, pte, ptp, panicked>>
     \/ /\ ptp[r.t][i] # NoPage
        /\ IF Mapped(r.t, r.va)
           THEN panicked' = "mappages: remap" /\ UNCHANGED <<pte, th>>
           ELSE /\ pte' = [pte EXCEPT ![r.t][r.va] =
                     [r.fl EXCEPT !.pa = IF r.new # NoPage THEN r.new ELSE r.pa]]
                /\ Set(p, Result([r EXCEPT !.new = NoPage], "map", TRUE))
                /\ UNCHANGED panicked
        /\ UNCHANGED <<kmem, ptp>>
  /\ UNCHANGED <<mem, procs>>

\* uvmunmap(t, va, .., 1): free the next mapped page, or return.
uvmunmap(p) ==
  LET r == th[p]
      M == MappedIn(r.t, r.va, r.end) IN
  /\ At(p, "unmap")
  /\ Set(p, IF M = {} THEN Return(r, "unmap") ELSE
            LET v == Smallest(M) IN
            Call([r EXCEPT !.va = v, !.pa = pte[r.t][v].pa], "kfree", "unmapclr"))
  /\ UNCHANGED <<kmem, mem, pte, ptp, procs, panicked>>

\* uvmunmap(): *pte = 0, after kfree() has returned.
unmapclr(p) ==
  LET r == th[p] IN
  /\ At(p, "unmapclr")
  /\ pte' = [pte EXCEPT ![r.t][r.va] = NoPte]
  /\ Set(p, [r EXCEPT !.pc = "unmap"])
  /\ UNCHANGED <<kmem, mem, ptp, procs, panicked>>

\* freewalk(): free the page-table pages, the root (0) last; a leaf still
\* there is a panic.
freewalk(p) ==
  LET r == th[p]
      f == [r EXCEPT !.pa = ptp[r.t][Largest(Tables(r.t))]] IN
  /\ At(p, "freewalk")
  /\ panicked' = IF MappedIn(r.t, 0, NPages) # {} THEN "freewalk: leaf" ELSE "no"
  /\ ptp' = [ptp EXCEPT ![r.t][Largest(Tables(r.t))] = NoPage]
  /\ Set(p, IF Tables(r.t) = {0} THEN TailCall(f, "freewalk", "kfree")
            ELSE Call(f, "kfree", "freewalk"))
  /\ UNCHANGED <<kmem, mem, pte, procs>>

\* proc_freepagetable(t, size): unmap the user pages, then freewalk().
FreePageTable(r, t, size, back) ==
  Call(Call([r EXCEPT !.t = t, !.va = 0, !.end = PGROUNDUP(size)], "freewalk", back),
       "unmap", "freewalk")

\* A page table that uvmcreate() makes gets an identity not in use.
Fresh == LET F == {u \in PT : ptp[u][0] = NoPage} IN
         IF F = {} THEN {} ELSE {CHOOSE u \in F : TRUE}

\* proc_pagetable(): the root, then the tables down to the trampoline and the
\* trapframe; a later failure frees the earlier pages.
proc_pagetable(p) ==
  LET r == th[p]
      missing == {i \in 0 .. PtBase - 1 : r.t = NoPT \/ ptp[r.t][i] = NoPage} IN
  /\ At(p, "newpt")
  /\ \/ /\ missing # {}
        /\ \E g \in freelist, t \in IF r.t # NoPT THEN {r.t} ELSE Fresh :
             /\ kalloc(g)
             /\ ptp' = [ptp EXCEPT ![t][Smallest(missing)] = g]
             /\ Set(p, [r EXCEPT !.t = t])
     \/ /\ missing # {} /\ freelist = {}
        /\ Set(p, IF r.t = NoPT THEN Result(r, "newpt", FALSE)
                  ELSE TailCall([r EXCEPT !.ok = FALSE], "newpt", "freewalk"))
        /\ UNCHANGED <<kmem, ptp>>
     \/ /\ missing = {}
        /\ Set(p, Result(r, "newpt", TRUE))
        /\ UNCHANGED <<kmem, ptp>>
  /\ UNCHANGED <<mem, pte, procs, panicked>>
-----------------------------------------------------------------------------
\* vmfault(t, a, read): back a lazily allocated page with a zeroed one, or
\* give a write to a copy-on-write page its own copy.
vmfault(p) ==
  LET r == th[p]
      e == pte[r.t][r.va]
      lazy == r.a < sz[p] /\ ~Mapped(r.t, r.va)
      copy == r.a < sz[p] /\ Mapped(r.t, r.va) /\ ~r.rd /\ e.cow IN
  /\ At(p, "vmfault")
  /\ \/ /\ freelist = {} \/ ~(lazy \/ copy)
        /\ Set(p, Result(r, "vmfault", FALSE))
        /\ UNCHANGED <<kmem, mem>>
     \/ /\ lazy
        /\ \E g \in freelist :
             /\ kalloc(g)
             /\ mem' = [mem EXCEPT ![g] = "zero"]
             /\ Set(p, Call([r EXCEPT !.new = g,
                            !.fl = [NoPte EXCEPT !.w = TRUE, !.u = TRUE]],
                            "map", "vfmapped"))
     \/ /\ copy
        /\ \E g \in freelist :
             /\ kalloc(g)
             /\ Set(p, [r EXCEPT !.pc = "cowcopy", !.new = g, !.pa = e.pa])
        /\ UNCHANGED mem
  /\ UNCHANGED <<pte, ptp, procs, panicked>>

\* vmfault() after mappages(): on failure the fresh page is freed again.
vfmapped(p) ==
  LET r == th[p] IN
  /\ At(p, "vfmapped")
  /\ Set(p, IF r.ok THEN Return(r, "vmfault")
            ELSE TailCall([r EXCEPT !.pa = r.new, !.new = NoPage], "vmfault", "kfree"))
  /\ UNCHANGED <<kmem, mem, pte, ptp, procs, panicked>>

\* Mutants of cowcopy: the page is not copied; the shared page is not released.
cowcopy_no_memmove(p) ==
  LET r == th[p] IN
  /\ At(p, "cowcopy")
  /\ pte' = [pte EXCEPT ![r.t][r.va] =
                [@ EXCEPT !.pa = r.new, !.w = TRUE, !.cow = FALSE]]
  /\ Set(p, TailCall([r EXCEPT !.new = NoPage, !.ok = TRUE], "vmfault", "kfree"))
  /\ UNCHANGED <<kmem, mem, ptp, procs, panicked>>

cowcopy_no_kfree(p) ==
  LET r == th[p] IN
  /\ At(p, "cowcopy")
  /\ mem' = [mem EXCEPT ![r.new] = mem[r.pa]]
  /\ pte' = [pte EXCEPT ![r.t][r.va] =
                [@ EXCEPT !.pa = r.new, !.w = TRUE, !.cow = FALSE]]
  /\ Set(p, Result([r EXCEPT !.new = NoPage], "vmfault", TRUE))
  /\ UNCHANGED <<kmem, ptp, procs, panicked>>

\* vmfault(): copy the shared page, point the PTE at the copy, writable and
\* no longer copy-on-write, and drop the reference to the shared page.
cowcopy(p) ==
  LET r == th[p] IN
  /\ At(p, "cowcopy")
  /\ mem' = [mem EXCEPT ![r.new] = mem[r.pa]]
  /\ pte' = [pte EXCEPT ![r.t][r.va] =
                [@ EXCEPT !.pa = r.new, !.w = TRUE, !.cow = FALSE]]
  /\ Set(p, TailCall([r EXCEPT !.new = NoPage, !.ok = TRUE], "vmfault", "kfree"))
  /\ UNCHANGED <<kmem, ptp, procs, panicked>>

Vmfault(r, t, a, rd) ==
  [r EXCEPT !.t = t, !.a = a, !.va = a \div PGSIZE, !.rd = rd]

\* copyout() of x to page va of the caller: walkaddr(), else vmfault().
copyout(p) ==
  LET r == th[p]
      e == pte[pt[p]][r.va] IN
  /\ At(p, "copyout")
  /\ Set(p, IF e.pa # NoPage /\ e.u
            THEN [r EXCEPT !.pc = "co_cow", !.ok = TRUE]
            ELSE Call(Vmfault(r, pt[p], r.va * PGSIZE, FALSE), "vmfault", "co_cow"))
  /\ UNCHANGED <<kmem, mem, pte, ptp, procs, panicked>>

\* copyout(): a copy-on-write page is broken by a second vmfault().
co_cow(p) ==
  LET r == th[p] IN
  /\ At(p, "co_cow")
  /\ Set(p, IF ~r.ok THEN Return(r, "copyout")
            ELSE IF pte[pt[p]][r.va].cow
            THEN Call(Vmfault(r, pt[p], r.va * PGSIZE, FALSE), "vmfault", "co_write")
            ELSE [r EXCEPT !.pc = "co_write"])
  /\ UNCHANGED <<kmem, mem, pte, ptp, procs, panicked>>

\* copyout(): refuse a read-only page, else write.
co_write(p) ==
  LET r == th[p]
      e == pte[pt[p]][r.va] IN
  /\ At(p, "co_write")
  /\ Set(p, Result(r, "copyout", r.ok /\ e.w))
  /\ mem' = IF r.ok /\ e.w THEN [mem EXCEPT ![e.pa] = r.x] ELSE mem
  /\ UNCHANGED <<kmem, pte, ptp, procs, panicked>>

\* copyin() from page va of the caller: walkaddr(), else vmfault() as a write.
copyin(p) ==
  LET r == th[p]
      e == pte[pt[p]][r.va] IN
  /\ At(p, "copyin")
  /\ Set(p, IF e.pa # NoPage /\ e.u THEN Result(r, "copyin", TRUE)
            ELSE TailCall(Vmfault(r, pt[p], r.va * PGSIZE, FALSE), "copyin", "vmfault"))
  /\ UNCHANGED <<kmem, mem, pte, ptp, procs, panicked>>
-----------------------------------------------------------------------------
\* uvmalloc(t, ..): one zeroed page at a time; on failure uvmdealloc() takes
\* the new pages back.
uvmalloc(p) ==
  LET r == th[p] IN
  /\ At(p, "grow")
  /\ \/ /\ r.va >= r.end
        /\ Set(p, Result(r, "grow", TRUE))
        /\ UNCHANGED <<kmem, mem>>
     \/ /\ r.va < r.end /\ freelist = {}
        /\ Set(p, [r EXCEPT !.pc = "growfail"])
        /\ UNCHANGED <<kmem, mem>>
     \/ /\ r.va < r.end
        /\ \E g \in freelist :
             /\ kalloc(g)
             /\ mem' = [mem EXCEPT ![g] = "zero"]
             /\ Set(p, Call([r EXCEPT !.new = g], "map", "grownext"))
  /\ UNCHANGED <<pte, ptp, procs, panicked>>

\* uvmalloc() after mappages().
grownext(p) ==
  LET r == th[p] IN
  /\ At(p, "grownext")
  /\ Set(p, IF r.ok THEN [r EXCEPT !.pc = "grow", !.va = @ + 1]
            ELSE Call([r EXCEPT !.pa = r.new, !.new = NoPage], "kfree", "growfail"))
  /\ UNCHANGED <<kmem, mem, pte, ptp, procs, panicked>>

\* Mutant of growfail: try again instead of giving up.
growfail_retry(p) ==
  /\ At(p, "growfail")
  /\ Set(p, [th[p] EXCEPT !.pc = "grow"])
  /\ UNCHANGED <<kmem, mem, pte, ptp, procs, panicked>>

\* uvmalloc()'s error return through uvmdealloc().
growfail(p) ==
  LET r == th[p] IN
  /\ At(p, "growfail")
  /\ Set(p, TailCall([r EXCEPT !.va = r.base, !.end = r.va, !.ok = FALSE], "grow", "unmap"))
  /\ UNCHANGED <<kmem, mem, pte, ptp, procs, panicked>>

Uvmalloc(r, t, from, to, w, back) ==
  Call([r EXCEPT !.t = t, !.va = PGROUNDUP(from), !.base = PGROUNDUP(from),
                 !.end = PGROUNDUP(to),
                 !.fl = [NoPte EXCEPT !.w = w, !.u = TRUE]], "grow", back)
-----------------------------------------------------------------------------
\* User code stores x in page v through a writable user PTE.
UserStore(p, v, x) ==
  /\ At(p, "user")
  /\ Mapped(pt[p], v) /\ pte[pt[p]][v].u /\ pte[pt[p]][v].w
  /\ mem' = [mem EXCEPT ![pte[pt[p]][v].pa] = x]
  /\ UNCHANGED <<kmem, pte, ptp, procs, th, panicked>>

\* usertrap(): a load (rd) or store at byte a that the MMU refuses.
UserFault(p, a, rd) ==
  LET e == pte[pt[p]][a \div PGSIZE] IN
  /\ At(p, "user")
  /\ ~(e.pa # NoPage /\ e.u /\ (rd \/ e.w))
  /\ Set(p, Call(Vmfault(th[p], pt[p], a, rd), "vmfault", "trapret"))
  /\ UNCHANGED <<kmem, mem, pte, ptp, procs, panicked>>

\* kexit(): the process becomes a zombie; init must not exit.
kexit(p) ==
  IF p = InitProc
  THEN Panic("init exiting")
  ELSE /\ state' = [state EXCEPT ![p] = "zombie"]
       /\ Set(p, Idle("none"))
       /\ UNCHANGED <<kmem, mem, pte, ptp, pt, tf, sz, panicked>>

\* usertrap() after vmfault(): back to user code, or setkilled() and kexit().
trapret(p) ==
  /\ At(p, "trapret")
  /\ \/ /\ th[p].ok
        /\ Set(p, Idle("user"))
        /\ UNCHANGED <<kmem, mem, pte, ptp, procs, panicked>>
     \/ ~th[p].ok /\ kexit(p)

\* A system call returns to user code.
sysret(p) ==
  /\ At(p, "sysret")
  /\ Set(p, Idle("user"))
  /\ UNCHANGED <<kmem, mem, pte, ptp, procs, panicked>>

Exit(p) == "exit" \in Calls /\ At(p, "user") /\ p # InitProc /\ kexit(p)

\* A system call that copies x out to (or data in from) page v of its caller.
SysCopy(p, dir, v, x) ==
  /\ dir \in Calls /\ At(p, "user")
  /\ Set(p, Call([th[p] EXCEPT !.va = v, !.x = x], dir, "sysret"))
  /\ UNCHANGED <<kmem, mem, pte, ptp, procs, panicked>>

\* sys_sbrk() with SBRK_LAZY: only the size grows.
SbrkLazy(p, n) ==
  /\ "sbrklazy" \in Calls /\ At(p, "user")
  /\ n > 0 /\ sz[p] + n <= MaxSz
  /\ sz' = [sz EXCEPT ![p] = @ + n]
  /\ UNCHANGED <<kmem, mem, pte, ptp, state, pt, tf, th, panicked>>

\* growproc(n), where from and to are the pages uvmdealloc() unmaps.
Growproc(p, n, nsz, from, to) ==
  LET r == [th[p] EXCEPT !.sz = nsz] IN
  /\ "sbrk" \in Calls /\ At(p, "user")
  /\ nsz <= MaxSz
  /\ Set(p, IF n > 0 THEN Uvmalloc(r, pt[p], sz[p], nsz, TRUE, "growdone")
            ELSE Call([r EXCEPT !.t = pt[p], !.va = from, !.end = to],
                      "unmap", "growdone"))
  /\ UNCHANGED <<kmem, mem, pte, ptp, procs, panicked>>

\* A shrink below zero wraps around to a huge size, and uvmdealloc() then keeps
\* the old one.
NewSize(p, n) == IF sz[p] + n < 0 THEN sz[p] ELSE sz[p] + n

\* Mutant of growproc: a partly used page is kept.
growproc_keep(p, n) ==
  LET nsz == NewSize(p, n) IN
  Growproc(p, n, nsz, PGROUNDUP(nsz), sz[p] \div PGSIZE)

\* growproc(n): grow by uvmalloc(), or shrink by uvmdealloc().
growproc(p, n) ==
  LET nsz == NewSize(p, n) IN
  Growproc(p, n, nsz, PGROUNDUP(nsz), PGROUNDUP(sz[p]))

\* growproc(): p->sz = sz, unless uvmalloc() failed.
growdone(p) ==
  /\ At(p, "growdone")
  /\ sz' = IF th[p].ok THEN [sz EXCEPT ![p] = th[p].sz] ELSE sz
  /\ Set(p, Idle("user"))
  /\ UNCHANGED <<kmem, mem, pte, ptp, state, pt, tf, panicked>>
-----------------------------------------------------------------------------
\* allocproc(): take slot q and its trapframe page, then make a page table.
\* With no memory for the trapframe the slot is given back at once.
allocproc(p, q, back) ==
  /\ state[q] = "unused"
  /\ \E g \in freelist :
       /\ kalloc(g)
       /\ tf' = [tf EXCEPT ![q] = g]
  /\ state' = [state EXCEPT ![q] = "used"]
  /\ Set(p, Call([Idle("none") EXCEPT !.q = q], "newpt", back))
  /\ UNCHANGED <<mem, pte, ptp, pt, sz, panicked>>

\* userinit(): the first process, before any other exists.  It does not look at
\* what allocproc() returns: the kernel faults if that is 0.
userinit ==
  /\ At(InitProc, "none")
  /\ allocproc(InitProc, InitProc, "userinit")

userinitdone(p) ==
  /\ At(p, "userinit")
  /\ IF ~th[p].ok THEN Panic("kerneltrap") ELSE
     /\ pt' = [pt EXCEPT ![p] = th[p].t]
     /\ state' = [state EXCEPT ![p] = "live"]
     /\ Set(p, Idle("user"))
     /\ UNCHANGED <<kmem, mem, pte, ptp, tf, sz, panicked>>

\* kfork(): allocproc(), then uvmcopy().
kfork(p, q) == "fork" \in Calls /\ At(p, "user") /\ allocproc(p, q, "forkpt")

forkpt(p) ==
  LET r == th[p] IN
  /\ At(p, "forkpt")
  /\ pt' = IF r.ok THEN [pt EXCEPT ![r.q] = r.t] ELSE pt
  /\ Set(p, [r EXCEPT !.pc = IF r.ok THEN "ucopy" ELSE "freeproc"])
  /\ UNCHANGED <<kmem, mem, pte, ptp, state, tf, sz, panicked>>

\* Mutant of uvmcopy: only the child's PTE loses PTE_W.
uvmcopy_parent_w(p) ==
  LET r == th[p]
      M == MappedIn(pt[p], r.va, PGROUNDUP(sz[p]))
      e == pte[pt[p]][Smallest(M)] IN
  /\ At(p, "ucopy")
  /\ Set(p, IF M = {} THEN [r EXCEPT !.pc = "forkdone"]
            ELSE Call([r EXCEPT !.va = Smallest(M), !.pa = e.pa,
                        !.fl = [e EXCEPT !.w = FALSE, !.cow = e.w]], "map", "inc"))
  /\ UNCHANGED <<kmem, mem, pte, ptp, procs, panicked>>

\* uvmcopy(): the next mapped page of the parent.  A writable one becomes
\* copy-on-write; the child maps the same page with the same flags.
uvmcopy(p) ==
  LET r == th[p]
      M == MappedIn(pt[p], r.va, PGROUNDUP(sz[p]))
      v == Smallest(M)
      e == pte[pt[p]][v]
      f == IF e.w THEN [e EXCEPT !.w = FALSE, !.cow = TRUE] ELSE e IN
  /\ At(p, "ucopy")
  /\ IF M = {}
     THEN Set(p, [r EXCEPT !.pc = "forkdone"]) /\ UNCHANGED pte
     ELSE /\ pte' = [pte EXCEPT ![pt[p]][v] = f]
          /\ Set(p, Call([r EXCEPT !.va = v, !.pa = e.pa, !.fl = f], "map", "inc"))
  /\ UNCHANGED <<kmem, mem, ptp, procs, panicked>>

\* Mutant of inc: the error path unmaps nothing.
inc_no_unmap(p) ==
  LET r == th[p] IN
  /\ At(p, "inc")
  /\ refcnt' = IF r.ok THEN [refcnt EXCEPT ![r.pa] = @ + 1] ELSE refcnt
  /\ Set(p, IF r.ok THEN [r EXCEPT !.pc = "ucopy", !.va = @ + 1]
            ELSE [r EXCEPT !.pc = "freeproc"])
  /\ UNCHANGED <<freelist, mem, pte, ptp, procs, panicked>>

\* uvmcopy() after mappages(): inc_refcnt(), or unmap what was copied so far
\* and let kfork() free the child.
inc(p) ==
  LET r == th[p] IN
  /\ At(p, "inc")
  /\ refcnt' = IF r.ok THEN [refcnt EXCEPT ![r.pa] = @ + 1] ELSE refcnt
  /\ Set(p, IF r.ok THEN [r EXCEPT !.pc = "ucopy", !.va = @ + 1]
            ELSE Call([r EXCEPT !.va = 0, !.end = r.va], "unmap", "freeproc"))
  /\ UNCHANGED <<freelist, mem, pte, ptp, procs, panicked>>

\* kfork(): np->sz = p->sz, and the child is runnable.
forkdone(p) ==
  LET q == th[p].q IN
  /\ At(p, "forkdone")
  /\ sz' = [sz EXCEPT ![q] = sz[p]]
  /\ state' = [state EXCEPT ![q] = "live"]
  /\ th' = [th EXCEPT ![p] = Idle("user"), ![q] = Idle("user")]
  /\ UNCHANGED <<kmem, mem, pte, ptp, pt, tf, panicked>>
-----------------------------------------------------------------------------
\* kwait(addr): a zombie q nobody else has locked is freed.  With addr on page
\* v, q's exit status is copied out first, and a failed copy ends the call.
kwait(p, q, v) ==
  LET r == [th[p] EXCEPT !.q = q, !.va = v, !.x = "args"] IN
  /\ "wait" \in Calls /\ At(p, "user")
  /\ state[q] = "zombie"
  /\ \A o \in Proc : th[o].pc # "user" => th[o].q # q
  /\ \/ Set(p, [r EXCEPT !.pc = "freeproc"])
     \/ Set(p, Call(r, "copyout", "waited"))
  /\ UNCHANGED <<kmem, mem, pte, ptp, procs, panicked>>

waited(p) ==
  /\ At(p, "waited")
  /\ Set(p, IF th[p].ok THEN [th[p] EXCEPT !.pc = "freeproc"] ELSE Idle("user"))
  /\ UNCHANGED <<kmem, mem, pte, ptp, procs, panicked>>

\* freeproc(q): the trapframe, then the page table and the user pages.
freeproc(p) ==
  LET r == th[p] IN
  /\ At(p, "freeproc")
  /\ tf' = [tf EXCEPT ![r.q] = NoPage]
  /\ Set(p, Call([r EXCEPT !.pa = tf[r.q]], "kfree", "freepgt"))
  /\ UNCHANGED <<kmem, mem, pte, ptp, state, pt, sz, panicked>>

freepgt(p) ==
  LET r == th[p] IN
  /\ At(p, "freepgt")
  /\ Set(p, IF pt[r.q] = NoPT THEN [r EXCEPT !.pc = "freed"]
            ELSE FreePageTable(r, pt[r.q], sz[r.q], "freed"))
  /\ UNCHANGED <<kmem, mem, pte, ptp, procs, panicked>>

\* freeproc(): the slot is UNUSED.
freed(p) ==
  LET q == th[p].q IN
  /\ At(p, "freed")
  /\ pt' = [pt EXCEPT ![q] = NoPT]
  /\ sz' = [sz EXCEPT ![q] = 0]
  /\ state' = [state EXCEPT ![q] = "unused"]
  /\ Set(p, Idle("user"))
  /\ UNCHANGED <<kmem, mem, pte, ptp, tf, panicked>>
-----------------------------------------------------------------------------
\* kexec(): build a second page table beside the old one.
kexec(p) ==
  /\ "exec" \in Calls /\ At(p, "user")
  /\ Set(p, Call(th[p], "newpt", "execpt"))
  /\ UNCHANGED <<kmem, mem, pte, ptp, procs, panicked>>

\* kexec(): the next segment, or the stack and its guard page once all segments
\* are loaded.
ExecNext(r, i) ==
  IF i <= Len(Segments)
  THEN Uvmalloc([r EXCEPT !.seg = i], r.t, r.sz, Segments[i].end, Segments[i].w, "execseg")
  ELSE Uvmalloc([r EXCEPT !.sz = PGROUNDUP(r.sz) * PGSIZE], r.t, r.sz,
                (PGROUNDUP(r.sz) + USERSTACK + 1) * PGSIZE, TRUE, "execstack")

\* Mutant of ExecBad: the new table is leaked.
ExecBad_leak(r) == [r EXCEPT !.pc = "sysret"]

ExecBad(r) == FreePageTable(r, r.t, r.sz, "sysret")

execpt(p) ==
  LET r == th[p] IN
  /\ At(p, "execpt")
  /\ Set(p, IF r.ok THEN ExecNext(r, 1) ELSE [r EXCEPT !.pc = "sysret"])
  /\ UNCHANGED <<kmem, mem, pte, ptp, procs, panicked>>

\* kexec() after uvmalloc() of segment i: loadseg() fills the new pages, or
\* the file is short.
execseg(p) ==
  LET r == th[p]
      pages == {pte[r.t][v].pa : v \in r.base .. r.end - 1}
      s == [r EXCEPT !.sz = Segments[r.seg].end] IN
  /\ At(p, "execseg")
  /\ \/ /\ ~r.ok
        /\ Set(p, ExecBad(r)) /\ UNCHANGED mem
     \/ /\ r.ok
        /\ Set(p, ExecBad(s)) /\ UNCHANGED mem
     \/ /\ r.ok
        /\ mem' = [g \in Page |-> IF g \in pages THEN "image" ELSE mem[g]]
        /\ Set(p, ExecNext(s, r.seg + 1))
  /\ UNCHANGED <<kmem, pte, ptp, procs, panicked>>

\* kexec() after uvmalloc() of the stack: uvmclear() the guard page and copy
\* the arguments to the top page.  Then commit to the new image and free the
\* old one, or fail (arguments too long) and free the new one.
execstack(p) ==
  LET r == th[p]
      top == r.end - 1
      guard == r.end - (USERSTACK + 1)
      nsz == r.end * PGSIZE IN
  /\ At(p, "execstack")
  /\ \/ /\ ~r.ok
        /\ Set(p, ExecBad(r))
        /\ UNCHANGED <<mem, pte, pt, sz>>
     \/ /\ r.ok
        /\ pte' = [pte EXCEPT ![r.t][guard].u = FALSE]
        /\ \/ /\ Set(p, ExecBad([r EXCEPT !.sz = nsz]))
              /\ UNCHANGED <<mem, pt, sz>>
           \/ /\ mem' = [mem EXCEPT ![pte[r.t][top].pa] = "args"]
              /\ pt' = [pt EXCEPT ![p] = r.t]
              /\ sz' = [sz EXCEPT ![p] = nsz]
              /\ Set(p, FreePageTable(r, pt[p], sz[p], "sysret"))
  /\ UNCHANGED <<kmem, ptp, state, tf, panicked>>
-----------------------------------------------------------------------------
Init ==
  /\ refcnt = [g \in Page |-> 0]
  /\ freelist = Page
  /\ mem = [g \in Page |-> "junk"]
  /\ pte = [t \in PT |-> [v \in Va |-> NoPte]]
  /\ ptp = [t \in PT |-> [i \in TableIds |-> NoPage]]
  /\ state = [p \in Proc |-> "unused"]
  /\ pt = [p \in Proc |-> NoPT]
  /\ tf = [p \in Proc |-> NoPage]
  /\ sz = [p \in Proc |-> 0]
  /\ th = [p \in Proc |-> Idle("none")]
  /\ panicked = "no"

\* What user code may do next.
User(p) ==
  \/ \E v \in Va, x \in Val : UserStore(p, v, x)
  \/ \E a \in 0 .. MaxSz - 1, rd \in BOOLEAN : UserFault(p, a, rd)
  \/ Exit(p)
  \/ \E v \in Va, x \in Val : SysCopy(p, "copyout", v, x)
  \/ \E v \in Va : SysCopy(p, "copyin", v, "junk")
  \/ \E n \in Deltas : SbrkLazy(p, n) \/ growproc(p, n)
  \/ \E q \in Proc : kfork(p, q)
  \/ \E q \in Proc, v \in Va : kwait(p, q, v)
  \/ kexec(p)

\* The next step of a thread that is in the kernel.
Kernel(p) ==
  \/ kfree(p) \/ push(p)
  \/ mappages(p) \/ uvmunmap(p) \/ unmapclr(p) \/ freewalk(p) \/ proc_pagetable(p)
  \/ vmfault(p) \/ vfmapped(p) \/ cowcopy(p)
  \/ copyout(p) \/ co_cow(p) \/ co_write(p) \/ copyin(p)
  \/ uvmalloc(p) \/ grownext(p) \/ growfail(p) \/ growdone(p)
  \/ trapret(p) \/ sysret(p) \/ userinitdone(p)
  \/ forkpt(p) \/ uvmcopy(p) \/ inc(p) \/ forkdone(p)
  \/ waited(p) \/ freeproc(p) \/ freepgt(p) \/ freed(p)
  \/ execpt(p) \/ execseg(p) \/ execstack(p)

\* panic() spins for ever.
Halted == panicked # "no" /\ UNCHANGED vars

Next ==
  \/ userinit
  \/ \E p \in Proc : User(p) \/ Kernel(p)
  \/ Halted

Spec == Init /\ [][Next]_vars

\* The scheduler keeps running a thread that is in the kernel.
FairSpec == Spec /\ \A p \in Proc : WF_vars(Kernel(p))
-----------------------------------------------------------------------------
Labels ==
  {"none", "user", "kfree", "push", "map", "unmap", "unmapclr", "freewalk",
   "newpt", "vmfault", "vfmapped", "cowcopy", "copyout", "co_cow", "co_write",
   "copyin", "grow", "grownext", "growfail", "growdone", "trapret", "sysret",
   "userinit", "forkpt", "ucopy", "inc", "forkdone", "waited", "freeproc",
   "freepgt", "freed", "execpt", "execseg", "execstack"}

PTEs == [pa : Page \cup {NoPage}, w : BOOLEAN, u : BOOLEAN, cow : BOOLEAN]

TypeOK ==
  /\ refcnt \in [Page -> Nat]
  /\ freelist \subseteq Page
  /\ mem \in [Page -> Content]
  /\ pte \in [PT -> [Va -> PTEs]]
  /\ ptp \in [PT -> [TableIds -> Page \cup {NoPage}]]
  /\ state \in [Proc -> {"unused", "used", "live", "zombie"}]
  /\ pt \in [Proc -> PT \cup {NoPT}]
  /\ tf \in [Proc -> Page \cup {NoPage}]
  /\ sz \in [Proc -> 0 .. MaxSz]
  /\ \A p \in Proc : th[p].pc \in Labels /\ th[p].va \in 0 .. NPages

\* The PTE a thread in uvmunmap() has freed the page of and not cleared yet.
Stale(t, v) ==
  \E p \in Proc :
    /\ th[p].t = t /\ th[p].va = v
    /\ th[p].pc = "unmapclr" \/ th[p].ret["kfree"] = "unmapclr"

\* The child's PTE that uvmcopy() has written and not counted yet.
Uncounted(t, v) ==
  \E p \in Proc : th[p].t = t /\ th[p].va = v /\ th[p].pc = "inc" /\ th[p].ok

\* uvmcopy() and vmfault() never leave a page that two page table entries map
\* writable through either of them.
SharedReadOnly ==
  \A t, s \in PT, v, w \in Va :
    (/\ <<t, v>> # <<s, w>>
     /\ Mapped(t, v) /\ pte[t][v].pa = pte[s][w].pa
     /\ ~Stale(t, v) /\ ~Stale(s, w))
    => ~pte[t][v].w /\ ~pte[s][w].w

\* No path frees a page table that still has leaves or maps a page twice, the
\* out-of-memory paths of kfork(), kexec(), sbrk() and vmfault() included.
NoKernelPanic == panicked \in {"no", "init exiting"}

\* Every page table belongs to a process or to the thread that is building or
\* freeing it, so that a failed kfork() or kexec() leaks none.
NoOrphanTable ==
  \A t \in PT : Tables(t) # {} =>
    \/ \E p \in Proc : pt[p] = t
    \/ \E p \in Proc : th[p].t = t /\ th[p].pc \notin {"user", "none"}

\* While a process runs user code it maps nothing beyond its size: sbrk() with
\* any unaligned size frees exactly the pages the rounded sizes differ by.
MappedWithinSize ==
  \A p \in Proc : th[p].pc = "user" =>
    MappedIn(pt[p], PGROUNDUP(sz[p]), NPages) = {}

\* A thread that enters the kernel returns to user code, exits or panics: the
\* loops over page tables end, also when memory runs out.
KernelReturns ==
  \A p \in Proc :
    th[p].pc \notin {"user", "none"} ~>
      th[p].pc \in {"user", "none"} \/ panicked # "no"

-----------------------------------------------------------------------------
\* The counted references, as KAlloc sees them.
Holders ==
  ({"pte"} \X PT \X Va) \cup ({"pt"} \X PT \X TableIds)
    \cup ({"tf", "new", "arg"} \X Proc \X {0})

heldBar == [h \in Holders |->
  CASE h[1] = "pte" -> IF Stale(h[2], h[3]) \/ Uncounted(h[2], h[3])
                       THEN NoPage ELSE pte[h[2]][h[3]].pa
    [] h[1] = "pt"  -> ptp[h[2]][h[3]]
    [] h[1] = "tf"  -> tf[h[2]]
    [] h[1] = "new" -> th[h[2]].new
    [] h[1] = "arg" -> IF th[h[2]].pc = "kfree" THEN th[h[2]].pa ELSE NoPage]

pushingBar == [p \in Proc |-> IF th[p].pc = "push" THEN th[p].pa ELSE NoPage]

KA == INSTANCE KAlloc WITH Holder <- Holders, Thread <- Proc,
                           held <- heldBar, pushing <- pushingBar

\* vm.c and its callers use the allocator as KAlloc demands: a page is counted
\* while it is referenced, inc_refcnt() is called on a page that is held, and
\* every reference is dropped once.
UsesAllocator == KA!Spec

\* The address space of a process that is not being created or torn down.  A
\* shrinking sbrk() takes effect when it starts, everything else when p->sz or
\* p->pagetable is set.
Shrinking(p) ==
  th[p].pc = "growdone" \/ \E f \in Funcs : th[p].ret[f] = "growdone"

spaceBar == [p \in Proc |->
  IF state[p] # "live" THEN NoPT ELSE
  LET n == IF Shrinking(p) /\ th[p].sz < sz[p] THEN th[p].sz ELSE sz[p] IN
  [v \in 0 .. PGROUNDUP(n) - 1 |->
     IF Mapped(pt[p], v) THEN mem[pte[pt[p]][v].pa] ELSE "zero"]]

ImageSpace ==
  LET n == IF Segments = <<>> THEN 0 ELSE PGROUNDUP(Segments[Len(Segments)].end) IN
  [v \in 0 .. n + USERSTACK |->
     IF v < n THEN "image" ELSE IF v = n THEN "zero" ELSE "args"]

PM == INSTANCE PrivateMem WITH Stored <- Val \cup {"args"}, Zero <- "zero",
        Image <- ImageSpace, Gone <- NoPT, space <- spaceBar

\* Copy-on-write is invisible: fork() behaves as if it copied the parent's
\* memory, and no store by a process or by the kernel on its behalf changes
\* the memory of another.
ForkIsolation == PM!Spec
=============================================================================
