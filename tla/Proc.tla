-------------------------------- MODULE Proc --------------------------------
(***************************************************************************)
(* Processes (kernel/proc.c): the process table, the scheduler of every    *)
(* CPU, sleep and wakeup, fork, exit, wait and kill, with sys_pause() and  *)
(* the timer interrupt that drive them (kernel/sysproc.c, kernel/trap.c).  *)
(*                                                                         *)
(* A step is one critical section of a spinlock, or the part of one up to  *)
(* the next lock.  A spinlock is the CPU that holds it.  The kernel thread *)
(* of a process runs on the CPU whose c->proc it is; its place in the code *)
(* is thread[p].pc, and thread[p].back is the stack of its return labels.  *)
(* What calls do to memory and files is not modelled here.                 *)
(***************************************************************************)
EXTENDS Integers, Sequences, FiniteSets, FiniteSetsExt

CONSTANTS
  Cpu,       \* the CPUs (cpuid() values) that take part
  NPROC,     \* slots in the process table
  Calls,     \* the system calls user code makes
  KillPids,  \* arguments of kill()
  Pauses,    \* arguments of pause()
  TickMod,   \* the tick counter wraps around at this value
  MaxPid     \* bound: the last process id given out

ASSUME ProcAssumption ==
  /\ Cpu \subseteq Nat /\ Cpu # {} /\ NPROC \in Nat \ {0}
  /\ Calls \subseteq {"fork", "exit", "wait", "kill", "pause"}
  /\ KillPids \subseteq Nat /\ TickMod \in Nat \ {0} /\ Pauses \subseteq 0 .. TickMod - 1
  /\ MaxPid \in Nat

VARIABLES
  proc,     \* per slot: state, chan, killed, pid, parent
  thread,   \* per slot: the kernel thread's pc, back and locals i, x and lk
  cpu,      \* per CPU: proc (c->proc), scan (scheduler's p), irq (clockintr's place)
  lock,     \* the CPU that holds a lock, or NoCpu
  ticks,
  nextpid

vars == <<proc, thread, cpu, lock, ticks, nextpid>>

Proc == 1 .. NPROC
initproc == 1
NoCpu == -1

\* Besides every p->lock there are wait_lock and tickslock; a lock's number is
\* also the channel its users sleep on, except that wait() sleeps on p itself.
wait_lock == 0
tickslock == -1
Locks == Proc \cup {wait_lock, tickslock}

Unused == [state |-> "UNUSED", chan |-> 0, killed |-> FALSE, pid |-> 0, parent |-> 0]
At(l, back, i, x) == [pc |-> l, back |-> back, i |-> i, x |-> x, lk |-> 0]
User == At("user", <<>>, 0, 0)
NewThread == At("forkret", <<"user">>, 0, 0)

\* procinit() and userinit().
Init ==
  /\ proc = [p \in Proc |-> IF p = initproc
                            THEN [Unused EXCEPT !.state = "RUNNABLE", !.pid = 1]
                            ELSE Unused]
  /\ thread = [p \in Proc |-> NewThread]
  /\ cpu = [c \in Cpu |-> [proc |-> 0, scan |-> 1, irq |-> 0]]
  /\ lock = [l \in Locks |-> NoCpu]
  /\ ticks = 0 /\ nextpid = 2

\* Thread p runs at label l of its code on CPU c.
Runs(p, c, l) == cpu[c].proc = p /\ cpu[c].irq = 0 /\ thread[p].pc = l

\* Thread p is in a call, one of whose labels is in L.
In(p, L) == thread[p].pc \in L \/ \E k \in DOMAIN thread[p].back : thread[p].back[k] \in L

Free(l) == lock[l] = NoCpu
Held(c) == {l \in Locks : lock[l] = c}
Go(p, l) == thread' = [thread EXCEPT ![p].pc = l]
Return(p) == thread' = [thread EXCEPT ![p].pc = Head(thread[p].back), ![p].back = Tail(@)]
-----------------------------------------------------------------------------
\* Mutant of scheduler: a fruitless look starts over.
scheduler_restart(c) ==
  LET p == cpu[c].scan IN
  /\ cpu[c].proc = 0 /\ cpu[c].irq = 0 /\ Free(p)
  /\ IF proc[p].state = "RUNNABLE"
     THEN /\ proc' = [proc EXCEPT ![p].state = "RUNNING"]
          /\ cpu' = [cpu EXCEPT ![c].proc = p]
          /\ lock' = [lock EXCEPT ![p] = c]
     ELSE /\ cpu' = [cpu EXCEPT ![c].scan = 1]
          /\ UNCHANGED <<proc, lock>>
  /\ UNCHANGED <<thread, ticks, nextpid>>

\* scheduler(): look at one process and switch to it if it can run.
scheduler(c) ==
  LET p == cpu[c].scan IN
  /\ cpu[c].proc = 0 /\ cpu[c].irq = 0 /\ Free(p)
  /\ IF proc[p].state = "RUNNABLE"
     THEN /\ proc' = [proc EXCEPT ![p].state = "RUNNING"]
          /\ cpu' = [cpu EXCEPT ![c].proc = p]
          /\ lock' = [lock EXCEPT ![p] = c]
     ELSE /\ cpu' = [cpu EXCEPT ![c].scan = (p % NPROC) + 1]
          /\ UNCHANGED <<proc, lock>>
  /\ UNCHANGED <<thread, ticks, nextpid>>

\* sched(): switch to the scheduler, which releases p->lock and looks further.
sched(p, c) ==
  /\ \E l \in {"yielded", "slept", "dead"} : Runs(p, c, l)
  /\ proc[p].state # "RUNNING"
  /\ cpu' = [cpu EXCEPT ![c].proc = 0, ![c].scan = (p % NPROC) + 1]
  /\ lock' = [lock EXCEPT ![p] = NoCpu]
  /\ UNCHANGED <<proc, thread, ticks, nextpid>>

\* yield().
yield(p, c) ==
  /\ Runs(p, c, "yield") /\ Free(p)
  /\ lock' = [lock EXCEPT ![p] = c]
  /\ proc' = [proc EXCEPT ![p].state = "RUNNABLE"]
  /\ Go(p, "yielded")
  /\ UNCHANGED <<cpu, ticks, nextpid>>

\* The end of yield() and of forkret(): release p->lock.
resumed(p, c) ==
  /\ \E l \in {"yielded", "forkret"} : Runs(p, c, l)
  /\ proc[p].state = "RUNNING"
  /\ lock' = [lock EXCEPT ![p] = NoCpu]
  /\ Return(p)
  /\ UNCHANGED <<proc, cpu, ticks, nextpid>>

\* Mutant of sleep: p->lock is not held across sched().
sleep_no_lock(p, c) ==
  LET lk == thread[p].lk IN
  /\ Runs(p, c, "sleep") /\ Free(p)
  /\ lock' = [lock EXCEPT ![lk] = NoCpu]
  /\ proc' = [proc EXCEPT ![p].state = "SLEEPING",
                          ![p].chan = IF lk = wait_lock THEN p ELSE lk]
  /\ Go(p, "slept")
  /\ UNCHANGED <<cpu, ticks, nextpid>>

\* sleep(): up to sched().
sleep(p, c) ==
  LET lk == thread[p].lk IN
  /\ Runs(p, c, "sleep") /\ Free(p)
  /\ lock' = [lock EXCEPT ![p] = c, ![lk] = NoCpu]
  /\ proc' = [proc EXCEPT ![p].state = "SLEEPING",
                          ![p].chan = IF lk = wait_lock THEN p ELSE lk]
  /\ Go(p, "slept")
  /\ UNCHANGED <<cpu, ticks, nextpid>>

\* sleep(): after sched(), up to the release of p->lock.
slept(p, c) ==
  /\ Runs(p, c, "slept") /\ proc[p].state = "RUNNING"
  /\ proc' = [proc EXCEPT ![p].chan = 0]
  /\ lock' = [lock EXCEPT ![p] = NoCpu]
  /\ Go(p, "relock")
  /\ UNCHANGED <<cpu, ticks, nextpid>>

\* sleep(): reacquire the original lock.
relock(p, c) ==
  LET lk == thread[p].lk IN
  /\ Runs(p, c, "relock") /\ Free(lk)
  /\ lock' = [lock EXCEPT ![lk] = c]
  /\ Return(p)
  /\ UNCHANGED <<proc, cpu, ticks, nextpid>>

\* What wakeup(ch) does to process q.
Woken(q, ch) ==
  IF proc[q].state = "SLEEPING" /\ proc[q].chan = ch
  THEN [proc EXCEPT ![q].state = "RUNNABLE"] ELSE proc

\* wakeup(): one process of its loop, in thread p.
wakeup(p, c) ==
  LET q == thread[p].i IN
  /\ Runs(p, c, "wakeup")
  /\ q = p \/ Free(q)
  /\ proc' = IF q = p THEN proc ELSE Woken(q, thread[p].x)
  /\ IF q = NPROC THEN Return(p) ELSE thread' = [thread EXCEPT ![p].i = @ + 1]
  /\ UNCHANGED <<cpu, lock, ticks, nextpid>>
-----------------------------------------------------------------------------
\* usertrap(): user code makes a system call; a killed process exits instead.
syscall(p, c) ==
  /\ Runs(p, c, "user") /\ Free(p)
  /\ \E f \in Calls :
       /\ f = "exit" => p # initproc
       /\ f = "fork" => nextpid + Cardinality({q \in Proc : In(q, {"fork"})}) <= MaxPid
       /\ \E x \in CASE f = "kill" -> KillPids [] f = "pause" -> Pauses [] OTHER -> {0} :
            thread' = [thread EXCEPT ![p] =
              IF proc[p].killed THEN At("exit", <<>>, 0, 0) ELSE At(f, <<>>, 1, x)]
  /\ UNCHANGED <<proc, cpu, lock, ticks, nextpid>>

\* usertrap(): the call is done; a killed process exits.
trapret(p, c) ==
  /\ Runs(p, c, "ret") /\ Free(p)
  /\ thread' = [thread EXCEPT ![p] = IF proc[p].killed THEN At("exit", <<>>, 0, 0) ELSE User]
  /\ UNCHANGED <<proc, cpu, lock, ticks, nextpid>>

\* allocproc(): look at one slot, and take it if it is free.
allocproc(p, c) ==
  LET q == thread[p].i IN
  /\ Runs(p, c, "fork") /\ Free(q)
  /\ IF proc[q].state = "UNUSED"
     THEN /\ proc' = [proc EXCEPT ![q].state = "USED", ![q].pid = nextpid]
          /\ nextpid' = nextpid + 1
          /\ lock' = [lock EXCEPT ![q] = c]
          /\ thread' = [thread EXCEPT ![p] = At("forkcopy", <<>>, q, 0), ![q] = NewThread]
     ELSE /\ thread' = [thread EXCEPT ![p] =
               IF q = NPROC THEN At("ret", <<>>, 0, 0) ELSE [@ EXCEPT !.i = q + 1]]
          /\ UNCHANGED <<proc, lock, nextpid>>
  /\ UNCHANGED <<cpu, ticks>>

\* freeproc().
freeproc(q) == proc' = [proc EXCEPT ![q] = Unused]

\* allocproc() or kfork() runs out of memory and frees the slot again.
forkfail(p, c) ==
  LET np == thread[p].i IN
  /\ Runs(p, c, "forkcopy")
  /\ freeproc(np)
  /\ lock' = [lock EXCEPT ![np] = NoCpu]
  /\ thread' = [thread EXCEPT ![p] = At("ret", <<>>, 0, 0)]
  /\ UNCHANGED <<cpu, ticks, nextpid>>

\* kfork(): memory and files are copied, np->lock is released.
forkcopy(p, c) ==
  /\ Runs(p, c, "forkcopy")
  /\ lock' = [lock EXCEPT ![thread[p].i] = NoCpu]
  /\ Go(p, "forkparent")
  /\ UNCHANGED <<proc, cpu, ticks, nextpid>>

\* kfork(): the critical section of wait_lock.
forkparent(p, c) ==
  /\ Runs(p, c, "forkparent") /\ Free(wait_lock)
  /\ proc' = [proc EXCEPT ![thread[p].i].parent = p]
  /\ Go(p, "forkrun")
  /\ UNCHANGED <<cpu, lock, ticks, nextpid>>

\* kfork(): the child may run.
forkrun(p, c) ==
  LET np == thread[p].i IN
  /\ Runs(p, c, "forkrun") /\ Free(np)
  /\ proc' = [proc EXCEPT ![np].state = "RUNNABLE"]
  /\ thread' = [thread EXCEPT ![p] = At("ret", <<>>, 0, 0)]
  /\ UNCHANGED <<cpu, lock, ticks, nextpid>>
-----------------------------------------------------------------------------
\* kexit(): up to the acquisition of wait_lock.
kexit(p, c) ==
  /\ Runs(p, c, "exit") /\ p # initproc /\ Free(wait_lock)
  /\ lock' = [lock EXCEPT ![wait_lock] = c]
  /\ Go(p, "reparent")
  /\ UNCHANGED <<proc, cpu, ticks, nextpid>>

\* Mutants of reparent: children are kept; the parent is not woken.
reparent_none(p, c) ==
  /\ Runs(p, c, "reparent")
  /\ thread' = [thread EXCEPT ![p] = At("wakeup", <<"zombie">>, 1, proc[p].parent)]
  /\ UNCHANGED <<proc, cpu, lock, ticks, nextpid>>

reparent_no_wakeup(p, c) ==
  LET children == {q \in Proc : proc[q].parent = p} IN
  /\ Runs(p, c, "reparent")
  /\ IF children # {}
     THEN proc' = [proc EXCEPT ![Min(children)].parent = initproc] /\ UNCHANGED thread
     ELSE Go(p, "zombie") /\ UNCHANGED proc
  /\ UNCHANGED <<cpu, lock, ticks, nextpid>>

\* reparent(): the next child goes to init, which is woken; at the end kexit()
\* wakes the parent.
reparent(p, c) ==
  LET children == {q \in Proc : proc[q].parent = p} IN
  /\ Runs(p, c, "reparent")
  /\ IF children # {}
     THEN /\ proc' = [proc EXCEPT ![Min(children)].parent = initproc]
          /\ thread' = [thread EXCEPT ![p] = At("wakeup", <<"reparent">>, 1, initproc)]
     ELSE /\ thread' = [thread EXCEPT ![p] =
               At("wakeup", <<"zombie">>, 1, proc[p].parent)]
          /\ UNCHANGED proc
  /\ UNCHANGED <<cpu, lock, ticks, nextpid>>

\* kexit(): from the acquisition of p->lock up to sched().
zombie(p, c) ==
  /\ Runs(p, c, "zombie") /\ Free(p)
  /\ proc' = [proc EXCEPT ![p].state = "ZOMBIE"]
  /\ lock' = [lock EXCEPT ![p] = c, ![wait_lock] = NoCpu]
  /\ thread' = [thread EXCEPT ![p] = At("dead", <<>>, 0, 0)]
  /\ UNCHANGED <<cpu, ticks, nextpid>>

\* kwait(): acquire wait_lock.  x is havekids.
kwait(p, c) ==
  /\ Runs(p, c, "wait") /\ Free(wait_lock)
  /\ lock' = [lock EXCEPT ![wait_lock] = c]
  /\ thread' = [thread EXCEPT ![p] = At("scan", <<>>, 1, 0)]
  /\ UNCHANGED <<proc, cpu, ticks, nextpid>>

\* kwait(): the scan meets a child that has not exited, or another's child.
scan(p, c) ==
  LET q == thread[p].i IN
  /\ Runs(p, c, "scan") /\ q <= NPROC
  /\ proc[q].parent = p => Free(q) /\ proc[q].state # "ZOMBIE"
  /\ thread' = [thread EXCEPT ![p].i = q + 1,
                              ![p].x = IF proc[q].parent = p THEN 1 ELSE @]
  /\ UNCHANGED <<proc, cpu, lock, ticks, nextpid>>

\* kwait(): the scan finds a zombie, frees it and returns; or copyout() fails.
reap(p, c) ==
  LET q == thread[p].i IN
  /\ Runs(p, c, "scan") /\ q <= NPROC
  /\ proc[q].parent = p /\ Free(q) /\ proc[q].state = "ZOMBIE"
  /\ freeproc(q) \/ UNCHANGED proc
  /\ lock' = [lock EXCEPT ![wait_lock] = NoCpu]
  /\ thread' = [thread EXCEPT ![p] = At("ret", <<>>, 0, 0)]
  /\ UNCHANGED <<cpu, ticks, nextpid>>

\* kwait(): no zombie; give up or sleep.
scanned(p, c) ==
  /\ Runs(p, c, "scan") /\ thread[p].i > NPROC
  /\ IF thread[p].x = 0 \/ (Free(p) /\ proc[p].killed)
     THEN /\ lock' = [lock EXCEPT ![wait_lock] = NoCpu]
          /\ thread' = [thread EXCEPT ![p] = At("ret", <<>>, 0, 0)]
     ELSE /\ Free(p)
          /\ thread' = [thread EXCEPT ![p] = At("sleep", <<"scan">>, 1, 0)]
          /\ UNCHANGED lock
  /\ UNCHANGED <<proc, cpu, ticks, nextpid>>

\* kkill(): one slot of its loop.
kkill(p, c) ==
  LET q == thread[p].i IN
  /\ Runs(p, c, "kill") /\ Free(q)
  /\ LET found == proc[q].pid = thread[p].x IN
     /\ proc' = IF ~found THEN proc ELSE
                [proc EXCEPT ![q].killed = TRUE,
                             ![q].state = IF @ = "SLEEPING" THEN "RUNNABLE" ELSE @]
     /\ thread' = [thread EXCEPT ![p] =
          IF found \/ q = NPROC THEN At("ret", <<>>, 0, 0) ELSE [@ EXCEPT !.i = q + 1]]
  /\ UNCHANGED <<cpu, lock, ticks, nextpid>>
-----------------------------------------------------------------------------
\* sys_pause(): acquire tickslock and note the time in i; x is the argument.
sys_pause(p, c) ==
  /\ Runs(p, c, "pause") /\ Free(tickslock)
  /\ lock' = [lock EXCEPT ![tickslock] = c]
  /\ thread' = [thread EXCEPT ![p].pc = "pausing", ![p].i = ticks]
  /\ UNCHANGED <<proc, cpu, ticks, nextpid>>

\* Ticks since p called pause(), ticks - ticks0 in unsigned arithmetic.
Elapsed(p) == (ticks - thread[p].i) % TickMod

\* sys_pause(): its loop's condition, and killed().
pausing(p, c) ==
  LET over == Elapsed(p) >= thread[p].x IN
  /\ Runs(p, c, "pausing") /\ (over \/ Free(p))
  /\ IF over \/ proc[p].killed
     THEN /\ lock' = [lock EXCEPT ![tickslock] = NoCpu]
          /\ thread' = [thread EXCEPT ![p] = At("ret", <<>>, 0, 0)]
     ELSE /\ thread' = [thread EXCEPT ![p].pc = "sleep", ![p].back = <<"pausing">>,
                                      ![p].lk = tickslock]
          /\ UNCHANGED lock
  /\ UNCHANGED <<proc, cpu, ticks, nextpid>>

\* The end of a timer interrupt: yield() if it came from a process; usertrap()
\* looks at p->killed first.
Preempted(c) ==
  LET p == cpu[c].proc IN
  IF p = 0 THEN UNCHANGED thread
  ELSE thread' = [thread EXCEPT ![p].pc = IF @ = "user" THEN "tick" ELSE "yield",
                                ![p].back = <<thread[p].pc>> \o @]

\* Bound: no process waits so long for a CPU that the counter passes it again.
CanCount == \A p \in Proc : In(p, {"pausing"}) => Elapsed(p) < TickMod - 1

\* The locks that thread p, which holds none, is about to acquire.
Awaits(p) ==
  CASE thread[p].pc \in {"exit", "wait", "forkparent"} -> {wait_lock}
    [] thread[p].pc = "pause" -> {tickslock}
    [] thread[p].pc = "relock" -> {thread[p].lk}
    [] thread[p].pc \in {"fork", "forkrun", "kill"} -> {thread[p].i}
    [] thread[p].pc = "ret" -> {p}
    [] OTHER -> {}

\* A timer interrupt, which comes only while interrupts are on: CPU c neither
\* holds a lock nor spins on one, and is not in a handler.  On CPU 0 it starts
\* clockintr().
timerintr(c) ==
  /\ cpu[c].irq = 0 /\ Held(c) = {}
  /\ cpu[c].proc # 0 => /\ thread[cpu[c].proc].pc \notin {"yield", "tick"}
                        /\ \A l \in Awaits(cpu[c].proc) : Free(l)
  /\ IF c = 0
     THEN /\ Free(tickslock) /\ lock' = [lock EXCEPT ![tickslock] = c]
          /\ ticks' = IF CanCount THEN (ticks + 1) % TickMod ELSE ticks
          /\ cpu' = [cpu EXCEPT ![c].irq = 1]
          /\ UNCHANGED thread
     ELSE /\ cpu[c].proc # 0 /\ Preempted(c)
          /\ UNCHANGED <<cpu, lock, ticks>>
  /\ UNCHANGED <<proc, nextpid>>

\* Mutant of clockintr: nobody is woken.
clockintr_no_wakeup(c) ==
  /\ cpu[c].irq \in Proc
  /\ cpu' = [cpu EXCEPT ![c].irq = 0]
  /\ lock' = [lock EXCEPT ![tickslock] = NoCpu] /\ Preempted(c)
  /\ UNCHANGED <<proc, ticks, nextpid>>

\* clockintr(): one process of the loop of wakeup(&ticks).
clockintr(c) ==
  LET q == cpu[c].irq IN
  /\ q \in Proc
  /\ q = cpu[c].proc \/ Free(q)
  /\ proc' = IF q = cpu[c].proc THEN proc ELSE Woken(q, tickslock)
  /\ cpu' = [cpu EXCEPT ![c].irq = IF q = NPROC THEN 0 ELSE q + 1]
  /\ IF q = NPROC
     THEN lock' = [lock EXCEPT ![tickslock] = NoCpu] /\ Preempted(c)
     ELSE UNCHANGED <<lock, thread>>
  /\ UNCHANGED <<ticks, nextpid>>

\* usertrap(), after a timer interrupt: killed().
tick(p, c) ==
  /\ Runs(p, c, "tick") /\ Free(p)
  /\ thread' = [thread EXCEPT ![p] =
       IF proc[p].killed THEN At("exit", <<>>, 0, 0) ELSE [@ EXCEPT !.pc = "yield"]]
  /\ UNCHANGED <<proc, cpu, lock, ticks, nextpid>>
-----------------------------------------------------------------------------
Fork(p, c) == allocproc(p, c) \/ forkfail(p, c) \/ forkcopy(p, c) \/ forkparent(p, c) \/ forkrun(p, c)
Exit(p, c) == kexit(p, c) \/ reparent(p, c) \/ zombie(p, c)
Wait(p, c) == kwait(p, c) \/ scan(p, c) \/ reap(p, c) \/ scanned(p, c)
Switch(p, c) == sched(p, c) \/ yield(p, c) \/ resumed(p, c)
Sleep(p, c) == sleep(p, c) \/ slept(p, c) \/ relock(p, c) \/ wakeup(p, c)
Pause(p, c) == sys_pause(p, c) \/ pausing(p, c)

\* What the CPU does in the kernel: work of the thread it runs, or of its own.
Kernel(p, c) ==
  \/ Sleep(p, c) \/ Fork(p, c) \/ Exit(p, c) \/ Wait(p, c)
  \/ kkill(p, c) \/ Pause(p, c) \/ trapret(p, c) \/ tick(p, c)

Step(c) == scheduler(c) \/ clockintr(c) \/ \E p \in Proc : Switch(p, c) \/ Kernel(p, c)

Next == \E c \in Cpu : Step(c) \/ timerintr(c) \/ \E p \in Proc : syscall(p, c)

Spec == Init /\ [][Next]_vars

\* A CPU that spins on a lock gets it if it keeps becoming free; every CPU is
\* interrupted again and again by its timer, but not before a thread that keeps
\* getting the CPU has done something.  User code need not make calls.
FairSpec ==
  /\ Spec
  /\ \A c \in Cpu : SF_vars(Step(c)) /\ SF_vars(timerintr(c))
  /\ \A p \in Proc : SF_vars(\E c \in Cpu : Kernel(p, c))
-----------------------------------------------------------------------------
Labels == {"user", "ret", "tick", "yield", "yielded", "forkret", "sleep", "slept",
           "relock", "wakeup", "fork", "forkcopy", "forkparent", "forkrun", "exit",
           "reparent", "zombie", "dead", "wait", "scan", "kill", "pause", "pausing"}

TypeOK ==
  /\ proc \in [Proc -> [state : {"UNUSED", "USED", "SLEEPING", "RUNNABLE", "RUNNING", "ZOMBIE"},
                        chan : Locks, killed : BOOLEAN, pid : 0 .. MaxPid,
                        parent : 0 .. NPROC]]
  /\ \A p \in Proc : /\ thread[p].pc \in Labels
                     /\ \A k \in DOMAIN thread[p].back : thread[p].back[k] \in Labels
  /\ cpu \in [Cpu -> [proc : 0 .. NPROC, scan : Proc, irq : 0 .. NPROC]]
  /\ lock \in [Locks -> Cpu \cup {NoCpu}]
  /\ ticks \in 0 .. TickMod - 1 /\ nextpid \in 2 .. MaxPid + 1

\* No process runs on two CPUs, not even while one of them is still on the
\* process's stack in sched(); and RUNNING means that a CPU runs it.
RunsOnce ==
  /\ \A c, d \in Cpu : cpu[c].proc # 0 /\ cpu[c].proc = cpu[d].proc => c = d
  /\ \A p \in Proc : Free(p) =>
       (proc[p].state = "RUNNING" <=> \E c \in Cpu : cpu[c].proc = p)

\* The panics of sched() are unreachable: a thread that switches away holds its
\* p->lock and no other lock; user code and the scheduler's scan hold none.
SchedSafe ==
  \A c \in Cpu :
    LET p == cpu[c].proc IN
    cpu[c].irq = 0 =>
      IF p = 0 THEN Held(c) = {} ELSE
      /\ thread[p].pc \in {"slept", "yielded", "dead", "forkret"} => Held(c) = {p}
      /\ thread[p].pc \in {"user", "ret", "tick", "yield", "exit"} => Held(c) = {}

\* p->lock, held across swtch() from one thread to the next, makes the switch
\* safe: no process runs twice, and no thread takes another lock along.
SwitchSafe == RunsOnce /\ SchedSafe

\* No wakeup is lost: while nobody is in the critical section of its condition
\* lock, whoever sleeps in wait() has children and none of them has exited, and
\* whoever sleeps in pause() has time left.
SleepersMustWait ==
  \A p \in Proc : proc[p].state = "SLEEPING" =>
    IF thread[p].lk = wait_lock
    THEN LET children == {q \in Proc : proc[q].parent = p} IN
         Free(wait_lock) =>
           children # {} /\ \A q \in children : proc[q].state # "ZOMBIE"
    ELSE Free(tickslock) => Elapsed(p) < thread[p].x

\* Outside the critical sections of wait_lock every process that was started
\* has a parent that is alive and can still wait for it.
ParentsAlive ==
  Free(wait_lock) =>
    \A p \in Proc \ {initproc} : proc[p].state \notin {"UNUSED", "USED"} =>
      /\ proc[p].parent \in Proc \ {p}
      /\ proc[proc[p].parent].state \notin {"UNUSED", "USED", "ZOMBIE"}

\* wait() returns once a child has exited.
WaitReturns ==
  \A p \in Proc :
    (In(p, {"wait", "scan"}) /\ \E q \in Proc : proc[q].parent = p /\ proc[q].state = "ZOMBIE")
      ~> ~In(p, {"wait", "scan"})

\* pause() returns, whatever else runs.
PauseReturns == \A p \in Proc : In(p, {"pause", "pausing"}) ~> ~In(p, {"pause", "pausing"})

\* The round-robin scan starves nobody.
RunnableRuns == \A p \in Proc : proc[p].state = "RUNNABLE" ~> proc[p].state = "RUNNING"

=============================================================================
