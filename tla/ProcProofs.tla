----------------------------- MODULE ProcProofs -----------------------------
(***************************************************************************)
(* Proofs about Proc for any number of CPUs and processes.                 *)
(***************************************************************************)
EXTENDS Proc, SequenceTheorems, TLAPS

States == {"UNUSED", "USED", "SLEEPING", "RUNNABLE", "RUNNING", "ZOMBIE"}
Slots == [state : States, chan : Locks, killed : BOOLEAN, pid : Nat, parent : 0 .. NPROC]
Threads == [pc : Labels, back : Seq(Labels), i : Int, x : Int, lk : {wait_lock, tickslock}]

Types ==
  /\ proc \in [Proc -> Slots]
  /\ thread \in [Proc -> Threads]
  /\ cpu \in [Cpu -> [proc : 0 .. NPROC, scan : Proc, irq : 0 .. NPROC]]
  /\ lock \in [Locks -> Cpu \cup {NoCpu}]
  /\ ticks \in Int /\ nextpid \in Nat

\* Where a thread is switched out, and where it can be interrupted.
Switching == {"yielded", "slept", "dead", "forkret"}
Preemptible == {"user", "ret", "relock", "fork", "forkparent", "forkrun", "exit", "wait",
                "kill", "pause"}
Yielding == {"tick", "yield", "yielded"}
Forking == {"forkcopy", "forkparent", "forkrun"}

\* The label a thread is at, or was at when the timer interrupted it, and the
\* return labels below it.
Top(t) == IF t.pc \in Yielding THEN Head(t.back) ELSE t.pc
Below(t) == IF t.pc \in Yielding THEN Tail(t.back) ELSE t.back

\* A thread's return labels and locals are those of the calls it is in.
Stack(t) ==
  /\ t.pc \in Yielding => t.back # <<>> /\ Head(t.back) \in Preemptible
  /\ Top(t) \in {"sleep", "slept", "relock"} =>
       \/ t.lk = wait_lock /\ Below(t) = <<"scan">> /\ t.i = 1
       \/ t.lk = tickslock /\ Below(t) = <<"pausing">>
  /\ Top(t) = "wakeup" => Below(t) = <<"reparent">> \/ Below(t) = <<"zombie">>
  /\ Top(t) = "forkret" => Below(t) = <<"user">>
  /\ Top(t) \in Forking \cup {"fork", "kill", "wakeup"} => t.i \in Proc
  /\ Top(t) = "scan" => t.i \in 1 .. NPROC + 1

StackInv == \A p \in Proc : Stack(thread[p])

\* The lock that the CPU holds which runs thread t of process p.
Holds(p, t, l) ==
  \/ t.pc \in Switching /\ l = p
  \/ t.pc \in {"reparent", "wakeup", "zombie", "scan"} /\ l = wait_lock
  \/ t.pc = "forkcopy" /\ l = t.i
  \/ t.pc = "pausing" /\ l = tickslock
  \/ t.pc = "sleep" /\ l = t.lk

Owns(c, l) ==
  IF cpu[c].irq # 0 THEN l = tickslock
  ELSE cpu[c].proc # 0 /\ Holds(cpu[c].proc, thread[cpu[c].proc], l)

LockInv ==
  \A c \in Cpu : /\ \A l \in Locks : lock[l] = c <=> Owns(c, l)
                 /\ cpu[c].irq # 0 /\ cpu[c].proc # 0 => thread[cpu[c].proc].pc \in Preemptible

OnCpu(p) == \E c \in Cpu : cpu[c].proc = p

\* Threads that no CPU runs are switched out.
SwitchedOut == \A p \in Proc : ~OnCpu(p) => thread[p].pc \in Switching

\* The slot a fork fills is its own until the child may run.
ForkInv ==
  \A p \in Proc : Top(thread[p]) \in Forking =>
    /\ proc[thread[p].i].state = "USED" /\ ~OnCpu(thread[p].i)
    /\ \A q \in Proc : Top(thread[q]) \in Forking /\ thread[q].i = thread[p].i => q = p

RInv == Types /\ StackInv /\ LockInv /\ RunsOnce /\ SwitchedOut /\ ForkInv
-----------------------------------------------------------------------------
LEMMA Constants ==
  /\ Cpu \subseteq Nat /\ NPROC \in Nat \ {0} /\ Proc = 1 .. NPROC
  /\ NoCpu = -1 /\ NoCpu \notin Cpu /\ wait_lock = 0 /\ tickslock = -1 /\ initproc = 1
  /\ Locks = Proc \cup {0, -1} /\ 0 \notin Proc /\ -1 \notin Proc /\ 1 \in Proc
  BY ProcAssumption DEF Proc, NoCpu, wait_lock, tickslock, initproc, Locks

\* The invariant says what SwitchSafe does.
LEMMA InvSwitchSafe == RInv => SwitchSafe
<1> SUFFICES ASSUME RInv PROVE SchedSafe
  BY DEF RInv, SwitchSafe
<1> SUFFICES ASSUME NEW c \in Cpu, cpu[c].irq = 0
             PROVE  LET p == cpu[c].proc IN
                    IF p = 0 THEN Held(c) = {} ELSE
                    /\ thread[p].pc \in {"slept", "yielded", "dead", "forkret"} => Held(c) = {p}
                    /\ thread[p].pc \in {"user", "ret", "tick", "yield", "exit"} => Held(c) = {}
  BY DEF SchedSafe
<1> DEFINE p == cpu[c].proc
<1>1. \A l \in Locks : lock[l] = c <=> Owns(c, l)
  BY DEF RInv, LockInv
<1>2. cpu[c].proc = 0 => \A l \in Locks : lock[l] # c
  BY <1>1 DEF Owns
<1>3. p # 0 => p \in Proc
  BY Constants DEF RInv, Types
<1>4. p # 0 /\ thread[p].pc \in Switching => \A l \in Locks : lock[l] = c <=> l = p
  BY <1>1 DEF Owns, Holds, Switching
<1>5. p # 0 /\ thread[p].pc \in {"user", "ret", "tick", "yield", "exit"} => \A l \in Locks : lock[l] # c
  BY <1>1 DEF Owns, Holds, Switching
<1> QED
  BY <1>2, <1>3, <1>4, <1>5, Constants DEF Held, Switching

LEMMA InitR == Init => RInv
<1> SUFFICES ASSUME Init PROVE RInv
  OBVIOUS
<1>1. NewThread \in Threads /\ NewThread.pc = "forkret" /\ NewThread.back = <<"user">>
  BY DEF NewThread, At, Threads, Labels, wait_lock
<1>2. Types
  <2>2. Unused \in Slots
    BY Constants DEF Unused, States, Slots
  <2> DEFINE first == [Unused EXCEPT !.state = "RUNNABLE"]
  <2>3. first \in Slots
    BY <2>2 DEF States, Slots
  <2> HIDE DEF first
  <2>4. [first EXCEPT !.pid = 1] \in Slots
    BY <2>3 DEF Slots
  <2>1. [Unused EXCEPT !.state = "RUNNABLE", !.pid = 1] \in Slots
    BY <2>4, Zenon DEF first
  <2> QED
    BY <1>1, <2>1, <2>2, Constants DEF Init, Types
<1>3. StackInv
  BY <1>1 DEF Init, StackInv, Stack, Top, Below, Yielding, Forking
<1>4. LockInv
  BY Constants DEF Init, LockInv, Owns
<1>5. RunsOnce
  BY Constants DEF Init, RunsOnce, Unused
<1>6. SwitchedOut /\ ForkInv
  BY <1>1 DEF Init, SwitchedOut, ForkInv, Switching, Top, Yielding, Forking
<1> QED
  BY <1>2, <1>3, <1>4, <1>5, <1>6 DEF RInv
-----------------------------------------------------------------------------
(* What a step of the thread p that CPU c runs does to the invariant *)

\* Only locks that are free or its own are touched.
OwnLocks(c) ==
  /\ lock' \in [Locks -> Cpu \cup {NoCpu}]
  /\ \A l \in Locks : lock'[l] = lock[l] \/ (lock[l] \in {c, NoCpu} /\ lock'[l] \in {c, NoCpu})

\* The thread becomes t, and no other CPU or thread that runs changes.
LEMMA LocksKept ==
  ASSUME RInv, NEW p \in Proc, NEW c \in Cpu, cpu[c].proc = p, cpu[c].irq = 0, cpu' = cpu,
         NEW t, thread'[p] = t, \A q \in Proc \ {p} : OnCpu(q) => thread'[q] = thread[q],
         OwnLocks(c), \A l \in Locks : lock'[l] = c <=> Holds(p, t, l)
  PROVE  LockInv'
<1> SUFFICES ASSUME NEW d \in Cpu
             PROVE  /\ \A l \in Locks : lock'[l] = d <=> Owns(d, l)'
                    /\ cpu'[d].irq # 0 /\ cpu'[d].proc # 0 => thread'[cpu'[d].proc].pc \in Preemptible
  BY DEF LockInv
<1>1. CASE d = c
  BY <1>1, Constants DEF Owns
<1>2. CASE d # c
  <2>1. /\ \A l \in Locks : lock[l] = d <=> Owns(d, l)
        /\ cpu[d].irq # 0 /\ cpu[d].proc # 0 => thread[cpu[d].proc].pc \in Preemptible
    BY DEF RInv, LockInv
  <2>2. \A l \in Locks : lock'[l] = d <=> lock[l] = d
    BY <1>2, Constants DEF OwnLocks
  <2>3. cpu[d].proc # 0 => /\ cpu[d].proc \in Proc \ {p} /\ OnCpu(cpu[d].proc)
                           /\ thread'[cpu[d].proc] = thread[cpu[d].proc]
    BY <1>2, Constants DEF RInv, Types, RunsOnce, OnCpu
  <2>4. \A l \in Locks : Owns(d, l)' <=> Owns(d, l)
    <3>1. CASE cpu[d].proc = 0
      BY <3>1 DEF Owns
    <3>2. CASE cpu[d].proc # 0
      <4>1. cpu'[d] = cpu[d] /\ cpu'[d].proc = cpu[d].proc
        OBVIOUS
      <4> QED
        BY <2>3, <3>2, <4>1 DEF Owns
    <3> QED
      BY <3>1, <3>2
  <2> QED
    BY <2>1, <2>2, <2>3, <2>4
<1> QED
  BY <1>1, <1>2

LEMMA Local ==
  ASSUME RInv, NEW p \in Proc, NEW c \in Cpu, cpu[c].proc = p, cpu[c].irq = 0, cpu' = cpu,
         NEW t \in Threads, Stack(t), thread' = [thread EXCEPT ![p] = t],
         OwnLocks(c), \A l \in Locks : lock'[l] = c <=> Holds(p, t, l)
  PROVE  StackInv' /\ LockInv' /\ SwitchedOut' /\ thread' \in [Proc -> Threads]
<1>1. thread \in [Proc -> Threads]
  BY DEF RInv, Types
<1>2. thread'[p] = t /\ \A q \in Proc \ {p} : thread'[q] = thread[q]
  BY <1>1
<1>3. LockInv'
  BY <1>2, LocksKept
<1>4. StackInv'
  BY <1>2 DEF RInv, StackInv
<1>5. SwitchedOut'
  BY <1>2 DEF RInv, SwitchedOut, OnCpu
<1> QED
  BY <1>1, <1>3, <1>4, <1>5

\* Who holds a slot for a fork keeps it.
LEMMA ForksKept ==
  ASSUME ForkInv,
         \A q \in Proc : Top(thread'[q]) \in Forking =>
           /\ Top(thread[q]) \in Forking /\ thread'[q].i = thread[q].i
           /\ proc'[thread[q].i].state = "USED" /\ \A c \in Cpu : cpu'[c].proc # thread[q].i
  PROVE  ForkInv'
  BY DEF ForkInv, OnCpu

LEMMA RunsKept ==
  ASSUME RunsOnce, cpu' = cpu,
         \A q \in Proc : Free(q)' =>
           \/ Free(q) /\ (proc'[q].state = "RUNNING" <=> proc[q].state = "RUNNING")
           \/ proc'[q].state = "RUNNING" <=> OnCpu(q)
  PROVE  RunsOnce'
  BY DEF RunsOnce, OnCpu
-----------------------------------------------------------------------------
(* The switch: scheduler(), sched(), yield(), the end of yield() *)

\* A timer interrupt, or nothing else, puts the label of the thread on its stack.
LEMMA Push ==
  ASSUME NEW l \in Labels, NEW s \in Seq(Labels)
  PROVE  /\ <<l>> \o s \in Seq(Labels) /\ <<l>> \o s # <<>>
         /\ Head(<<l>> \o s) = l /\ Tail(<<l>> \o s) = s
<1>1. <<l>> \o s \in Seq(Labels) /\ Len(<<l>> \o s) = Len(s) + 1 /\ Len(s) \in Nat
      /\ \A k \in 1 .. Len(s) + 1 : (<<l>> \o s)[k] = IF k = 1 THEN l ELSE s[k - 1]
  OBVIOUS
<1>2. Head(<<l>> \o s) = l /\ <<l>> \o s # <<>>
  BY <1>1
<1>3. Tail(<<l>> \o s) \in Seq(Labels) /\ Len(Tail(<<l>> \o s)) = Len(s)
      /\ \A k \in 1 .. Len(s) : Tail(<<l>> \o s)[k] = s[k]
  BY <1>1, <1>2
<1> QED
  BY <1>1, <1>2, <1>3, SeqEqual

\* Assignments to fields of a process.
LEMMA SetState ==
  ASSUME proc \in [Proc -> Slots], NEW q \in Proc, NEW s \in States,
         proc' = [proc EXCEPT ![q].state = s]
  PROVE  /\ proc' \in [Proc -> Slots] /\ proc'[q].state = s
         /\ \A r \in Proc : /\ proc'[r].parent = proc[r].parent
                            /\ r # q => proc'[r] = proc[r]
  BY DEF Slots

\* As LocksKept, for a step that changes what CPU c runs.
LEMMA OthersLocks ==
  ASSUME RInv, NEW c \in Cpu, \A d \in Cpu \ {c} : cpu'[d] = cpu[d],
         \A q \in Proc : q # cpu[c].proc => thread'[q] = thread[q],
         OwnLocks(c), \A l \in Locks : lock'[l] = c <=> Owns(c, l)',
         cpu'[c].irq # 0 /\ cpu'[c].proc # 0 => thread'[cpu'[c].proc].pc \in Preemptible
  PROVE  LockInv'
<1> SUFFICES ASSUME NEW d \in Cpu, d # c
             PROVE  /\ \A l \in Locks : lock'[l] = d <=> Owns(d, l)'
                    /\ cpu'[d].irq # 0 /\ cpu'[d].proc # 0 => thread'[cpu'[d].proc].pc \in Preemptible
  BY DEF LockInv
<1>1. /\ \A l \in Locks : lock[l] = d <=> Owns(d, l)
      /\ cpu[d].irq # 0 /\ cpu[d].proc # 0 => thread[cpu[d].proc].pc \in Preemptible
  BY DEF RInv, LockInv
<1>2. \A l \in Locks : lock'[l] = d <=> lock[l] = d
  BY Constants DEF OwnLocks
<1>3. cpu'[d] = cpu[d]
  OBVIOUS
<1>4. cpu[d].proc # 0 => thread'[cpu[d].proc] = thread[cpu[d].proc]
  BY Constants, SMTT(30) DEF RInv, Types, RunsOnce
<1>5. \A l \in Locks : Owns(d, l)' <=> Owns(d, l)
  <2>1. CASE cpu[d].proc = 0
    BY <1>3, <2>1, SMTT(30) DEF Owns
  <2>2. CASE cpu[d].proc # 0
    BY <1>3, <1>4, <2>2 DEF Owns
  <2> QED
    BY <2>1, <2>2, SMTT(30)
<1> QED
  BY <1>1, <1>2, <1>3, <1>4, <1>5, ZenonT(40)

\* An interrupt changes neither what a CPU runs, nor the calls a thread is in,
\* nor the locks of processes, and wakes sleepers at most.
SameRuns ==
  /\ cpu' \in [Cpu -> [proc : 0 .. NPROC, scan : Proc, irq : 0 .. NPROC]]
  /\ \A d \in Cpu : cpu'[d].proc = cpu[d].proc
SameCalls(c) ==
  /\ thread' \in [Proc -> Threads]
  /\ \A q \in Proc : /\ q # cpu[c].proc => thread'[q] = thread[q]
                     /\ Top(thread'[q]) = Top(thread[q]) /\ thread'[q].i = thread[q].i
SameProcLocks ==
  lock' \in [Locks -> Cpu \cup {NoCpu}] /\ \A q \in Proc : lock'[q] = lock[q]
WakesOnly ==
  /\ proc' \in [Proc -> Slots]
  /\ \A q \in Proc : \/ proc'[q].state = proc[q].state
                     \/ proc[q].state = "SLEEPING" /\ proc'[q].state = "RUNNABLE"

LEMMA IrqStep ==
  ASSUME RInv, NEW c \in Cpu, SameRuns, SameCalls(c), SameProcLocks, WakesOnly,
         StackInv', LockInv', ticks' \in Int, nextpid' \in Nat
  PROVE  RInv'
<1> USE DEF SameRuns, SameCalls, SameProcLocks, WakesOnly
<1>1. Types'
  BY DEF RInv, Types
<1>2. \A q \in Proc : OnCpu(q)' <=> OnCpu(q)
  BY SMTT(30) DEF OnCpu
<1>3. RunsOnce'
  <2>1. \A d, e \in Cpu : cpu'[d].proc # 0 /\ cpu'[d].proc = cpu'[e].proc => d = e
    BY SMTT(30) DEF RInv, RunsOnce
  <2>2. \A q \in Proc : Free(q) => (proc[q].state = "RUNNING" <=> OnCpu(q))
    BY SMTT(30) DEF RInv, RunsOnce, OnCpu
  <2>3. \A q \in Proc : Free(q)' => (proc'[q].state = "RUNNING" <=> OnCpu(q)')
    BY <1>2, <2>2, SMTT(30) DEF Free
  <2> QED
    BY <2>1, <2>3, SMTT(30) DEF RunsOnce, OnCpu
<1>4. SwitchedOut'
  <2>1. \A q \in Proc : ~OnCpu(q) => q # cpu[c].proc
    BY Zenon DEF OnCpu
  <2> QED
    BY <1>2, <2>1, SMTT(30) DEF RInv, SwitchedOut
<1>5. ForkInv'
  <2>1. \A q \in Proc : Top(thread'[q]) \in Forking =>
          /\ Top(thread[q]) \in Forking /\ thread'[q].i = thread[q].i
          /\ proc[thread[q].i].state = "USED" /\ \A d \in Cpu : cpu'[d].proc # thread[q].i
          /\ thread[q].i \in Proc
    BY DEF RInv, ForkInv, OnCpu, StackInv, Stack
  <2> QED
    BY <2>1, ForksKept, SMTT(30) DEF RInv
<1> QED
  BY <1>1, <1>3, <1>4, <1>5 DEF RInv

LEMMA schedulerR ==
  ASSUME RInv, NEW c \in Cpu, scheduler(c)
  PROVE  RInv'
<1> DEFINE p == cpu[c].scan
<1>1. p \in Proc /\ cpu[c].proc = 0 /\ cpu[c].irq = 0 /\ Free(p)
  BY DEF RInv, Types, scheduler
<1>2. UNCHANGED <<thread, ticks, nextpid>>
  BY DEF scheduler
<1>3. CASE proc[p].state = "RUNNABLE"
  <2>1. /\ proc' = [proc EXCEPT ![p].state = "RUNNING"] /\ cpu' = [cpu EXCEPT ![c].proc = p]
        /\ lock' = [lock EXCEPT ![p] = c]
    BY <1>3, SMTT(30) DEF scheduler
  <2>2. /\ proc' \in [Proc -> Slots] /\ proc'[p].state = "RUNNING"
        /\ \A r \in Proc : r # p => proc'[r] = proc[r]
    BY <1>1, <2>1, SetState, Zenon DEF RInv, Types, States
  <2>3. /\ cpu' \in [Cpu -> [proc : 0 .. NPROC, scan : Proc, irq : 0 .. NPROC]]
        /\ cpu'[c].proc = p /\ cpu'[c].irq = 0 /\ \A d \in Cpu \ {c} : cpu'[d] = cpu[d]
    BY <1>1, <2>1, Constants DEF RInv, Types
  <2>4. ~OnCpu(p)
    BY <1>1, <1>3 DEF RInv, RunsOnce, OnCpu
  <2>5. /\ lock' \in [Locks -> Cpu \cup {NoCpu}] /\ lock'[p] = c /\ lock[p] = NoCpu
        /\ \A l \in Locks \ {p} : lock'[l] = lock[l]
    BY <1>1, <2>1, Constants DEF RInv, Types, Free
  <2>6. \A q \in Proc : OnCpu(q)' <=> q = p \/ OnCpu(q)
    BY <1>1, <2>3, Constants, Zenon DEF OnCpu
  <2>7. Types'
    BY <1>2, <2>2, <2>3, <2>5 DEF RInv, Types
  <2>8. RunsOnce'
    <3>1. \A d, e \in Cpu : cpu'[d].proc # 0 /\ cpu'[d].proc = cpu'[e].proc => d = e
      BY <2>3, <2>4 DEF RInv, RunsOnce, OnCpu
    <3>2. \A q \in Proc : Free(q)' => (proc'[q].state = "RUNNING" <=> OnCpu(q)')
      BY <2>2, <2>5, <2>6, Constants, Zenon DEF RInv, RunsOnce, OnCpu, Free
    <3> QED
      BY <3>1, <3>2 DEF RunsOnce, OnCpu
  <2>9. LockInv'
    <3> SUFFICES ASSUME NEW d \in Cpu
                 PROVE  /\ \A l \in Locks : lock'[l] = d <=> Owns(d, l)'
                        /\ cpu'[d].irq # 0 /\ cpu'[d].proc # 0 => thread'[cpu'[d].proc].pc \in Preemptible
      BY DEF LockInv
    <3>1. /\ \A l \in Locks : lock[l] = d <=> Owns(d, l)
          /\ cpu[d].irq # 0 /\ cpu[d].proc # 0 => thread[cpu[d].proc].pc \in Preemptible
      BY DEF RInv, LockInv
    <3>2. CASE d = c
      <4>1. thread[p].pc \in Switching
        BY <1>1, <2>4 DEF RInv, SwitchedOut
      <4>2. \A l \in Locks : Holds(p, thread[p], l) <=> l = p
        BY <4>1 DEF Holds, Switching
      <4>3. \A l \in Locks : lock[l] # c
        BY <1>1, <3>1, <3>2 DEF Owns
      <4>4. p # 0
        BY <1>1, Constants
      <4> QED
        BY <1>2, <2>3, <2>5, <3>2, <4>2, <4>3, <4>4 DEF Owns
    <3>3. CASE d # c
      <4>1. \A l \in Locks : lock'[l] = d <=> lock[l] = d
        BY <2>5, <3>3, Constants
      <4>2. cpu'[d] = cpu[d]
        BY <2>3, <3>3
      <4> QED
        BY <1>2, <3>1, <4>1, <4>2 DEF Owns
    <3> QED
      BY <3>2, <3>3
  <2>10. SwitchedOut' /\ StackInv'
    BY <1>2, <2>6 DEF RInv, SwitchedOut, StackInv
  <2>11. ForkInv'
    <3>1. \A q \in Proc : Top(thread[q]) \in Forking => thread[q].i \in Proc
      BY DEF RInv, StackInv, Stack
    <3>2. \A q \in Proc : Top(thread[q]) \in Forking =>
            /\ proc[thread[q].i].state = "USED" /\ ~OnCpu(thread[q].i)
      BY DEF RInv, ForkInv
    <3>3. \A q \in Proc : Top(thread[q]) \in Forking =>
            /\ proc'[thread[q].i].state = "USED" /\ \A d \in Cpu : cpu'[d].proc # thread[q].i
      BY <1>3, <2>2, <2>3, <3>1, <3>2 DEF OnCpu
    <3> QED
      BY <1>2, <3>3, ForksKept DEF RInv
  <2> QED
    BY <2>7, <2>8, <2>9, <2>10, <2>11 DEF RInv
<1>4. CASE proc[p].state # "RUNNABLE"
  <2>1. cpu' = [cpu EXCEPT ![c].scan = (p % NPROC) + 1] /\ UNCHANGED <<proc, lock>>
    BY <1>4 DEF scheduler
  <2>2. (p % NPROC) + 1 \in Proc
    BY <1>1, Constants
  <2>3. /\ cpu' \in [Cpu -> [proc : 0 .. NPROC, scan : Proc, irq : 0 .. NPROC]]
        /\ \A d \in Cpu : cpu'[d].proc = cpu[d].proc /\ cpu'[d].irq = cpu[d].irq
    BY <2>1, <2>2 DEF RInv, Types
  <2>4. \A q : OnCpu(q)' <=> OnCpu(q)
    BY <2>3 DEF OnCpu
  <2>5. Types' /\ StackInv' /\ SwitchedOut'
    BY <1>2, <2>1, <2>3, <2>4 DEF RInv, Types, StackInv, SwitchedOut
  <2>6. RunsOnce' /\ ForkInv'
    BY <1>2, <2>1, <2>3, <2>4 DEF RInv, RunsOnce, ForkInv, Free, OnCpu
  <2>7. LockInv'
    BY <1>2, <2>1, <2>3 DEF RInv, LockInv, Owns
  <2> QED
    BY <2>5, <2>6, <2>7 DEF RInv
<1> QED
  BY <1>3, <1>4
-----------------------------------------------------------------------------
(* The steps of a thread *)

\* The slot that thread p fills for a fork.
Fills(p, q) == Top(thread[p]) \in Forking /\ q = thread[p].i

\* Thread p becomes t, and its CPU c holds the locks that t needs.
Becomes(p, t) == thread' = [thread EXCEPT ![p] = t]
Relocks(p, c, t) == OwnLocks(c) /\ \A l \in Locks : lock'[l] = c <=> Holds(p, t, l)

\* It runs on unless it holds its lock, and it starts no fork.
RunsOn(p, t) ==
  /\ Free(p)' => proc'[p].state = "RUNNING"
  /\ Top(t) \in Forking => Top(thread[p]) \in Forking /\ t.i = thread[p].i

\* Others neither start nor stop running.
OthersKept(p, t) ==
  \A q \in Proc \ {p} :
    /\ \/ proc'[q].state = proc[q].state
       \/ /\ proc[q].state # "RUNNING" /\ proc'[q].state # "RUNNING"
          /\ proc[q].state = "USED" => Fills(p, q) /\ Top(t) \notin Forking
    /\ lock'[q] = lock[q] \/ Fills(p, q)

LEMMA ThreadStep ==
  ASSUME RInv, NEW p \in Proc, NEW c \in Cpu, cpu[c].proc = p, cpu[c].irq = 0, cpu' = cpu,
         NEW t \in Threads, Stack(t), Becomes(p, t), Relocks(p, c, t), RunsOn(p, t), OthersKept(p, t),
         proc' \in [Proc -> Slots], ticks' \in Int, nextpid' \in Nat
  PROVE  RInv'
<1> USE DEF Becomes, Relocks, RunsOn, OthersKept
<1>1. StackInv' /\ LockInv' /\ SwitchedOut' /\ thread' \in [Proc -> Threads]
  BY Local, Zenon
<1>2. Types'
  BY <1>1 DEF RInv, Types, OwnLocks
<1>3. OnCpu(p)
  BY DEF OnCpu
<1>4. \A q \in Proc : Fills(p, q) => proc[q].state = "USED" /\ ~OnCpu(q)
  BY DEF Fills, RInv, ForkInv
<1>5. RunsOnce'
  <2>1. ASSUME NEW q \in Proc, Free(q)'
        PROVE  \/ Free(q) /\ (proc'[q].state = "RUNNING" <=> proc[q].state = "RUNNING")
               \/ proc'[q].state = "RUNNING" <=> OnCpu(q)
    <3>1. CASE q = p
      BY <1>3, <2>1, <3>1
    <3>2. CASE q # p /\ Fills(p, q)
      BY <1>4, <3>2
    <3>3. CASE q # p /\ ~Fills(p, q)
      BY <2>1, <3>3 DEF Free
    <3> QED
      BY <3>1, <3>2, <3>3
  <2> QED
    BY <2>1, RunsKept DEF RInv
<1>6. ForkInv'
  <2>1. thread'[p] = t /\ \A q \in Proc \ {p} : thread'[q] = thread[q]
    BY DEF RInv, Types
  <2>2. ASSUME NEW q \in Proc, Top(thread'[q]) \in Forking
        PROVE  /\ Top(thread[q]) \in Forking /\ thread'[q].i = thread[q].i
               /\ proc'[thread[q].i].state = "USED" /\ \A d \in Cpu : cpu'[d].proc # thread[q].i
    <3>1. Top(thread[q]) \in Forking /\ thread'[q].i = thread[q].i
      BY <2>1, <2>2
    <3>2. thread[q].i \in Proc /\ proc[thread[q].i].state = "USED" /\ ~OnCpu(thread[q].i)
      BY <3>1 DEF RInv, StackInv, Stack, ForkInv
    <3>3. thread[q].i # p /\ \A d \in Cpu : cpu'[d].proc # thread[q].i
      BY <1>3, <3>2 DEF OnCpu
    <3>4. Fills(p, thread[q].i) => q = p
      BY <3>1 DEF RInv, ForkInv, Fills
    <3>5. Fills(p, thread[q].i) => Top(t) \in Forking
      BY <2>1, <2>2, <3>4
    <3> QED
      BY <3>1, <3>2, <3>3, <3>5
  <2> QED
    BY <2>2, ForksKept DEF RInv
<1> QED
  BY <1>1, <1>2, <1>5, <1>6 DEF RInv

LEMMA Running ==
  ASSUME RInv, NEW p \in Proc, NEW c \in Cpu, cpu[c].proc = p, cpu[c].irq = 0
  PROVE  /\ thread[p] \in Threads /\ Stack(thread[p])
         /\ \A l \in Locks : lock[l] = c <=> Holds(p, thread[p], l)
         /\ Free(p) => proc[p].state = "RUNNING"
         /\ proc \in [Proc -> Slots] /\ lock \in [Locks -> Cpu \cup {NoCpu}]
         /\ ticks \in Int /\ nextpid \in Nat
<1>1. p # 0
  BY Constants
<1>2. \A l \in Locks : lock[l] = c <=> Holds(p, thread[p], l)
  BY <1>1 DEF RInv, LockInv, Owns
<1>3. Free(p) => proc[p].state = "RUNNING"
  BY DEF RInv, RunsOnce
<1> QED
  BY <1>2, <1>3 DEF RInv, Types, StackInv

\* The locks of the CPU a thread runs on, from the thread's label.
LEMMA RunningLocks ==
  ASSUME RInv, NEW p \in Proc, NEW c \in Cpu, cpu[c].proc = p, cpu[c].irq = 0
  PROVE  /\ thread[p].pc \in {"yielded", "slept", "dead", "forkret"} => \A l \in Locks : lock[l] = c <=> l = p
         /\ thread[p].pc \in {"reparent", "wakeup", "zombie", "scan"} =>
              \A l \in Locks : lock[l] = c <=> l = wait_lock
         /\ thread[p].pc = "forkcopy" => \A l \in Locks : lock[l] = c <=> l = thread[p].i
         /\ thread[p].pc = "pausing" => \A l \in Locks : lock[l] = c <=> l = tickslock
         /\ thread[p].pc = "sleep" => \A l \in Locks : lock[l] = c <=> l = thread[p].lk
         /\ thread[p].pc \in Preemptible \cup {"tick", "yield"} => \A l \in Locks : lock[l] # c
<1>1. \A l \in Locks : lock[l] = c <=> Holds(p, thread[p], l)
  BY Running
<1> DEFINE lb == thread[p].pc
<1>2. /\ lb \in {"yielded", "slept", "dead", "forkret"} => \A l \in Locks : Holds(p, thread[p], l) <=> l = p
      /\ lb \in {"reparent", "wakeup", "zombie", "scan"} =>
           \A l \in Locks : Holds(p, thread[p], l) <=> l = wait_lock
  BY DEF Holds, Switching
<1>3. /\ lb = "forkcopy" => \A l \in Locks : Holds(p, thread[p], l) <=> l = thread[p].i
      /\ lb = "pausing" => \A l \in Locks : Holds(p, thread[p], l) <=> l = tickslock
      /\ lb = "sleep" => \A l \in Locks : Holds(p, thread[p], l) <=> l = thread[p].lk
  BY DEF Holds, Switching
<1>4. lb \in Preemptible \cup {"tick", "yield"} => \A l \in Locks : ~Holds(p, thread[p], l)
  BY DEF Holds, Switching, Preemptible
<1> QED
  BY <1>1, <1>2, <1>3, <1>4, Zenon

LEMMA Acquire ==
  ASSUME lock \in [Locks -> Cpu \cup {NoCpu}], NEW c \in Cpu, NEW l \in Locks, Free(l),
         lock' = [lock EXCEPT ![l] = c]
  PROVE  OwnLocks(c) /\ lock'[l] = c /\ \A m \in Locks : m # l => lock'[m] = lock[m]
  BY Constants DEF OwnLocks, Free

LEMMA Release ==
  ASSUME lock \in [Locks -> Cpu \cup {NoCpu}], NEW c \in Cpu, NEW l \in Locks, lock[l] = c,
         lock' = [lock EXCEPT ![l] = NoCpu]
  PROVE  OwnLocks(c) /\ lock'[l] = NoCpu /\ NoCpu # c /\ \A m \in Locks : m # l => lock'[m] = lock[m]
  BY Constants DEF OwnLocks, Free

LEMMA SameLocks ==
  ASSUME lock \in [Locks -> Cpu \cup {NoCpu}], NEW c \in Cpu, lock' = lock
  PROVE  OwnLocks(c)
  BY DEF OwnLocks

\* A thread, put together from its fields.
Thread(l, s, i, x, lk) == [pc |-> l, back |-> s, i |-> i, x |-> x, lk |-> lk]

\* Labels that neither return anywhere nor use the locals.
Plain == {"user", "ret", "exit", "wait", "pause", "pausing", "reparent", "zombie", "dead"}
LEMMA PlainStack ==
  ASSUME NEW t, t.pc \in Plain
  PROVE  Stack(t) /\ Top(t) \notin Forking
  BY DEF Plain, Stack, Top, Yielding, Forking

LEMMA Becoming ==
  ASSUME thread \in [Proc -> Threads], NEW p \in Proc, NEW l \in Labels
  PROVE  /\ Go(p, l) => Becomes(p, Thread(l, thread[p].back, thread[p].i, thread[p].x, thread[p].lk))
         /\ Return(p) => Becomes(p, Thread(Head(thread[p].back), Tail(thread[p].back),
                                          thread[p].i, thread[p].x, thread[p].lk))
         /\ \A i, x \in Int : thread' = [thread EXCEPT ![p].i = i, ![p].x = x] =>
              Becomes(p, Thread(thread[p].pc, thread[p].back, i, x, thread[p].lk))
         /\ \A i \in Int : thread' = [thread EXCEPT ![p].pc = l, ![p].i = i] =>
              Becomes(p, Thread(l, thread[p].back, i, thread[p].x, thread[p].lk))
<1> DEFINE t == thread[p]
<1>1. t \in Threads
  OBVIOUS
<1>2. [t EXCEPT !.pc = l] = Thread(l, t.back, t.i, t.x, t.lk)
  BY <1>1, SMTT(30) DEF Thread, Threads
<1>3. Go(p, l) => Becomes(p, [t EXCEPT !.pc = l])
  BY DEF Go, Becomes
<1>4. Return(p) => Becomes(p, Thread(Head(t.back), Tail(t.back), t.i, t.x, t.lk))
  BY Zenon DEF Return, Becomes, Thread, Threads
<1>5. ASSUME NEW i \in Int, NEW x \in Int
      PROVE  thread' = [thread EXCEPT ![p].i = i, ![p].x = x] => Becomes(p, Thread(t.pc, t.back, i, x, t.lk))
  <2> DEFINE f == [thread EXCEPT ![p].i = i]
             g == [f EXCEPT ![p].x = x]
  <2>1. /\ f \in [Proc -> Threads] /\ \A q \in Proc \ {p} : f[q] = thread[q]
        /\ f[p] = [pc |-> t.pc, back |-> t.back, i |-> i, x |-> t.x, lk |-> t.lk]
    BY DEF Threads
  <2> HIDE DEF f
  <2>2. g = [thread EXCEPT ![p] = Thread(t.pc, t.back, i, x, t.lk)]
    <3>1. [f[p] EXCEPT !.x = x] = Thread(t.pc, t.back, i, x, t.lk)
      BY <2>1 DEF Thread
    <3>2. g = [f EXCEPT ![p] = Thread(t.pc, t.back, i, x, t.lk)]
      BY <3>1, Zenon
    <3> HIDE DEF g
    <3> QED
      BY <2>1, <3>2, Zenon
  <2>3. [thread EXCEPT ![p].i = i, ![p].x = x] = g
    BY Zenon DEF f
  <2> HIDE DEF g
  <2> QED
    BY <2>2, <2>3, Zenon DEF Becomes
<1>6. ASSUME NEW i \in Int
      PROVE  thread' = [thread EXCEPT ![p].pc = l, ![p].i = i] => Becomes(p, Thread(l, t.back, i, t.x, t.lk))
  <2> DEFINE f == [thread EXCEPT ![p].pc = l]
             g == [f EXCEPT ![p].i = i]
  <2>1. /\ f \in [Proc -> Threads] /\ \A q \in Proc \ {p} : f[q] = thread[q]
        /\ f[p] = [pc |-> l, back |-> t.back, i |-> t.i, x |-> t.x, lk |-> t.lk]
    BY DEF Threads
  <2> HIDE DEF f
  <2>2. g = [thread EXCEPT ![p] = Thread(l, t.back, i, t.x, t.lk)]
    <3>1. [f[p] EXCEPT !.i = i] = Thread(l, t.back, i, t.x, t.lk)
      BY <2>1 DEF Thread
    <3>2. g = [f EXCEPT ![p] = Thread(l, t.back, i, t.x, t.lk)]
      BY <3>1, Zenon
    <3> HIDE DEF g
    <3> QED
      BY <2>1, <3>2, Zenon
  <2>3. [thread EXCEPT ![p].pc = l, ![p].i = i] = g
    BY Zenon DEF f
  <2> HIDE DEF g
  <2> QED
    BY <2>2, <2>3, Zenon DEF Becomes
<1> QED
  BY <1>2, <1>3, <1>4, <1>5, <1>6

\* What yield(), sleep() and kexit() write to their own process.
LEMMA OwnState ==
  ASSUME RInv, NEW p \in Proc, NEW s \in States, proc' = [proc EXCEPT ![p].state = s]
  PROVE  proc' \in [Proc -> Slots] /\ \A q \in Proc \ {p} : proc'[q] = proc[q]
  BY SetState, ZenonT(40) DEF RInv, Types

LEMMA yieldR ==
  ASSUME RInv, NEW p \in Proc, NEW c \in Cpu, yield(p, c)
  PROVE  RInv'
<1> DEFINE t == Thread("yielded", thread[p].back, thread[p].i, thread[p].x, thread[p].lk)
<1>1. cpu[c].proc = p /\ cpu[c].irq = 0 /\ thread[p].pc = "yield" /\ Free(p)
  BY DEF yield, Runs
<1>2. /\ thread[p] \in Threads /\ Stack(thread[p])
      /\ \A l \in Locks : lock[l] # c
      /\ proc \in [Proc -> Slots] /\ lock \in [Locks -> Cpu \cup {NoCpu}]
      /\ ticks \in Int /\ nextpid \in Nat
  <2>1. \A l \in Locks : lock[l] # c
    BY <1>1, RunningLocks DEF Preemptible
  <2> QED
    BY <1>1, <2>1, Running, Zenon
<1>3. Becomes(p, t)
  BY Becoming, Zenon DEF yield, RInv, Types, Labels
<1>4. t \in Threads /\ Stack(t) /\ \A l \in Locks : Holds(p, t, l) <=> l = p
  BY <1>1, <1>2, ZenonT(40) DEF Thread, Threads, Labels, Stack, Top, Below, Yielding, Holds, Switching
<1>5. OwnLocks(c) /\ lock'[p] = c /\ \A m \in Locks : m # p => lock'[m] = lock[m]
  BY <1>1, <1>2, Acquire, Constants, ZenonT(40) DEF yield
<1>6. proc' \in [Proc -> Slots] /\ \A q \in Proc \ {p} : proc'[q] = proc[q]
  BY OwnState, Zenon DEF yield, States
<1>7. RunsOn(p, t)
  BY <1>1, <1>5, Constants DEF Top, Thread, Yielding, RunsOn, Free
<1>8. cpu' = cpu /\ ticks' \in Int /\ nextpid' \in Nat
  BY <1>2 DEF yield
<1> HIDE DEF t
<1>9. Relocks(p, c, t)
  BY <1>2, <1>4, <1>5 DEF Relocks
<1>10. OthersKept(p, t)
  BY <1>5, <1>6, Constants DEF OthersKept
<1> QED
  BY <1>1, <1>3, <1>4, <1>6, <1>7, <1>8, <1>9, <1>10, ThreadStep

LEMMA resumedR ==
  ASSUME RInv, NEW p \in Proc, NEW c \in Cpu, resumed(p, c)
  PROVE  RInv'
<1> DEFINE t == Thread(Head(thread[p].back), Tail(thread[p].back), thread[p].i, thread[p].x, thread[p].lk)
<1>1. /\ cpu[c].proc = p /\ cpu[c].irq = 0 /\ thread[p].pc \in {"yielded", "forkret"}
      /\ proc[p].state = "RUNNING"
  BY DEF resumed, Runs
<1>2. /\ thread[p] \in Threads /\ Stack(thread[p])
      /\ \A l \in Locks : lock[l] = c <=> l = p
      /\ proc \in [Proc -> Slots] /\ lock \in [Locks -> Cpu \cup {NoCpu}]
      /\ ticks \in Int /\ nextpid \in Nat
  <2>1. \A l \in Locks : lock[l] = c <=> l = p
    BY <1>1, RunningLocks DEF Preemptible
  <2> QED
    BY <1>1, <2>1, Running, Zenon
<1>3. Becomes(p, t)
  BY Becoming, ZenonT(40) DEF resumed, RInv, Types, Labels
<1>6. /\ t \in Threads /\ Stack(t) /\ \A l \in Locks : ~Holds(p, t, l)
      /\ Top(t) \in Forking => Top(t) = Top(thread[p]) /\ t.i = thread[p].i
  <2>1. CASE thread[p].pc = "yielded"
    <3>1. Head(thread[p].back) \in Preemptible /\ thread[p].back # <<>> /\ thread[p].back \in Seq(Labels)
      BY <1>2, <2>1 DEF Stack, Yielding, Threads
    <3>2. Head(thread[p].back) \in Labels /\ Tail(thread[p].back) \in Seq(Labels)
      BY <3>1, SMTT(30)
    <3>3. t \in Threads /\ \A l \in Locks : ~Holds(p, t, l)
      BY <1>2, <3>1, <3>2, ZenonT(40) DEF Thread, Threads, Preemptible, Holds, Switching
    <3>4. Stack(t) /\ Top(t) = Top(thread[p]) /\ t.i = thread[p].i
      BY <1>2, <2>1, <3>1, ZenonT(40) DEF Stack, Top, Below, Yielding, Preemptible, Thread
    <3> QED
      BY <3>3, <3>4
  <2>2. CASE thread[p].pc = "forkret"
    <3>1. thread[p].back = <<"user">>
      BY <1>2, <2>2 DEF Stack, Top, Below, Yielding
    <3>2. Head(thread[p].back) = "user" /\ Tail(thread[p].back) \in Seq(Labels)
      BY <3>1 DEF Labels
    <3>3. "user" \in Labels
      BY SMTT(30) DEF Labels
    <3>5. t.pc = "user" /\ t \in Threads
      BY <1>2, <3>2, <3>3 DEF Thread, Threads
    <3>6. "user" \in Plain /\ "user" \notin Forking
      BY DEF Plain, Forking
    <3>7. \A l \in Locks : ~Holds(p, t, l)
      BY <3>5 DEF Holds, Switching
    <3> HIDE DEF t
    <3> QED
      BY <3>5, <3>6, <3>7, PlainStack, Zenon
  <2> QED
    BY <1>1, <2>1, <2>2, Zenon
<1>8. OwnLocks(c) /\ c # NoCpu /\ lock'[p] = NoCpu /\ \A m \in Locks : m # p => lock'[m] = lock[m]
  BY <1>2, Release, Constants, ZenonT(40) DEF resumed
<1>9. proc' = proc /\ cpu' = cpu /\ ticks' = ticks /\ nextpid' = nextpid
  BY DEF resumed
<1> HIDE DEF t
<1>10. Relocks(p, c, t)
  BY <1>2, <1>6, <1>8 DEF Relocks
<1>11. OthersKept(p, t) /\ RunsOn(p, t)
  BY <1>1, <1>6, <1>8, <1>9, Constants DEF OthersKept, RunsOn
<1> QED
  BY <1>1, <1>2, <1>3, <1>6, <1>9, <1>10, <1>11, ThreadStep

\* sleep() and slept.
LEMMA SetChan ==
  ASSUME proc \in [Proc -> Slots], NEW p \in Proc, NEW s \in States, NEW ch \in Locks
  PROVE  proc' = [proc EXCEPT ![p].state = s, ![p].chan = ch] =>
           /\ proc' \in [Proc -> Slots] /\ proc'[p].state = s /\ proc'[p].chan = ch
           /\ proc'[p].parent = proc[p].parent
           /\ \A q \in Proc \ {p} : proc'[q] = proc[q]
<1> DEFINE f == [proc EXCEPT ![p].state = s]
           g == [f EXCEPT ![p].chan = ch]
<1>1. /\ f \in [Proc -> Slots] /\ f[p].state = s /\ f[p].parent = proc[p].parent
      /\ \A q \in Proc \ {p} : f[q] = proc[q]
  BY DEF Slots
<1> HIDE DEF f
<1>2. /\ g \in [Proc -> Slots] /\ g[p].state = s /\ g[p].chan = ch /\ g[p].parent = proc[p].parent
      /\ \A q \in Proc \ {p} : g[q] = proc[q]
  BY <1>1 DEF Slots
<1>3. [proc EXCEPT ![p].state = s, ![p].chan = ch] = g
  BY Zenon DEF f
<1> HIDE DEF g
<1> QED
  BY <1>2, <1>3, Zenon

LEMMA sleepR ==
  ASSUME RInv, NEW p \in Proc, NEW c \in Cpu, sleep(p, c)
  PROVE  RInv'
<1> DEFINE t == Thread("slept", thread[p].back, thread[p].i, thread[p].x, thread[p].lk)
           lk == thread[p].lk
<1>1. cpu[c].proc = p /\ cpu[c].irq = 0 /\ thread[p].pc = "sleep" /\ Free(p)
  BY DEF sleep, Runs
<1>2. /\ thread[p] \in Threads /\ Stack(thread[p])
      /\ \A l \in Locks : lock[l] = c <=> l = lk
      /\ proc \in [Proc -> Slots] /\ lock \in [Locks -> Cpu \cup {NoCpu}]
      /\ ticks \in Int /\ nextpid \in Nat
  <2>1. \A l \in Locks : lock[l] = c <=> l = lk
    BY <1>1, RunningLocks DEF Preemptible
  <2> QED
    BY <1>1, <2>1, Running, Zenon
<1>3. Becomes(p, t)
  BY Becoming, ZenonT(40) DEF sleep, RInv, Types, Labels
<1>4. t \in Threads /\ Stack(t) /\ Top(t) \notin Forking /\ \A l \in Locks : Holds(p, t, l) <=> l = p
  BY <1>1, <1>2, ZenonT(40) DEF Thread, Threads, Labels, Stack, Top, Below, Yielding, Holds, Switching, Forking
<1>5. lk \in Locks /\ p \in Locks /\ lk # p /\ lk \notin Proc
  BY <1>2, Constants, Zenon DEF Threads
<1>6. /\ OwnLocks(c) /\ lock'[p] = c /\ lock'[lk] = NoCpu /\ c # NoCpu
      /\ \A m \in Locks : m # p /\ m # lk => lock'[m] = lock[m]
  BY <1>1, <1>2, <1>5, Constants, SMTT(30) DEF sleep, OwnLocks, Free
<1>7. proc' \in [Proc -> Slots] /\ \A q \in Proc \ {p} : proc'[q] = proc[q]
  <2>1. (IF lk = wait_lock THEN p ELSE lk) \in Locks /\ "SLEEPING" \in States
    BY <1>5 DEF States
  <2>2. proc' = [proc EXCEPT ![p].state = "SLEEPING", ![p].chan = IF lk = wait_lock THEN p ELSE lk]
    BY DEF sleep
  <2> QED
    BY <1>2, <2>1, <2>2, SetChan, Zenon
<1>8. cpu' = cpu /\ ticks' \in Int /\ nextpid' \in Nat
  BY <1>2 DEF sleep
<1> HIDE DEF t, lk
<1>9. Relocks(p, c, t) /\ RunsOn(p, t)
  BY <1>2, <1>4, <1>6 DEF Relocks, RunsOn, Free
<1>10. OthersKept(p, t)
  BY <1>5, <1>6, <1>7, Constants DEF OthersKept
<1> QED
  BY <1>1, <1>3, <1>4, <1>7, <1>8, <1>9, <1>10, ThreadStep

LEMMA sleptR ==
  ASSUME RInv, NEW p \in Proc, NEW c \in Cpu, slept(p, c)
  PROVE  RInv'
<1> DEFINE t == Thread("relock", thread[p].back, thread[p].i, thread[p].x, thread[p].lk)
<1>1. cpu[c].proc = p /\ cpu[c].irq = 0 /\ thread[p].pc = "slept" /\ proc[p].state = "RUNNING"
  BY DEF slept, Runs
<1>2. /\ thread[p] \in Threads /\ Stack(thread[p])
      /\ \A l \in Locks : lock[l] = c <=> l = p
      /\ proc \in [Proc -> Slots] /\ lock \in [Locks -> Cpu \cup {NoCpu}]
      /\ ticks \in Int /\ nextpid \in Nat
  <2>1. \A l \in Locks : lock[l] = c <=> l = p
    BY <1>1, RunningLocks DEF Preemptible
  <2> QED
    BY <1>1, <2>1, Running, Zenon
<1>3. Becomes(p, t)
  BY Becoming, ZenonT(40) DEF slept, RInv, Types, Labels
<1>4. t \in Threads /\ Stack(t) /\ Top(t) \notin Forking /\ \A l \in Locks : ~Holds(p, t, l)
  BY <1>1, <1>2, Zenon DEF Thread, Threads, Labels, Stack, Top, Below, Yielding, Holds, Switching, Forking
<1>5. OwnLocks(c) /\ c # NoCpu /\ lock'[p] = NoCpu /\ \A m \in Locks : m # p => lock'[m] = lock[m]
  BY <1>2, Release, Constants, ZenonT(40) DEF slept
<1>6. /\ proc' \in [Proc -> Slots] /\ proc'[p].state = proc[p].state
      /\ \A q \in Proc \ {p} : proc'[q] = proc[q]
  BY <1>2, Constants DEF slept, Slots
<1>7. cpu' = cpu /\ ticks' \in Int /\ nextpid' \in Nat
  BY <1>2 DEF slept
<1> HIDE DEF t
<1>8. Relocks(p, c, t) /\ RunsOn(p, t)
  BY <1>1, <1>2, <1>4, <1>5, <1>6, Zenon DEF Relocks, RunsOn
<1>9. OthersKept(p, t)
  BY <1>5, <1>6, Constants, SMTT(30) DEF OthersKept
<1> QED
  BY <1>1, <1>3, <1>4, <1>6, <1>7, <1>8, <1>9, ThreadStep

LEMMA zombieR ==
  ASSUME RInv, NEW p \in Proc, NEW c \in Cpu, zombie(p, c)
  PROVE  RInv'
<1> DEFINE t == Thread("dead", <<>>, 0, 0, 0)
<1>1. cpu[c].proc = p /\ cpu[c].irq = 0 /\ thread[p].pc = "zombie" /\ Free(p)
  BY DEF zombie, Runs
<1>2. /\ \A l \in Locks : lock[l] = c <=> l = wait_lock
      /\ proc \in [Proc -> Slots] /\ lock \in [Locks -> Cpu \cup {NoCpu}]
      /\ ticks \in Int /\ nextpid \in Nat
  <2>1. \A l \in Locks : lock[l] = c <=> l = wait_lock
    BY <1>1, RunningLocks DEF Preemptible
  <2> QED
    BY <1>1, <2>1, Running, Zenon
<1>3. Becomes(p, t)
  BY DEF zombie, Becomes, At, Thread
<1>4. t \in Threads /\ t.pc = "dead"
  BY Constants DEF Thread, Threads, Labels
<1>5. Stack(t) /\ Top(t) \notin Forking /\ \A l \in Locks : Holds(p, t, l) <=> l = p
  BY <1>4, PlainStack DEF Plain, Holds, Switching
<1>6. /\ OwnLocks(c) /\ lock'[p] = c /\ lock'[wait_lock] = NoCpu /\ c # NoCpu
      /\ \A m \in Locks : m # p /\ m # wait_lock => lock'[m] = lock[m]
  BY <1>1, <1>2, Constants, Zenon DEF zombie, OwnLocks, Free
<1>7. proc' \in [Proc -> Slots] /\ \A q \in Proc \ {p} : proc'[q] = proc[q]
  BY OwnState, Zenon DEF zombie, States
<1>8. cpu' = cpu /\ ticks' \in Int /\ nextpid' \in Nat
  BY <1>2 DEF zombie
<1> HIDE DEF t
<1>9. Relocks(p, c, t) /\ RunsOn(p, t)
  BY <1>2, <1>5, <1>6 DEF Relocks, RunsOn, Free
<1>10. OthersKept(p, t)
  BY <1>6, <1>7, Constants DEF OthersKept
<1> QED
  BY <1>1, <1>3, <1>4, <1>5, <1>7, <1>8, <1>9, <1>10, ThreadStep
-----------------------------------------------------------------------------
(* Steps that leave the locks of processes alone *)

\* Others may be woken or freed.
Gentle(p) ==
  \A q \in Proc :
    /\ lock'[q] = lock[q]
    /\ \/ proc'[q].state = proc[q].state
       \/ q # p /\ proc[q].state \notin {"USED", "RUNNING"} /\ proc'[q].state # "RUNNING"

LEMMA CallStep ==
  ASSUME RInv, NEW p \in Proc, NEW c \in Cpu, cpu[c].proc = p, cpu[c].irq = 0, cpu' = cpu,
         NEW t \in Threads, Stack(t), Becomes(p, t), Relocks(p, c, t), Gentle(p),
         Top(t) \in Forking => Top(thread[p]) \in Forking /\ t.i = thread[p].i,
         proc' \in [Proc -> Slots], ticks' \in Int, nextpid' \in Nat
  PROVE  RInv'
<1>1. Free(p)' => Free(p)
  BY SMTT(30) DEF Gentle, Free
<1>2. RunsOn(p, t)
  BY <1>1, Running, SMTT(30) DEF RunsOn, Gentle
<1>3. OthersKept(p, t)
  BY SMTT(30) DEF OthersKept, Gentle
<1> QED
  BY <1>2, <1>3, ThreadStep

\* The process table stays as it is.
LEMMA QuietStep ==
  ASSUME RInv, NEW p \in Proc, NEW c \in Cpu, cpu[c].proc = p, cpu[c].irq = 0, cpu' = cpu,
         NEW t \in Threads, Stack(t), Becomes(p, t), Relocks(p, c, t),
         \A q \in Proc : lock'[q] = lock[q],
         Top(t) \in Forking => Top(thread[p]) \in Forking /\ t.i = thread[p].i,
         proc' = proc, ticks' \in Int, nextpid' \in Nat
  PROVE  RInv'
<1>1. Gentle(p) /\ proc' \in [Proc -> Slots]
  BY DEF Gentle, RInv, Types
<1> QED
  BY <1>1, CallStep

\* A thread that At() builds.
LEMMA AtThread ==
  ASSUME NEW l \in Labels, NEW i \in Int, NEW x \in Int
  PROVE  /\ At(l, <<>>, i, x) \in Threads /\ At(l, <<>>, i, x).pc = l
         /\ At(l, <<>>, i, x).i = i /\ At(l, <<>>, i, x).x = x /\ At(l, <<>>, i, x).lk = 0
<1>1. <<>> \in Seq(Labels)
  OBVIOUS
<1> QED
  BY <1>1, Constants DEF At, Threads

LEMMA PlainAt ==
  ASSUME NEW l \in Plain, NEW p
  PROVE  /\ At(l, <<>>, 0, 0) \in Threads /\ Stack(At(l, <<>>, 0, 0))
         /\ Top(At(l, <<>>, 0, 0)) \notin Forking
         /\ l \in {"user", "ret", "exit"} => \A m \in Locks : ~Holds(p, At(l, <<>>, 0, 0), m)
<1>1. l \in Labels /\ <<>> \in Seq(Labels)
  BY DEF Plain, Labels
<1>2. At(l, <<>>, 0, 0) \in Threads /\ At(l, <<>>, 0, 0).pc = l
  BY <1>1, AtThread
<1>3. Stack(At(l, <<>>, 0, 0)) /\ Top(At(l, <<>>, 0, 0)) \notin Forking
  BY <1>2, PlainStack
<1>4. l \in {"user", "ret", "exit"} => \A m \in Locks : ~Holds(p, At(l, <<>>, 0, 0), m)
  BY <1>2 DEF Holds, Switching
<1> QED
  BY <1>2, <1>3, <1>4

LEMMA trapretR ==
  ASSUME RInv, NEW p \in Proc, NEW c \in Cpu, trapret(p, c)
  PROVE  RInv'
<1> DEFINE t == IF proc[p].killed THEN At("exit", <<>>, 0, 0) ELSE User
<1>1. cpu[c].proc = p /\ cpu[c].irq = 0 /\ thread[p].pc = "ret"
  BY DEF trapret, Runs
<1>2. /\ \A l \in Locks : lock[l] # c
      /\ lock \in [Locks -> Cpu \cup {NoCpu}] /\ ticks \in Int /\ nextpid \in Nat
  <2>1. \A l \in Locks : lock[l] # c
    BY <1>1, RunningLocks DEF Preemptible
  <2> QED
    BY <1>1, <2>1, Running, Zenon
<1>3. Becomes(p, t)
  BY DEF trapret, Becomes
<1>4. t \in Threads /\ Stack(t) /\ Top(t) \notin Forking /\ \A l \in Locks : ~Holds(p, t, l)
  BY PlainAt DEF Plain, User
<1>5. lock' = lock /\ proc' = proc /\ cpu' = cpu /\ ticks' = ticks /\ nextpid' = nextpid
  BY DEF trapret
<1> HIDE DEF t
<1>6. Relocks(p, c, t)
  BY <1>2, <1>4, <1>5, SameLocks, SMTT(30) DEF Relocks
<1> QED
  BY <1>1, <1>2, <1>3, <1>4, <1>5, <1>6, QuietStep

LEMMA tickR ==
  ASSUME RInv, NEW p \in Proc, NEW c \in Cpu, tick(p, c)
  PROVE  RInv'
<1> DEFINE t == IF proc[p].killed THEN At("exit", <<>>, 0, 0) ELSE [thread[p] EXCEPT !.pc = "yield"]
<1>1. cpu[c].proc = p /\ cpu[c].irq = 0 /\ thread[p].pc = "tick"
  BY DEF tick, Runs
<1>2. /\ thread[p] \in Threads /\ Stack(thread[p]) /\ \A l \in Locks : lock[l] # c
      /\ lock \in [Locks -> Cpu \cup {NoCpu}] /\ ticks \in Int /\ nextpid \in Nat
  <2>1. \A l \in Locks : lock[l] # c
    BY <1>1, RunningLocks DEF Preemptible
  <2> QED
    BY <1>1, <2>1, Running, Zenon
<1>3. Becomes(p, t)
  BY <1>2 DEF tick, Becomes
<1>4. /\ t \in Threads /\ Stack(t) /\ \A l \in Locks : ~Holds(p, t, l)
      /\ Top(t) \in Forking => Top(t) = Top(thread[p]) /\ t.i = thread[p].i
  <2>1. CASE proc[p].killed
    BY <2>1, PlainAt, SMTT(30) DEF Plain
  <2>2. CASE ~proc[p].killed
    <3>1. t = [thread[p] EXCEPT !.pc = "yield"]
      BY <2>2
    <3>2. t \in Threads /\ t.pc = "yield" /\ t.back = thread[p].back /\ t.i = thread[p].i /\ t.lk = thread[p].lk
      BY <1>2, <3>1 DEF Threads, Labels
    <3> HIDE DEF t
    <3> QED
      BY <1>1, <1>2, <3>2 DEF Stack, Top, Below, Yielding, Holds, Switching
  <2> QED
    BY <2>1, <2>2
<1>5. lock' = lock /\ proc' = proc /\ cpu' = cpu /\ ticks' = ticks /\ nextpid' = nextpid
  BY DEF tick
<1> HIDE DEF t
<1>6. Relocks(p, c, t)
  BY <1>2, <1>4, <1>5, SameLocks, SMTT(30) DEF Relocks
<1> QED
  BY <1>1, <1>2, <1>3, <1>4, <1>5, <1>6, QuietStep

LEMMA syscallR ==
  ASSUME RInv, NEW p \in Proc, NEW c \in Cpu, syscall(p, c)
  PROVE  RInv'
<1>1. cpu[c].proc = p /\ cpu[c].irq = 0 /\ thread[p].pc = "user"
  BY DEF syscall, Runs
<1>2. /\ \A l \in Locks : lock[l] # c
      /\ lock \in [Locks -> Cpu \cup {NoCpu}] /\ ticks \in Int /\ nextpid \in Nat
  <2>1. \A l \in Locks : lock[l] # c
    BY <1>1, RunningLocks DEF Preemptible
  <2> QED
    BY <1>1, <2>1, Running, Zenon
<1>3. PICK f \in Calls, x \in KillPids \cup Pauses \cup {0} :
        Becomes(p, IF proc[p].killed THEN At("exit", <<>>, 0, 0) ELSE At(f, <<>>, 1, x))
  BY Zenon DEF syscall, Becomes
<1> DEFINE t == IF proc[p].killed THEN At("exit", <<>>, 0, 0) ELSE At(f, <<>>, 1, x)
<1>4. t \in Threads /\ Stack(t) /\ Top(t) \notin Forking /\ \A l \in Locks : ~Holds(p, t, l)
  <2>1. CASE proc[p].killed
    BY <2>1, PlainAt DEF Plain
  <2>2. CASE ~proc[p].killed
    <3>1. f \in {"fork", "exit", "wait", "kill", "pause"} /\ x \in Int
      BY ProcAssumption
    <3>2. f \in Labels /\ <<>> \in Seq(Labels) /\ t = At(f, <<>>, 1, x)
      BY <2>2, <3>1 DEF Labels
    <3>3. At(f, <<>>, 1, x) \in Threads /\ At(f, <<>>, 1, x).pc = f /\ At(f, <<>>, 1, x).i = 1
      <4>1. f \in Labels /\ x \in Int /\ 1 \in Int
        BY <3>1, <3>2
      <4> QED
        BY <4>1, AtThread
    <3>4. t \in Threads /\ t.pc = f /\ t.i = 1
      BY <3>3, <2>2
    <3> HIDE DEF t
    <3> QED
      BY <3>1, <3>4, Constants DEF Stack, Top, Yielding, Forking, Holds, Switching
  <2> QED
    BY <2>1, <2>2
<1>5. lock' = lock /\ proc' = proc /\ cpu' = cpu /\ ticks' = ticks /\ nextpid' = nextpid
  BY DEF syscall
<1>6. Becomes(p, t)
  BY <1>3
<1> HIDE DEF t
<1>7. Relocks(p, c, t)
  BY <1>2, <1>4, <1>5, SameLocks DEF Relocks
<1> QED
  BY <1>1, <1>2, <1>4, <1>5, <1>6, <1>7, QuietStep, Zenon

LEMMA Single ==
  ASSUME NEW l \in Labels, NEW s, s = <<l>>
  PROVE  Head(s) = l /\ Tail(s) \in Seq(Labels)
  OBVIOUS

LEMMA relockR ==
  ASSUME RInv, NEW p \in Proc, NEW c \in Cpu, relock(p, c)
  PROVE  RInv'
<1> DEFINE t == Thread(Head(thread[p].back), Tail(thread[p].back), thread[p].i, thread[p].x, thread[p].lk)
           lk == thread[p].lk
<1>1. cpu[c].proc = p /\ cpu[c].irq = 0 /\ thread[p].pc = "relock" /\ Free(lk)
  BY SMTT(30) DEF relock, Runs
<1>2. /\ thread[p] \in Threads /\ Stack(thread[p]) /\ \A l \in Locks : lock[l] # c
      /\ lock \in [Locks -> Cpu \cup {NoCpu}] /\ ticks \in Int /\ nextpid \in Nat
  <2>1. \A l \in Locks : lock[l] # c
    BY <1>1, RunningLocks DEF Preemptible
  <2> QED
    BY <1>1, <2>1, Running, Zenon
<1>3. Becomes(p, t)
  BY Becoming, Zenon DEF relock, RInv, Types, Labels
<1>4. \/ lk = wait_lock /\ thread[p].back = <<"scan">> /\ thread[p].i = 1
      \/ lk = tickslock /\ thread[p].back = <<"pausing">>
  BY <1>1, <1>2 DEF Stack, Top, Below, Yielding
<1>5. /\ Tail(thread[p].back) \in Seq(Labels)
      /\ \/ lk = wait_lock /\ Head(thread[p].back) = "scan" /\ thread[p].i = 1
         \/ lk = tickslock /\ Head(thread[p].back) = "pausing"
  <2>1. "scan" \in Labels /\ "pausing" \in Labels
    BY DEF Labels
  <2> QED
    BY <1>4, <2>1, Single, ZenonT(40)
<1>6. /\ t \in Threads /\ t.i = thread[p].i
      /\ \/ lk = wait_lock /\ t.pc = "scan" /\ t.i = 1
         \/ lk = tickslock /\ t.pc = "pausing"
  <2>1. Head(thread[p].back) \in Labels
    BY <1>5 DEF Labels
  <2>2. t \in Threads /\ t.i = thread[p].i /\ t.pc = Head(thread[p].back)
    BY <1>2, <1>5, <2>1, ZenonT(40) DEF Thread, Threads
  <2> HIDE DEF t
  <2> QED
    BY <1>5, <2>2
<1>7. lk \in Locks /\ lk \notin Proc
  BY <1>4, Constants
<1>8. OwnLocks(c) /\ lock'[lk] = c /\ \A m \in Locks : m # lk => lock'[m] = lock[m]
  BY <1>1, <1>2, <1>7, Acquire, ZenonT(40) DEF relock
<1>9. proc' = proc /\ cpu' = cpu /\ ticks' = ticks /\ nextpid' = nextpid
  BY DEF relock
<1> HIDE DEF t, lk
<1>10. Stack(t) /\ Top(t) \notin Forking /\ \A l \in Locks : Holds(p, t, l) <=> l = lk
  BY <1>6, Constants DEF Stack, Top, Yielding, Forking, Holds, Switching
<1>11. Relocks(p, c, t) /\ \A q \in Proc : lock'[q] = lock[q]
  BY <1>2, <1>7, <1>8, <1>10, Constants DEF Relocks
<1> QED
  BY <1>1, <1>2, <1>3, <1>6, <1>9, <1>10, <1>11, QuietStep

\* wakeup() makes sleepers runnable.
LEMMA WokenStates ==
  ASSUME proc \in [Proc -> Slots], NEW q \in Proc, NEW ch
  PROVE  /\ Woken(q, ch) \in [Proc -> Slots]
         /\ Woken(q, ch)[q].state # "SLEEPING" \/ Woken(q, ch)[q].chan # ch
         /\ \A r \in Proc :
              /\ r # q => Woken(q, ch)[r] = proc[r]
              /\ Woken(q, ch)[r].parent = proc[r].parent /\ Woken(q, ch)[r].chan = proc[r].chan
              /\ \/ Woken(q, ch)[r].state = proc[r].state
                 \/ proc[r].state = "SLEEPING" /\ Woken(q, ch)[r].state = "RUNNABLE"
<1>1. CASE proc[q].state = "SLEEPING" /\ proc[q].chan = ch
  <2> DEFINE f == [proc EXCEPT ![q].state = "RUNNABLE"]
  <2>1. Woken(q, ch) = f
    BY <1>1 DEF Woken
  <2>2. /\ f \in [Proc -> Slots] /\ f[q].state = "RUNNABLE" /\ proc[q].state = "SLEEPING"
        /\ \A r \in Proc : /\ r # q => f[r] = proc[r]
                           /\ f[r].parent = proc[r].parent /\ f[r].chan = proc[r].chan
    BY <1>1 DEF Slots, States
  <2> HIDE DEF f
  <2> QED
    BY <2>1, <2>2
<1>2. CASE ~(proc[q].state = "SLEEPING" /\ proc[q].chan = ch)
  BY <1>2 DEF Woken
<1> QED
  BY <1>1, <1>2

LEMMA wakeupR ==
  ASSUME RInv, NEW p \in Proc, NEW c \in Cpu, wakeup(p, c)
  PROVE  RInv'
<1> DEFINE q == thread[p].i
           t1 == Thread(Head(thread[p].back), Tail(thread[p].back), thread[p].i, thread[p].x, thread[p].lk)
           t2 == [thread[p] EXCEPT !.i = @ + 1]
<1>1. cpu[c].proc = p /\ cpu[c].irq = 0 /\ thread[p].pc = "wakeup"
  BY SMTT(30) DEF wakeup, Runs
<1>2. /\ thread[p] \in Threads /\ Stack(thread[p]) /\ \A l \in Locks : lock[l] = c <=> l = wait_lock
      /\ proc \in [Proc -> Slots]
      /\ lock \in [Locks -> Cpu \cup {NoCpu}] /\ ticks \in Int /\ nextpid \in Nat
  <2>1. \A l \in Locks : lock[l] = c <=> l = wait_lock
    BY <1>1, RunningLocks DEF Preemptible
  <2> QED
    BY <1>1, <2>1, Running, Zenon
<1>3. /\ q \in Proc
      /\ thread[p].back = <<"reparent">> \/ thread[p].back = <<"zombie">>
  BY <1>1, <1>2 DEF Stack, Top, Below, Yielding
<1>4. UNCHANGED <<cpu, lock, ticks, nextpid>>
  BY DEF wakeup
<1>5. proc' \in [Proc -> Slots] /\ Gentle(p)
  <2>1. CASE q = p
    BY <1>2, <1>4, <2>1 DEF wakeup, Gentle
  <2>2. CASE q # p
    <3>1. proc' = Woken(q, thread[p].x)
      BY <2>2, SMTT(30) DEF wakeup
    <3>2. /\ proc' \in [Proc -> Slots]
          /\ \A r \in Proc : /\ r # q => proc'[r] = proc[r]
                             /\ \/ proc'[r].state = proc[r].state
                                \/ proc[r].state = "SLEEPING" /\ proc'[r].state = "RUNNABLE"
      BY <1>2, <1>3, <3>1, WokenStates, SMTT(30)
    <3> QED
      BY <1>4, <2>2, <3>2 DEF Gentle
  <2> QED
    BY <2>1, <2>2
<1>6. CASE q = NPROC
  <2>1. Becomes(p, t1)
    BY <1>6, Becoming, Zenon DEF wakeup, RInv, Types, Labels
  <2>2. Head(thread[p].back) \in {"reparent", "zombie"} /\ Tail(thread[p].back) \in Seq(Labels)
    <3>1. "reparent" \in Labels /\ "zombie" \in Labels
      BY DEF Labels
    <3> QED
      BY <1>3, <3>1, Single, Zenon
  <2>3. t1 \in Threads /\ t1.pc \in {"reparent", "zombie"}
    BY <1>2, <2>2 DEF Thread, Threads, Labels
  <2> HIDE DEF t1
  <2>4. Stack(t1) /\ Top(t1) \notin Forking /\ \A l \in Locks : Holds(p, t1, l) <=> l = wait_lock
    BY <2>3, PlainStack DEF Plain, Holds, Switching
  <2>5. Relocks(p, c, t1)
    BY <1>2, <1>4, <2>4, SameLocks, SMTT(30) DEF Relocks
  <2> QED
    BY <1>1, <1>2, <1>4, <1>5, <2>1, <2>3, <2>4, <2>5, CallStep, ZenonT(40)
<1>7. CASE q # NPROC
  <2>1. Becomes(p, t2)
    BY <1>7 DEF wakeup, Becomes
  <2>2. t2 \in Threads /\ t2.pc = "wakeup" /\ t2.i \in Proc /\ t2.back = thread[p].back
    <3>1. t2 \in Threads /\ t2.pc = "wakeup" /\ t2.i = q + 1 /\ t2.back = thread[p].back
      BY <1>1, <1>2 DEF Threads
    <3>2. q + 1 \in Proc
      BY <1>3, <1>7, Constants
    <3> QED
      BY <3>1, <3>2
  <2> HIDE DEF t2
  <2>4. Stack(t2) /\ Top(t2) \notin Forking /\ \A l \in Locks : Holds(p, t2, l) <=> l = wait_lock
    BY <1>3, <2>2 DEF Stack, Top, Below, Yielding, Forking, Holds, Switching
  <2>5. Relocks(p, c, t2)
    BY <1>2, <1>4, <2>4, SameLocks DEF Relocks
  <2> QED
    BY <1>1, <1>2, <1>4, <1>5, <2>1, <2>2, <2>4, <2>5, CallStep
<1> QED
  BY <1>6, <1>7

\* reparent() changes parents only.
LEMMA SetParent ==
  ASSUME proc \in [Proc -> Slots], NEW q, NEW r \in 0 .. NPROC,
         proc' = [proc EXCEPT ![q].parent = r]
  PROVE  /\ proc' \in [Proc -> Slots]
         /\ \A u \in Proc : /\ proc'[u].state = proc[u].state /\ proc'[u].chan = proc[u].chan
                            /\ u # q => proc'[u] = proc[u]
         /\ q \in Proc => proc'[q].parent = r
<1>1. CASE q \in Proc
  BY <1>1 DEF Slots
<1>2. CASE q \notin Proc
  <2>1. proc' = proc
    BY <1>2
  <2> QED
    BY <1>2, <2>1, Zenon
<1> QED
  BY <1>1, <1>2

LEMMA forkparentR ==
  ASSUME RInv, NEW p \in Proc, NEW c \in Cpu, forkparent(p, c)
  PROVE  RInv'
<1> DEFINE t == Thread("forkrun", thread[p].back, thread[p].i, thread[p].x, thread[p].lk)
<1>1. cpu[c].proc = p /\ cpu[c].irq = 0 /\ thread[p].pc = "forkparent"
  BY DEF forkparent, Runs
<1>2. /\ thread[p] \in Threads /\ Stack(thread[p]) /\ \A l \in Locks : lock[l] # c
      /\ proc \in [Proc -> Slots]
      /\ lock \in [Locks -> Cpu \cup {NoCpu}] /\ ticks \in Int /\ nextpid \in Nat
  <2>1. \A l \in Locks : lock[l] # c
    BY <1>1, RunningLocks DEF Preemptible
  <2> QED
    BY <1>1, <2>1, Running, Zenon
<1>3. Becomes(p, t)
  BY Becoming, ZenonT(40) DEF forkparent, RInv, Types, Labels
<1>4. /\ t \in Threads /\ Stack(t) /\ t.i = thread[p].i /\ Top(thread[p]) \in Forking
      /\ \A l \in Locks : ~Holds(p, t, l)
  BY <1>1, <1>2, Zenon DEF Thread, Threads, Labels, Stack, Top, Yielding, Holds, Switching, Forking
<1>5. lock' = lock /\ cpu' = cpu /\ ticks' = ticks /\ nextpid' = nextpid
  BY DEF forkparent
<1>6. proc' \in [Proc -> Slots] /\ \A q \in Proc : proc'[q].state = proc[q].state
  <2>1. p \in 0 .. NPROC /\ proc' = [proc EXCEPT ![thread[p].i].parent = p]
    BY Constants DEF forkparent
  <2> QED
    BY <1>2, <2>1, SetParent, Zenon
<1> HIDE DEF t
<1>7. Relocks(p, c, t) /\ Gentle(p)
  BY <1>2, <1>4, <1>5, <1>6, SameLocks DEF Relocks, Gentle
<1> QED
  BY <1>1, <1>2, <1>3, <1>4, <1>5, <1>6, <1>7, CallStep

LEMMA kexitR ==
  ASSUME RInv, NEW p \in Proc, NEW c \in Cpu, kexit(p, c)
  PROVE  RInv'
<1> DEFINE t == Thread("reparent", thread[p].back, thread[p].i, thread[p].x, thread[p].lk)
<1>1. cpu[c].proc = p /\ cpu[c].irq = 0 /\ thread[p].pc = "exit" /\ Free(wait_lock)
  BY DEF kexit, Runs
<1>2. /\ thread[p] \in Threads /\ \A l \in Locks : lock[l] # c
      /\ lock \in [Locks -> Cpu \cup {NoCpu}] /\ ticks \in Int /\ nextpid \in Nat
  <2>1. \A l \in Locks : lock[l] # c
    BY <1>1, RunningLocks DEF Preemptible
  <2> QED
    BY <1>1, <2>1, Running, Zenon
<1>3. Becomes(p, t)
  BY Becoming, Zenon DEF kexit, RInv, Types, Labels
<1>4. t \in Threads /\ t.pc = "reparent"
  BY <1>2 DEF Thread, Threads, Labels
<1>5. /\ OwnLocks(c) /\ lock'[wait_lock] = c
      /\ \A m \in Locks : m # wait_lock => lock'[m] = lock[m]
  BY <1>1, <1>2, Acquire, Constants, ZenonT(40) DEF kexit
<1>6. proc' = proc /\ cpu' = cpu /\ ticks' = ticks /\ nextpid' = nextpid
  BY DEF kexit
<1> HIDE DEF t
<1>7. Stack(t) /\ Top(t) \notin Forking /\ \A l \in Locks : Holds(p, t, l) <=> l = wait_lock
  BY <1>4, PlainStack DEF Plain, Holds, Switching
<1>8. Relocks(p, c, t) /\ \A q \in Proc : lock'[q] = lock[q]
  BY <1>2, <1>5, <1>7, Constants DEF Relocks
<1> QED
  BY <1>1, <1>2, <1>3, <1>4, <1>6, <1>7, <1>8, QuietStep

LEMMA reparentR ==
  ASSUME RInv, NEW p \in Proc, NEW c \in Cpu, reparent(p, c)
  PROVE  RInv'
<1> DEFINE children == {q \in Proc : proc[q].parent = p}
           m == Min(children)
<1>1. cpu[c].proc = p /\ cpu[c].irq = 0 /\ thread[p].pc = "reparent"
  BY DEF reparent, Runs
<1>2. /\ \A l \in Locks : lock[l] = c <=> l = wait_lock
      /\ proc \in [Proc -> Slots]
      /\ lock \in [Locks -> Cpu \cup {NoCpu}] /\ ticks \in Int /\ nextpid \in Nat
  <2>1. \A l \in Locks : lock[l] = c <=> l = wait_lock
    BY <1>1, RunningLocks DEF Preemptible
  <2> QED
    BY <1>1, <2>1, Running, Zenon
<1>3. \/ proc' = [proc EXCEPT ![m].parent = initproc] /\ Becomes(p, At("wakeup", <<"reparent">>, 1, initproc))
      \/ proc' = proc /\ Becomes(p, At("wakeup", <<"zombie">>, 1, proc[p].parent))
  BY DEF reparent, Becomes
<1>4. proc' \in [Proc -> Slots] /\ \A q \in Proc : proc'[q].state = proc[q].state
  <2> HIDE DEF m
  <2>1. initproc \in 0 .. NPROC
    BY Constants
  <2>2. CASE proc' = [proc EXCEPT ![m].parent = initproc]
    BY <1>2, <2>1, <2>2, SetParent, Zenon
  <2> QED
    BY <1>2, <1>3, <2>2
<1>5. \E t \in Threads : /\ Becomes(p, t) /\ t.pc = "wakeup" /\ t.i = 1
                        /\ (t.back = <<"reparent">> \/ t.back = <<"zombie">>)
  <2>1. At("wakeup", <<"reparent">>, 1, initproc) \in Threads
    BY Constants DEF At, Threads, Labels
  <2>2. proc[p].parent \in Int
    BY <1>2, Constants DEF Slots
  <2>3. At("wakeup", <<"zombie">>, 1, proc[p].parent) \in Threads
    BY <2>2, Constants DEF At, Threads, Labels
  <2> QED
    BY <1>3, <2>1, <2>3 DEF At
<1>6. UNCHANGED <<cpu, lock, ticks, nextpid>>
  BY DEF reparent
<1>7. PICK t \in Threads : /\ Becomes(p, t) /\ t.pc = "wakeup" /\ t.i = 1
                          /\ (t.back = <<"reparent">> \/ t.back = <<"zombie">>)
  BY <1>5
<1>8. Top(t) = "wakeup" /\ Below(t) = t.back /\ t.i \in Proc /\ t.pc \notin Yielding
  BY <1>7, Constants DEF Top, Below, Yielding
<1>9. Stack(t) /\ Top(t) \notin Forking
  BY <1>7, <1>8 DEF Stack, Forking
<1>10. \A l \in Locks : Holds(p, t, l) <=> l = wait_lock
  BY <1>7 DEF Holds, Switching
<1>11. Relocks(p, c, t) /\ Gentle(p)
  BY <1>2, <1>4, <1>6, <1>10, SameLocks DEF Relocks, Gentle
<1>12. Becomes(p, t)
  BY <1>7, SMTT(30)
<1> QED
  BY <1>1, <1>2, <1>4, <1>6, <1>9, <1>11, <1>12, CallStep, Zenon

LEMMA kwaitR ==
  ASSUME RInv, NEW p \in Proc, NEW c \in Cpu, kwait(p, c)
  PROVE  RInv'
<1> DEFINE t == At("scan", <<>>, 1, 0)
<1>1. cpu[c].proc = p /\ cpu[c].irq = 0 /\ thread[p].pc = "wait" /\ Free(wait_lock)
  BY DEF kwait, Runs
<1>2. /\ \A l \in Locks : lock[l] # c
      /\ lock \in [Locks -> Cpu \cup {NoCpu}] /\ ticks \in Int /\ nextpid \in Nat
  <2>1. \A l \in Locks : lock[l] # c
    BY <1>1, RunningLocks DEF Preemptible
  <2> QED
    BY <1>1, <2>1, Running, Zenon
<1>3. Becomes(p, t)
  BY DEF kwait, Becomes
<1>4. t \in Threads /\ t.pc = "scan" /\ t.i = 1
  <2>1. "scan" \in Labels
    BY DEF Labels
  <2> QED
    BY <2>1, AtThread
<1>5. /\ OwnLocks(c) /\ lock'[wait_lock] = c
      /\ \A m \in Locks : m # wait_lock => lock'[m] = lock[m]
  BY <1>1, <1>2, Acquire, Constants, ZenonT(40) DEF kwait
<1>6. proc' = proc /\ cpu' = cpu /\ ticks' = ticks /\ nextpid' = nextpid
  BY DEF kwait
<1> HIDE DEF t
<1>7. Stack(t) /\ Top(t) \notin Forking /\ \A l \in Locks : Holds(p, t, l) <=> l = wait_lock
  BY <1>4, Constants DEF Stack, Top, Yielding, Forking, Holds, Switching
<1>8. Relocks(p, c, t) /\ \A q \in Proc : lock'[q] = lock[q]
  BY <1>2, <1>5, <1>7, Constants DEF Relocks
<1> QED
  BY <1>1, <1>2, <1>3, <1>4, <1>6, <1>7, <1>8, QuietStep

LEMMA scanR ==
  ASSUME RInv, NEW p \in Proc, NEW c \in Cpu, scan(p, c)
  PROVE  RInv'
<1> DEFINE q == thread[p].i
           x == IF proc[q].parent = p THEN 1 ELSE thread[p].x
           t == Thread(thread[p].pc, thread[p].back, q + 1, x, thread[p].lk)
<1>1. cpu[c].proc = p /\ cpu[c].irq = 0 /\ thread[p].pc = "scan" /\ q <= NPROC
  BY DEF scan, Runs
<1>2. /\ thread[p] \in Threads /\ Stack(thread[p]) /\ \A l \in Locks : lock[l] = c <=> l = wait_lock
      /\ lock \in [Locks -> Cpu \cup {NoCpu}] /\ ticks \in Int /\ nextpid \in Nat
  <2>1. \A l \in Locks : lock[l] = c <=> l = wait_lock
    BY <1>1, RunningLocks DEF Preemptible
  <2> QED
    BY <1>1, <2>1, Running, Zenon
<1>3. Becomes(p, t)
  <2>1. thread' = [thread EXCEPT ![p].i = q + 1, ![p].x = x]
    BY DEF scan
  <2>2. thread \in [Proc -> Threads] /\ "scan" \in Labels
    BY SMTT(30) DEF RInv, Types, Labels
  <2>3. q + 1 \in Int /\ x \in Int
    BY <1>2 DEF Threads
  <2> HIDE DEF x
  <2> QED
    BY <2>1, <2>2, <2>3, Becoming, Zenon
<1>4. q \in Proc
  BY <1>1, <1>2, Constants, SMTT(30) DEF Stack, Top, Yielding
<1>5. t \in Threads /\ t.pc = "scan" /\ t.i = q + 1
  BY <1>1, <1>2 DEF Thread, Threads
<1>6. UNCHANGED <<lock, proc, cpu, ticks, nextpid>>
  BY DEF scan
<1> HIDE DEF t, q
<1>7. Stack(t) /\ Top(t) \notin Forking /\ \A l \in Locks : Holds(p, t, l) <=> l = wait_lock
  BY <1>4, <1>5, Constants DEF Stack, Top, Yielding, Forking, Holds, Switching
<1>8. Relocks(p, c, t)
  BY <1>2, <1>6, <1>7, SameLocks DEF Relocks
<1> QED
  BY <1>1, <1>2, <1>3, <1>5, <1>6, <1>7, <1>8, QuietStep

\* A call ends: whatever lock the thread held beside its own is released.
LEMMA ToRet ==
  ASSUME RInv, NEW p \in Proc, NEW c \in Cpu, cpu[c].proc = p, cpu[c].irq = 0,
         NEW lk \in {wait_lock, tickslock}, \A l \in Locks : lock[l] = c <=> l = lk,
         lock' = [lock EXCEPT ![lk] = NoCpu]
  PROVE  /\ Relocks(p, c, At("ret", <<>>, 0, 0)) /\ \A q \in Proc : lock'[q] = lock[q]
         /\ At("ret", <<>>, 0, 0) \in Threads /\ Stack(At("ret", <<>>, 0, 0))
         /\ Top(At("ret", <<>>, 0, 0)) \notin Forking
<1>1. lock \in [Locks -> Cpu \cup {NoCpu}] /\ lk \in Locks /\ lk \notin Proc /\ lock[lk] = c
  BY Constants DEF RInv, Types
<1>2. OwnLocks(c) /\ c # NoCpu /\ lock'[lk] = NoCpu /\ \A m \in Locks : m # lk => lock'[m] = lock[m]
  BY <1>1, Release, Zenon
<1>3. "ret" \in Plain /\ "ret" \in {"user", "ret", "exit"}
  BY DEF Plain
<1>4. /\ At("ret", <<>>, 0, 0) \in Threads /\ Stack(At("ret", <<>>, 0, 0))
      /\ Top(At("ret", <<>>, 0, 0)) \notin Forking
      /\ \A m \in Locks : ~Holds(p, At("ret", <<>>, 0, 0), m)
  BY <1>3, PlainAt
<1>5. Relocks(p, c, At("ret", <<>>, 0, 0))
  BY <1>2, <1>4 DEF Relocks
<1> QED
  BY <1>1, <1>2, <1>4, <1>5, Constants

LEMMA SetUnused ==
  ASSUME proc \in [Proc -> Slots], NEW q \in Proc, freeproc(q)
  PROVE  /\ proc' \in [Proc -> Slots] /\ proc'[q].state = "UNUSED" /\ proc'[q].parent = 0
         /\ \A r \in Proc \ {q} : proc'[r] = proc[r]
<1>1. Unused \in Slots /\ Unused.state = "UNUSED" /\ Unused.parent = 0
  BY Constants DEF Unused, Slots, States
<1>2. proc' = [proc EXCEPT ![q] = Unused]
  BY SMTT(30) DEF freeproc
<1> QED
  BY <1>1, <1>2

LEMMA reapR ==
  ASSUME RInv, NEW p \in Proc, NEW c \in Cpu, reap(p, c)
  PROVE  RInv'
<1> DEFINE q == thread[p].i
           t == At("ret", <<>>, 0, 0)
<1>1. /\ cpu[c].proc = p /\ cpu[c].irq = 0 /\ thread[p].pc = "scan" /\ q <= NPROC
      /\ Free(q) /\ proc[q].state = "ZOMBIE"
  BY ZenonT(40) DEF reap, Runs
<1>2. /\ thread[p] \in Threads /\ Stack(thread[p]) /\ \A l \in Locks : lock[l] = c <=> l = wait_lock
      /\ proc \in [Proc -> Slots] /\ lock \in [Locks -> Cpu \cup {NoCpu}] /\ ticks \in Int /\ nextpid \in Nat
  <2>1. \A l \in Locks : lock[l] = c <=> l = wait_lock
    BY <1>1, RunningLocks DEF Preemptible
  <2> QED
    BY <1>1, <2>1, Running, Zenon
<1>3. Becomes(p, t)
  BY Zenon DEF reap, Becomes
<1>4. q \in Proc
  BY <1>1, <1>2, Constants, SMTT(30) DEF Stack, Top, Yielding
<1>5. q # p
  BY <1>1, Running, SMTT(30)
<1>6. /\ proc' \in [Proc -> Slots]
      /\ \A r \in Proc : proc'[r].state = proc[r].state \/ (r = q /\ proc'[r].state = "UNUSED")
  <2>1. CASE freeproc(q)
    BY <1>2, <1>4, <2>1, SetUnused
  <2>2. CASE proc' = proc
    BY <1>2, <2>2
  <2> QED
    BY <2>1, <2>2, SMTT(30) DEF reap
<1>7. cpu' = cpu /\ ticks' = ticks /\ nextpid' = nextpid /\ lock' = [lock EXCEPT ![wait_lock] = NoCpu]
  BY SMTT(30) DEF reap
<1>8. /\ Relocks(p, c, t) /\ t \in Threads /\ Stack(t) /\ Top(t) \notin Forking
      /\ \A r \in Proc : lock'[r] = lock[r]
  BY <1>1, <1>2, <1>7, ToRet, ZenonT(40)
<1> HIDE DEF t, q
<1>9. Gentle(p)
  BY <1>1, <1>5, <1>6, <1>8, Zenon DEF Gentle
<1> QED
  BY <1>1, <1>2, <1>3, <1>6, <1>7, <1>8, <1>9, CallStep, ZenonT(40)

LEMMA scannedR ==
  ASSUME RInv, NEW p \in Proc, NEW c \in Cpu, scanned(p, c)
  PROVE  RInv'
<1>1. cpu[c].proc = p /\ cpu[c].irq = 0 /\ thread[p].pc = "scan"
  BY DEF scanned, Runs
<1>2. /\ \A l \in Locks : lock[l] = c <=> l = wait_lock
      /\ lock \in [Locks -> Cpu \cup {NoCpu}] /\ ticks \in Int /\ nextpid \in Nat
  <2>1. \A l \in Locks : lock[l] = c <=> l = wait_lock
    BY <1>1, RunningLocks DEF Preemptible
  <2> QED
    BY <1>1, <2>1, Running, Zenon
<1>3. UNCHANGED <<proc, cpu, ticks, nextpid>>
  BY SMTT(30) DEF scanned
<1>4. CASE lock' = [lock EXCEPT ![wait_lock] = NoCpu] /\ Becomes(p, At("ret", <<>>, 0, 0))
  <2> DEFINE t == At("ret", <<>>, 0, 0)
  <2>1. /\ Relocks(p, c, t) /\ t \in Threads /\ Stack(t) /\ Top(t) \notin Forking
        /\ \A r \in Proc : lock'[r] = lock[r]
    BY <1>1, <1>2, <1>4, ToRet, Zenon
  <2>2. Becomes(p, t)
    BY <1>4, SMTT(30)
  <2> HIDE DEF t
  <2> QED
    BY <1>1, <1>2, <1>3, <2>1, <2>2, QuietStep, ZenonT(40)
<1>5. CASE lock' = lock /\ Becomes(p, At("sleep", <<"scan">>, 1, 0))
  <2> DEFINE t == At("sleep", <<"scan">>, 1, 0)
  <2>0. "sleep" \in Labels /\ <<"scan">> \in Seq(Labels)
    BY DEF Labels
  <2>1. t \in Threads /\ t.pc = "sleep" /\ t.back = <<"scan">> /\ t.lk = wait_lock /\ t.i = 1
    BY <2>0, Constants DEF At, Threads
  <2>2. Becomes(p, t)
    BY <1>5
  <2> HIDE DEF t
  <2>3. Stack(t) /\ Top(t) \notin Forking /\ \A l \in Locks : Holds(p, t, l) <=> l = wait_lock
    BY <2>1, Constants DEF Stack, Top, Below, Yielding, Forking, Holds, Switching
  <2>4. Relocks(p, c, t)
    BY <1>2, <1>5, <2>3, SameLocks DEF Relocks
  <2> QED
    BY <1>1, <1>2, <1>3, <1>5, <2>1, <2>2, <2>3, <2>4, QuietStep
<1> QED
  BY <1>4, <1>5 DEF scanned, Becomes

\* What kkill() writes.
LEMMA SetKilled ==
  ASSUME proc \in [Proc -> Slots], NEW q \in Proc
  PROVE  proc' = [proc EXCEPT ![q].killed = TRUE, ![q].state = IF @ = "SLEEPING" THEN "RUNNABLE" ELSE @] =>
           /\ proc' \in [Proc -> Slots]
           /\ \A r \in Proc :
                /\ r # q => proc'[r] = proc[r]
                /\ proc'[r].parent = proc[r].parent /\ proc'[r].chan = proc[r].chan
                /\ \/ proc'[r].state = proc[r].state
                   \/ proc[r].state = "SLEEPING" /\ proc'[r].state = "RUNNABLE"
<1> DEFINE f == [proc EXCEPT ![q].killed = TRUE]
           g == [f EXCEPT ![q].state = IF @ = "SLEEPING" THEN "RUNNABLE" ELSE @]
<1>1. /\ f \in [Proc -> Slots]
      /\ \A r \in Proc : /\ r # q => f[r] = proc[r]
                         /\ f[r].state = proc[r].state
                         /\ f[r].parent = proc[r].parent /\ f[r].chan = proc[r].chan
  BY Zenon DEF Slots
<1> HIDE DEF f
<1>2. /\ g \in [Proc -> Slots]
      /\ \A r \in Proc : /\ r # q => g[r] = f[r]
                         /\ g[r].state = f[r].state \/ (f[r].state = "SLEEPING" /\ g[r].state = "RUNNABLE")
                         /\ g[r].parent = f[r].parent /\ g[r].chan = f[r].chan
  BY <1>1 DEF Slots, States
<1>3. [proc EXCEPT ![q].killed = TRUE, ![q].state = IF @ = "SLEEPING" THEN "RUNNABLE" ELSE @] = g
  BY Zenon DEF f
<1> HIDE DEF g
<1>4. /\ g \in [Proc -> Slots]
      /\ \A r \in Proc :
           /\ r # q => g[r] = proc[r]
           /\ g[r].parent = proc[r].parent /\ g[r].chan = proc[r].chan
           /\ \/ g[r].state = proc[r].state
              \/ proc[r].state = "SLEEPING" /\ g[r].state = "RUNNABLE"
  BY <1>1, <1>2
<1> QED
  BY <1>3, <1>4, Zenon

LEMMA kkillR ==
  ASSUME RInv, NEW p \in Proc, NEW c \in Cpu, kkill(p, c)
  PROVE  RInv'
<1> DEFINE q == thread[p].i
           t1 == At("ret", <<>>, 0, 0)
           t2 == [thread[p] EXCEPT !.i = q + 1]
<1>1. cpu[c].proc = p /\ cpu[c].irq = 0 /\ thread[p].pc = "kill" /\ Free(q)
  BY SMTT(30) DEF kkill, Runs
<1>2. /\ thread[p] \in Threads /\ Stack(thread[p]) /\ \A l \in Locks : lock[l] # c
      /\ proc \in [Proc -> Slots] /\ lock \in [Locks -> Cpu \cup {NoCpu}] /\ ticks \in Int /\ nextpid \in Nat
  <2>1. \A l \in Locks : lock[l] # c
    BY <1>1, RunningLocks DEF Preemptible
  <2> QED
    BY <1>1, <2>1, Running, Zenon
<1>3. q \in Proc
  BY <1>1, <1>2 DEF Stack, Top, Yielding
<1>4. UNCHANGED <<cpu, lock, ticks, nextpid>>
  BY DEF kkill
<1>5. proc' \in [Proc -> Slots] /\ Gentle(p)
  <2>1. /\ proc' \in [Proc -> Slots]
        /\ \A r \in Proc : /\ r # q => proc'[r] = proc[r]
                           /\ \/ proc'[r].state = proc[r].state
                              \/ proc[r].state = "SLEEPING" /\ proc'[r].state = "RUNNABLE"
    <3>1. CASE proc' = proc
      BY <1>2, <3>1
    <3>2. CASE proc' = [proc EXCEPT ![q].killed = TRUE,
                                    ![q].state = IF @ = "SLEEPING" THEN "RUNNABLE" ELSE @]
      BY <1>2, <1>3, <3>2, SetKilled, Zenon
    <3> QED
      BY <3>1, <3>2, Zenon DEF kkill
  <2>2. q = p => proc[q].state = "RUNNING"
    BY <1>1, Running
  <2> HIDE DEF q
  <2> QED
    BY <1>3, <1>4, <2>1, <2>2 DEF Gentle
<1>6. t1 \in Threads /\ Stack(t1) /\ Top(t1) \notin Forking /\ \A l \in Locks : ~Holds(p, t1, l)
  BY PlainAt, SMTT(30) DEF Plain
<1>7. CASE Becomes(p, t1)
  <2> HIDE DEF t1
  <2>1. Relocks(p, c, t1)
    BY <1>2, <1>4, <1>6, SameLocks, SMTT(30) DEF Relocks
  <2> QED
    BY <1>1, <1>2, <1>4, <1>5, <1>6, <1>7, <2>1, CallStep, Zenon
<1>8. CASE q # NPROC /\ Becomes(p, t2)
  <2>1. t2 \in Threads /\ t2.pc = "kill" /\ t2.i = q + 1
    BY <1>1, <1>2, SMTT(30) DEF Threads
  <2>2. q + 1 \in Proc
    BY <1>3, <1>8, Constants
  <2> HIDE DEF t2
  <2>3. Stack(t2) /\ Top(t2) \notin Forking /\ \A l \in Locks : ~Holds(p, t2, l)
    BY <2>1, <2>2 DEF Stack, Top, Yielding, Forking, Holds, Switching
  <2>4. Relocks(p, c, t2)
    BY <1>2, <1>4, <2>3, SameLocks DEF Relocks
  <2> QED
    BY <1>1, <1>2, <1>4, <1>5, <1>8, <2>1, <2>3, <2>4, CallStep, Zenon
<1>9. Becomes(p, t1) \/ (q # NPROC /\ Becomes(p, t2))
  <2>1. PICK found \in BOOLEAN :
          thread' = [thread EXCEPT ![p] = IF found \/ q = NPROC THEN At("ret", <<>>, 0, 0) ELSE [@ EXCEPT !.i = q + 1]]
    BY Zenon DEF kkill
  <2> QED
    BY <2>1, Zenon DEF Becomes
<1> QED
  BY <1>7, <1>8, <1>9

LEMMA sys_pauseR ==
  ASSUME RInv, NEW p \in Proc, NEW c \in Cpu, sys_pause(p, c)
  PROVE  RInv'
<1> DEFINE t == Thread("pausing", thread[p].back, ticks, thread[p].x, thread[p].lk)
<1>1. cpu[c].proc = p /\ cpu[c].irq = 0 /\ thread[p].pc = "pause" /\ Free(tickslock)
  BY DEF sys_pause, Runs
<1>2. /\ thread[p] \in Threads /\ \A l \in Locks : lock[l] # c
      /\ lock \in [Locks -> Cpu \cup {NoCpu}] /\ ticks \in Int /\ nextpid \in Nat
  <2>1. \A l \in Locks : lock[l] # c
    BY <1>1, RunningLocks DEF Preemptible
  <2> QED
    BY <1>1, <2>1, Running, Zenon
<1>3. Becomes(p, t)
  <2>1. thread' = [thread EXCEPT ![p].pc = "pausing", ![p].i = ticks]
    BY DEF sys_pause
  <2>2. thread \in [Proc -> Threads] /\ "pausing" \in Labels
    BY SMTT(30) DEF RInv, Types, Labels
  <2> QED
    BY <1>2, <2>1, <2>2, Becoming, Zenon
<1>4. t \in Threads /\ t.pc = "pausing"
  BY <1>2, Zenon DEF Thread, Threads, Labels
<1>5. /\ OwnLocks(c) /\ lock'[tickslock] = c
      /\ \A m \in Locks : m # tickslock => lock'[m] = lock[m]
  BY <1>1, <1>2, Acquire, Constants, Zenon DEF sys_pause
<1>6. proc' = proc /\ cpu' = cpu /\ ticks' = ticks /\ nextpid' = nextpid
  BY DEF sys_pause
<1> HIDE DEF t
<1>7. Stack(t) /\ Top(t) \notin Forking /\ \A l \in Locks : Holds(p, t, l) <=> l = tickslock
  BY <1>4, PlainStack DEF Plain, Holds, Switching
<1>8. Relocks(p, c, t) /\ \A q \in Proc : lock'[q] = lock[q]
  BY <1>2, <1>5, <1>7, Constants DEF Relocks
<1> QED
  BY <1>1, <1>2, <1>3, <1>4, <1>6, <1>7, <1>8, QuietStep, Zenon

\* sys_pause() calls sleep().
LEMMA PauseSleeps ==
  ASSUME thread \in [Proc -> Threads], NEW p \in Proc
  PROVE  thread' = [thread EXCEPT ![p].pc = "sleep", ![p].back = <<"pausing">>, ![p].lk = tickslock] =>
           Becomes(p, Thread("sleep", <<"pausing">>, thread[p].i, thread[p].x, tickslock))
<1> DEFINE t == thread[p]
           f == [thread EXCEPT ![p].pc = "sleep"]
           g == [f EXCEPT ![p].back = <<"pausing">>]
           h == [g EXCEPT ![p].lk = tickslock]
<1>1. /\ f \in [Proc -> Threads] /\ \A q \in Proc \ {p} : f[q] = thread[q]
      /\ f[p] = [pc |-> "sleep", back |-> t.back, i |-> t.i, x |-> t.x, lk |-> t.lk]
  BY DEF Threads, Labels
<1> HIDE DEF f
<1>2. /\ g \in [Proc -> Threads] /\ \A q \in Proc \ {p} : g[q] = thread[q]
      /\ g[p] = [pc |-> "sleep", back |-> <<"pausing">>, i |-> t.i, x |-> t.x, lk |-> t.lk]
  <2> DEFINE r == [pc |-> "sleep", back |-> <<"pausing">>, i |-> t.i, x |-> t.x, lk |-> t.lk]
  <2>1. [f[p] EXCEPT !.back = <<"pausing">>] = r
    BY <1>1
  <2>2. t \in Threads /\ r \in Threads
    BY DEF Threads, Labels
  <2>3. g = [f EXCEPT ![p] = r]
    BY <2>1, Zenon
  <2> HIDE DEF g, r
  <2>4. g \in [Proc -> Threads] /\ g[p] = r /\ \A q \in Proc \ {p} : g[q] = thread[q]
    BY <1>1, <2>2, <2>3
  <2> QED
    BY <2>4 DEF r
<1> HIDE DEF g
<1>3. h = [thread EXCEPT ![p] = Thread("sleep", <<"pausing">>, t.i, t.x, tickslock)]
  <2>1. [g[p] EXCEPT !.lk = tickslock] = Thread("sleep", <<"pausing">>, t.i, t.x, tickslock)
    BY <1>2 DEF Thread
  <2>2. h = [g EXCEPT ![p] = Thread("sleep", <<"pausing">>, t.i, t.x, tickslock)]
    BY <2>1, Zenon
  <2> HIDE DEF h
  <2> QED
    BY <1>2, <2>2, Zenon
<1>4. [thread EXCEPT ![p].pc = "sleep", ![p].back = <<"pausing">>, ![p].lk = tickslock] = h
  BY Zenon DEF f, g
<1> HIDE DEF h
<1> QED
  BY <1>3, <1>4, Zenon DEF Becomes

LEMMA pausingR ==
  ASSUME RInv, NEW p \in Proc, NEW c \in Cpu, pausing(p, c)
  PROVE  RInv'
<1>1. cpu[c].proc = p /\ cpu[c].irq = 0 /\ thread[p].pc = "pausing"
  BY DEF pausing, Runs
<1>2. /\ thread[p] \in Threads /\ \A l \in Locks : lock[l] = c <=> l = tickslock
      /\ lock \in [Locks -> Cpu \cup {NoCpu}] /\ ticks \in Int /\ nextpid \in Nat
  <2>1. \A l \in Locks : lock[l] = c <=> l = tickslock
    BY <1>1, RunningLocks DEF Preemptible
  <2> QED
    BY <1>1, <2>1, Running, Zenon
<1>3. UNCHANGED <<proc, cpu, ticks, nextpid>>
  BY SMTT(30) DEF pausing
<1>4. CASE lock' = [lock EXCEPT ![tickslock] = NoCpu] /\ Becomes(p, At("ret", <<>>, 0, 0))
  <2> DEFINE t == At("ret", <<>>, 0, 0)
  <2>1. /\ Relocks(p, c, t) /\ t \in Threads /\ Stack(t) /\ Top(t) \notin Forking
        /\ \A r \in Proc : lock'[r] = lock[r]
    BY <1>1, <1>2, <1>4, ToRet, SMTT(30)
  <2>2. Becomes(p, t)
    BY <1>4
  <2> HIDE DEF t
  <2> QED
    BY <1>1, <1>2, <1>3, <2>1, <2>2, QuietStep, SMTT(30)
<1>5. CASE lock' = lock /\ Becomes(p, Thread("sleep", <<"pausing">>, thread[p].i, thread[p].x, tickslock))
  <2> DEFINE t == Thread("sleep", <<"pausing">>, thread[p].i, thread[p].x, tickslock)
  <2>1. t \in Threads /\ t.pc = "sleep" /\ t.back = <<"pausing">> /\ t.lk = tickslock
    BY <1>2 DEF Thread, Threads, Labels
  <2>2. Becomes(p, t)
    BY <1>5
  <2> HIDE DEF t
  <2>3. Stack(t) /\ Top(t) \notin Forking /\ \A l \in Locks : Holds(p, t, l) <=> l = tickslock
    BY <2>1, Constants DEF Stack, Top, Below, Yielding, Forking, Holds, Switching
  <2>4. Relocks(p, c, t)
    BY <1>2, <1>5, <2>3, SameLocks DEF Relocks
  <2> QED
    BY <1>1, <1>2, <1>3, <1>5, <2>1, <2>2, <2>3, <2>4, QuietStep, ZenonT(40)
<1>6. \/ lock' = [lock EXCEPT ![tickslock] = NoCpu] /\ Becomes(p, At("ret", <<>>, 0, 0))
      \/ lock' = lock /\ Becomes(p, Thread("sleep", <<"pausing">>, thread[p].i, thread[p].x, tickslock))
  <2>1. thread \in [Proc -> Threads]
    BY DEF RInv, Types
  <2>2. \/ lock' = [lock EXCEPT ![tickslock] = NoCpu] /\ Becomes(p, At("ret", <<>>, 0, 0))
        \/ /\ lock' = lock
           /\ thread' = [thread EXCEPT ![p].pc = "sleep", ![p].back = <<"pausing">>, ![p].lk = tickslock]
    BY Zenon DEF pausing, Becomes
  <2> QED
    BY <2>1, <2>2, PauseSleeps, Zenon
<1> QED
  BY <1>4, <1>5, <1>6
-----------------------------------------------------------------------------
(* Steps that start or end a fork, and the switch to the scheduler *)

LEMMA forkcopyR ==
  ASSUME RInv, NEW p \in Proc, NEW c \in Cpu, forkcopy(p, c)
  PROVE  RInv'
<1> DEFINE t == Thread("forkparent", thread[p].back, thread[p].i, thread[p].x, thread[p].lk)
           np == thread[p].i
<1>1. cpu[c].proc = p /\ cpu[c].irq = 0 /\ thread[p].pc = "forkcopy"
  BY SMTT(30) DEF forkcopy, Runs
<1>2. /\ thread[p] \in Threads /\ Stack(thread[p]) /\ \A l \in Locks : lock[l] = c <=> l = np
      /\ proc \in [Proc -> Slots] /\ (Free(p) => proc[p].state = "RUNNING")
      /\ lock \in [Locks -> Cpu \cup {NoCpu}] /\ ticks \in Int /\ nextpid \in Nat
  <2>1. \A l \in Locks : lock[l] = c <=> l = np
    BY <1>1, RunningLocks DEF Preemptible
  <2> QED
    BY <1>1, <2>1, Running, Zenon
<1>3. Becomes(p, t)
  BY Becoming, Zenon DEF forkcopy, RInv, Types, Labels
<1>4. np \in Proc /\ np # p /\ Top(thread[p]) \in Forking /\ Fills(p, np)
  <2>1. np \in Proc /\ Top(thread[p]) \in Forking
    BY <1>1, <1>2 DEF Stack, Top, Yielding, Forking
  <2>2. ~OnCpu(np) /\ OnCpu(p)
    BY <1>1, <2>1, SMTT(30) DEF RInv, ForkInv, OnCpu
  <2> QED
    BY <2>1, <2>2 DEF Fills
<1>5. t \in Threads /\ t.pc = "forkparent" /\ t.i = np
  BY <1>2, Zenon DEF Thread, Threads, Labels
<1>6. OwnLocks(c) /\ c # NoCpu /\ lock'[np] = NoCpu /\ \A m \in Locks : m # np => lock'[m] = lock[m]
  <2>1. lock' = [lock EXCEPT ![np] = NoCpu]
    BY DEF forkcopy
  <2>2. np \in Locks /\ lock[np] = c
    BY <1>2, <1>4, Constants, Zenon
  <2> HIDE DEF np
  <2> QED
    BY <1>2, <2>1, <2>2, Release, Zenon
<1>7. proc' = proc /\ cpu' = cpu /\ ticks' = ticks /\ nextpid' = nextpid
  BY SMTT(30) DEF forkcopy
<1> HIDE DEF t, np
<1>8. Stack(t) /\ Top(t) \in Forking /\ \A l \in Locks : ~Holds(p, t, l)
  BY <1>4, <1>5, Zenon DEF Stack, Top, Yielding, Forking, Holds, Switching
<1>9. Relocks(p, c, t)
  BY <1>2, <1>6, <1>8 DEF Relocks
<1>10. RunsOn(p, t) /\ OthersKept(p, t)
  <2>1. lock'[p] = lock[p]
    BY <1>4, <1>6, Constants
  <2>2. Free(p)' => Free(p)
    BY <2>1, SMTT(30) DEF Free
  <2>3. RunsOn(p, t)
    BY <1>2, <1>4, <1>5, <1>7, <2>2, SMTT(30) DEF RunsOn, np
  <2>4. OthersKept(p, t)
    BY <1>4, <1>6, <1>7, Constants, SMTT(30) DEF OthersKept
  <2> QED
    BY <2>3, <2>4
<1> QED
  BY <1>1, <1>2, <1>3, <1>5, <1>7, <1>8, <1>9, <1>10, ThreadStep, ZenonT(40)

LEMMA forkfailR ==
  ASSUME RInv, NEW p \in Proc, NEW c \in Cpu, forkfail(p, c)
  PROVE  RInv'
<1> DEFINE t == At("ret", <<>>, 0, 0)
           np == thread[p].i
<1>1. cpu[c].proc = p /\ cpu[c].irq = 0 /\ thread[p].pc = "forkcopy"
  BY SMTT(30) DEF forkfail, Runs
<1>2. /\ thread[p] \in Threads /\ Stack(thread[p]) /\ \A l \in Locks : lock[l] = c <=> l = np
      /\ proc \in [Proc -> Slots] /\ (Free(p) => proc[p].state = "RUNNING")
      /\ lock \in [Locks -> Cpu \cup {NoCpu}] /\ ticks \in Int /\ nextpid \in Nat
  <2>1. \A l \in Locks : lock[l] = c <=> l = np
    BY <1>1, RunningLocks DEF Preemptible
  <2> QED
    BY <1>1, <2>1, Running, Zenon
<1>3. Becomes(p, t)
  BY DEF forkfail, Becomes
<1>4. np \in Proc /\ np # p /\ Fills(p, np) /\ proc[np].state = "USED"
  <2>1. np \in Proc /\ Top(thread[p]) \in Forking
    BY <1>1, <1>2 DEF Stack, Top, Yielding, Forking
  <2>2. ~OnCpu(np) /\ OnCpu(p) /\ proc[np].state = "USED"
    BY <1>1, <2>1 DEF RInv, ForkInv, OnCpu
  <2> QED
    BY <2>1, <2>2, SMTT(30) DEF Fills
<1>5. t \in Threads /\ Stack(t) /\ Top(t) \notin Forking /\ \A l \in Locks : ~Holds(p, t, l)
  BY PlainAt DEF Plain
<1>6. OwnLocks(c) /\ c # NoCpu /\ lock'[np] = NoCpu /\ \A m \in Locks : m # np => lock'[m] = lock[m]
  <2>1. lock' = [lock EXCEPT ![np] = NoCpu]
    BY SMTT(30) DEF forkfail
  <2>2. np \in Locks /\ lock[np] = c
    BY <1>2, <1>4, Constants
  <2> HIDE DEF np
  <2> QED
    BY <1>2, <2>1, <2>2, Release, Zenon
<1>7. /\ proc' \in [Proc -> Slots] /\ proc'[np].state = "UNUSED"
      /\ \A r \in Proc \ {np} : proc'[r] = proc[r]
  BY <1>2, <1>4, SetUnused DEF forkfail
<1>8. cpu' = cpu /\ ticks' = ticks /\ nextpid' = nextpid
  BY DEF forkfail
<1> HIDE DEF t, np
<1>9. Relocks(p, c, t)
  BY <1>2, <1>5, <1>6 DEF Relocks
<1>10. RunsOn(p, t) /\ OthersKept(p, t)
  <2>1. lock'[p] = lock[p] /\ proc'[p] = proc[p]
    BY <1>4, <1>6, <1>7, Constants
  <2>2. Free(p)' => Free(p)
    BY <2>1, SMTT(30) DEF Free
  <2>3. RunsOn(p, t)
    BY <1>2, <1>5, <2>1, <2>2, ZenonT(40) DEF RunsOn
  <2>4. OthersKept(p, t)
    BY <1>4, <1>5, <1>6, <1>7, Constants, ZenonT(40) DEF OthersKept
  <2> QED
    BY <2>3, <2>4, SMTT(30)
<1> QED
  BY <1>1, <1>2, <1>3, <1>5, <1>7, <1>8, <1>9, <1>10, ThreadStep, ZenonT(40)

LEMMA forkrunR ==
  ASSUME RInv, NEW p \in Proc, NEW c \in Cpu, forkrun(p, c)
  PROVE  RInv'
<1> DEFINE t == At("ret", <<>>, 0, 0)
           np == thread[p].i
<1>1. cpu[c].proc = p /\ cpu[c].irq = 0 /\ thread[p].pc = "forkrun"
  BY DEF forkrun, Runs
<1>2. /\ thread[p] \in Threads /\ Stack(thread[p]) /\ \A l \in Locks : lock[l] # c
      /\ proc \in [Proc -> Slots] /\ (Free(p) => proc[p].state = "RUNNING")
      /\ lock \in [Locks -> Cpu \cup {NoCpu}] /\ ticks \in Int /\ nextpid \in Nat
  <2>1. \A l \in Locks : lock[l] # c
    BY <1>1, RunningLocks DEF Preemptible
  <2> QED
    BY <1>1, <2>1, Running, Zenon
<1>3. Becomes(p, t)
  BY SMTT(30) DEF forkrun, Becomes
<1>4. np \in Proc /\ np # p /\ Fills(p, np) /\ proc[np].state = "USED"
  <2>1. np \in Proc /\ Top(thread[p]) \in Forking
    BY <1>1, <1>2, ZenonT(40) DEF Stack, Top, Yielding, Forking
  <2>2. ~OnCpu(np) /\ OnCpu(p) /\ proc[np].state = "USED"
    BY <1>1, <2>1, SMTT(30) DEF RInv, ForkInv, OnCpu
  <2> QED
    BY <2>1, <2>2 DEF Fills
<1>5. t \in Threads /\ Stack(t) /\ Top(t) \notin Forking /\ \A l \in Locks : ~Holds(p, t, l)
  BY PlainAt DEF Plain
<1>6. /\ proc' \in [Proc -> Slots] /\ proc'[np].state = "RUNNABLE"
      /\ \A r \in Proc : r # np => proc'[r] = proc[r]
  BY <1>2, <1>4, SetState, Zenon DEF forkrun, States
<1>7. cpu' = cpu /\ lock' = lock /\ ticks' = ticks /\ nextpid' = nextpid
  BY DEF forkrun
<1> HIDE DEF t, np
<1>8. Relocks(p, c, t)
  BY <1>2, <1>5, <1>7, SameLocks DEF Relocks
<1>9. RunsOn(p, t)
  BY <1>2, <1>4, <1>5, <1>6, <1>7, SMTT(30) DEF RunsOn, Free
<1>10. OthersKept(p, t)
  BY <1>4, <1>5, <1>6, <1>7, ZenonT(40) DEF OthersKept
<1> QED
  BY <1>1, <1>2, <1>3, <1>5, <1>6, <1>7, <1>8, <1>9, <1>10, ThreadStep, Zenon

LEMMA allocprocR ==
  ASSUME RInv, NEW p \in Proc, NEW c \in Cpu, allocproc(p, c)
  PROVE  RInv'
<1> DEFINE q == thread[p].i
<1>1. cpu[c].proc = p /\ cpu[c].irq = 0 /\ thread[p].pc = "fork" /\ Free(q)
  BY SMTT(30) DEF allocproc, Runs
<1>2. /\ thread[p] \in Threads /\ Stack(thread[p]) /\ \A l \in Locks : lock[l] # c
      /\ proc \in [Proc -> Slots] /\ (Free(p) => proc[p].state = "RUNNING")
      /\ lock \in [Locks -> Cpu \cup {NoCpu}] /\ ticks \in Int /\ nextpid \in Nat
  <2>1. \A l \in Locks : lock[l] # c
    BY <1>1, RunningLocks DEF Preemptible
  <2> QED
    BY <1>1, <2>1, Running, Zenon
<1>3. q \in Proc
  BY <1>1, <1>2, Zenon DEF Stack, Top, Yielding
<1>4. CASE proc[q].state = "UNUSED"
  <2> DEFINE t == At("forkcopy", <<>>, q, 0)
  <2>1. /\ thread' = [thread EXCEPT ![p] = t, ![q] = NewThread]
        /\ lock' = [lock EXCEPT ![q] = c] /\ nextpid' = nextpid + 1 /\ cpu' = cpu /\ ticks' = ticks
    BY <1>4 DEF allocproc
  <2>2. /\ proc' \in [Proc -> Slots] /\ proc'[q].state = "USED"
        /\ \A r \in Proc \ {q} : proc'[r] = proc[r]
    <3> DEFINE f == [proc EXCEPT ![q].state = "USED"]
               g == [f EXCEPT ![q].pid = nextpid]
    <3>1. /\ f \in [Proc -> Slots] /\ f[q].state = "USED"
          /\ \A r \in Proc \ {q} : f[r] = proc[r]
      BY <1>2, <1>3 DEF Slots, States
    <3> HIDE DEF f
    <3>2. /\ g \in [Proc -> Slots] /\ g[q].state = "USED"
          /\ \A r \in Proc \ {q} : g[r] = proc[r]
      BY <1>2, <1>3, <3>1 DEF Slots
    <3>3. proc' = g
      BY <1>4, Zenon DEF allocproc, f
    <3> HIDE DEF g
    <3> QED
      BY <3>2, <3>3
  <2>3. q # p /\ ~OnCpu(q)
    BY <1>1, <1>2, <1>3, <1>4, SMTT(30) DEF RInv, RunsOnce, OnCpu
  <2>4. t \in Threads /\ t.pc = "forkcopy" /\ t.i = q
    <3>1. "forkcopy" \in Labels /\ q \in Int
      BY <1>3, Constants DEF Labels
    <3> QED
      BY <3>1, AtThread
  <2>5. NewThread \in Threads /\ NewThread.pc = "forkret" /\ NewThread.back = <<"user">>
    BY SMTT(30) DEF NewThread, At, Threads, Labels, wait_lock
  <2> HIDE DEF t
  <2>6. /\ thread' \in [Proc -> Threads] /\ thread'[p] = t /\ thread'[q] = NewThread
        /\ \A r \in Proc \ {p, q} : thread'[r] = thread[r]
    BY <1>3, <2>1, <2>3, <2>4, <2>5, SMTT(30) DEF RInv, Types
  <2>7. OwnLocks(c) /\ lock'[q] = c /\ \A m \in Locks : m # q => lock'[m] = lock[m]
    <3>1. q \in Locks
      BY <1>3, Constants
    <3> HIDE DEF q
    <3> QED
      BY <1>1, <1>2, <2>1, <3>1, Acquire, ZenonT(40)
  <2> HIDE DEF q
  <2>8. \A l \in Locks : lock'[l] = c <=> Holds(p, t, l)
    BY <1>2, <2>4, <2>7 DEF Holds, Switching
  <2>9. LockInv'
    <3>1. \A r \in Proc \ {p} : OnCpu(r) => thread'[r] = thread[r]
      BY <2>3, <2>6
    <3> QED
      BY <1>1, <2>1, <2>6, <2>7, <2>8, <3>1, LocksKept, Zenon
  <2>10. Types'
    BY <1>2, <2>1, <2>2, <2>6, <2>7 DEF RInv, Types, OwnLocks
  <2>11. StackInv'
    <3>1. Stack(t) /\ Stack(NewThread)
      BY <1>3, <2>4, <2>5, Zenon DEF Stack, Top, Below, Yielding, Forking
    <3> QED
      BY <2>6, <3>1, SMTT(30) DEF RInv, StackInv
  <2>12. SwitchedOut'
    <3>1. OnCpu(p)
      BY <1>1, Zenon DEF OnCpu
    <3>2. NewThread.pc \in Switching
      BY <2>5, SMTT(30) DEF Switching
    <3> QED
      BY <2>1, <2>6, <3>1, <3>2, SMTT(30) DEF RInv, SwitchedOut, OnCpu
  <2>13. RunsOnce'
    <3>1. \A r \in Proc : Free(r)' => r # q /\ Free(r) /\ proc'[r].state = proc[r].state
      BY <2>2, <2>7, Constants DEF Free
    <3> QED
      BY <2>1, <3>1, RunsKept, Zenon DEF RInv
  <2>14. ForkInv'
    <3>1. Top(t) \in Forking /\ Top(NewThread) \notin Forking
      BY <2>4, <2>5, SMTT(30) DEF Top, Yielding, Forking
    <3>2. \A r \in Proc \ {p} : Top(thread'[r]) \in Forking =>
            Top(thread[r]) \in Forking /\ thread'[r].i = thread[r].i /\ thread[r].i # q /\ thread[r].i \in Proc
      <4>1. \A r \in Proc : Top(thread[r]) \in Forking => thread[r].i # q /\ thread[r].i \in Proc
        BY <1>4, Zenon DEF RInv, ForkInv, StackInv, Stack, q
      <4> QED
        BY <2>6, <3>1, <4>1, SMTT(30)
    <3>3. \A r \in Proc : OnCpu(r)' <=> OnCpu(r)
      BY <2>1, SMTT(30) DEF OnCpu
    <3> SUFFICES ASSUME NEW r \in Proc, Top(thread'[r]) \in Forking
                 PROVE  /\ proc'[thread'[r].i].state = "USED"
                        /\ \A d \in Cpu : cpu'[d].proc # thread'[r].i
                        /\ \A u \in Proc : Top(thread'[u]) \in Forking /\ thread'[u].i = thread'[r].i => u = r
      BY SMTT(30) DEF ForkInv, OnCpu
    <3>4. CASE r = p
      <4>1. thread'[r].i = q
        BY <2>4, <2>6, <3>4
      <4>2. \A d \in Cpu : cpu'[d].proc # q
        BY <2>1, <2>3, SMTT(30) DEF OnCpu
      <4> QED
        BY <2>2, <3>2, <3>4, <4>1, <4>2, SMTT(30)
    <3>5. CASE r # p
      <4>1. /\ Top(thread[r]) \in Forking /\ thread'[r].i = thread[r].i /\ thread[r].i # q /\ thread[r].i \in Proc
        BY <3>2, <3>5, SMTT(30)
      <4>2. /\ proc[thread[r].i].state = "USED" /\ \A d \in Cpu : cpu[d].proc # thread[r].i
            /\ \A u \in Proc : Top(thread[u]) \in Forking /\ thread[u].i = thread[r].i => u = r
        BY <4>1 DEF RInv, ForkInv, OnCpu
      <4>3. thread'[p].i = q
        BY <2>4, <2>6, SMTT(30)
      <4> QED
        BY <2>1, <2>2, <3>2, <4>1, <4>2, <4>3, Zenon
    <3> QED
      BY <3>4, <3>5
  <2> QED
    BY <2>9, <2>10, <2>11, <2>12, <2>13, <2>14 DEF RInv
<1>5. CASE proc[q].state # "UNUSED"
  <2> DEFINE t == IF q = NPROC THEN At("ret", <<>>, 0, 0) ELSE [thread[p] EXCEPT !.i = q + 1]
  <2>1. Becomes(p, t) /\ UNCHANGED <<proc, lock, nextpid, cpu, ticks>>
    BY <1>5 DEF allocproc, Becomes
  <2>2. t \in Threads /\ Stack(t) /\ Top(t) \notin Forking /\ \A l \in Locks : ~Holds(p, t, l)
    <3>1. CASE q = NPROC
      BY <3>1, PlainAt DEF Plain
    <3>2. CASE q # NPROC
      <4>1. t = [thread[p] EXCEPT !.i = q + 1]
        BY <3>2
      <4>2. t \in Threads /\ t.pc = "fork" /\ t.i = q + 1
        BY <1>1, <1>2, <4>1 DEF Threads
      <4>3. q + 1 \in Proc
        BY <1>3, <3>2, Constants
      <4> HIDE DEF t
      <4> QED
        BY <4>2, <4>3 DEF Stack, Top, Yielding, Forking, Holds, Switching
    <3> QED
      BY <3>1, <3>2
  <2> HIDE DEF t
  <2>3. Relocks(p, c, t)
    BY <1>2, <2>1, <2>2, SameLocks, SMTT(30) DEF Relocks
  <2> QED
    BY <1>1, <1>2, <2>1, <2>2, <2>3, QuietStep, Zenon
<1> QED
  BY <1>4, <1>5

LEMMA schedR ==
  ASSUME RInv, NEW p \in Proc, NEW c \in Cpu, sched(p, c)
  PROVE  RInv'
<1>1. /\ cpu[c].proc = p /\ cpu[c].irq = 0 /\ thread[p].pc \in {"yielded", "slept", "dead"}
      /\ proc[p].state # "RUNNING"
  BY SMTT(30) DEF sched, Runs
<1>2. /\ \A l \in Locks : lock[l] = c <=> l = p
      /\ lock \in [Locks -> Cpu \cup {NoCpu}]
  <2>1. \A l \in Locks : lock[l] = c <=> l = p
    BY <1>1, RunningLocks DEF Preemptible
  <2> QED
    BY <1>1, <2>1, Running, Zenon
<1>3. UNCHANGED <<proc, thread, ticks, nextpid>>
  BY DEF sched
<1>4. OwnLocks(c) /\ c # NoCpu /\ lock'[p] = NoCpu /\ \A m \in Locks : m # p => lock'[m] = lock[m]
  BY <1>2, Release, Constants, ZenonT(40) DEF sched
<1>5. /\ cpu' \in [Cpu -> [proc : 0 .. NPROC, scan : Proc, irq : 0 .. NPROC]]
      /\ cpu'[c].proc = 0 /\ cpu'[c].irq = 0 /\ \A d \in Cpu \ {c} : cpu'[d] = cpu[d]
  <2> DEFINE k == (p % NPROC) + 1
             f == [cpu EXCEPT ![c].proc = 0]
             g == [f EXCEPT ![c].scan = k]
  <2>1. k \in Proc
    BY Constants
  <2> HIDE DEF k
  <2>2. /\ f \in [Cpu -> [proc : 0 .. NPROC, scan : Proc, irq : 0 .. NPROC]]
        /\ f[c].proc = 0 /\ f[c].irq = 0 /\ \A d \in Cpu \ {c} : f[d] = cpu[d]
    <3>1. cpu \in [Cpu -> [proc : 0 .. NPROC, scan : Proc, irq : 0 .. NPROC]] /\ 0 \in 0 .. NPROC
      BY Constants DEF RInv, Types
    <3> QED
      BY <1>1, <3>1
  <2> HIDE DEF f
  <2>3. /\ g \in [Cpu -> [proc : 0 .. NPROC, scan : Proc, irq : 0 .. NPROC]]
        /\ g[c].proc = 0 /\ g[c].irq = 0 /\ \A d \in Cpu \ {c} : g[d] = cpu[d]
    BY <2>1, <2>2
  <2>4. cpu' = g
    BY Zenon DEF sched, k, f
  <2> HIDE DEF g
  <2> QED
    BY <2>3, <2>4
<1>6. \A q \in Proc : OnCpu(q)' <=> OnCpu(q) /\ q # p
  <2>1. \A d \in Cpu \ {c} : cpu[d].proc # p
    BY <1>1, Constants DEF RInv, RunsOnce
  <2> QED
    BY <1>1, <1>5, <2>1, Constants DEF OnCpu
<1>7. Types' /\ StackInv'
  BY <1>3, <1>4, <1>5, SMTT(30) DEF RInv, Types, StackInv, OwnLocks
<1>8. LockInv'
  <2>1. \A l \in Locks : lock'[l] = c <=> Owns(c, l)'
    BY <1>2, <1>4, <1>5, SMTT(30) DEF Owns
  <2> QED
    BY <1>3, <1>4, <1>5, <2>1, OthersLocks, SMTT(30)
<1>9. RunsOnce'
  <2>1. \A d, e \in Cpu : cpu'[d].proc # 0 /\ cpu'[d].proc = cpu'[e].proc => d = e
    BY <1>5, SMTT(30) DEF RInv, RunsOnce
  <2>2. \A q \in Proc : Free(q)' => (proc'[q].state = "RUNNING" <=> OnCpu(q)')
    <3>1. \A q \in Proc : Free(q) => (proc[q].state = "RUNNING" <=> OnCpu(q))
      BY DEF RInv, RunsOnce, OnCpu
    <3>2. \A q \in Proc : q # p => (Free(q)' <=> Free(q))
      BY <1>4, Constants DEF Free
    <3> QED
      BY <1>1, <1>3, <1>6, <3>1, <3>2, SMTT(30)
  <2> QED
    BY <2>1, <2>2, SMTT(30) DEF RunsOnce, OnCpu
<1>10. SwitchedOut'
  BY <1>1, <1>3, <1>6, SMTT(30) DEF RInv, SwitchedOut, Switching
<1>11. ForkInv'
  <2>1. \A q \in Proc : Top(thread[q]) \in Forking =>
          /\ proc[thread[q].i].state = "USED" /\ \A d \in Cpu : cpu'[d].proc # thread[q].i
    <3>1. \A q \in Proc : Top(thread[q]) \in Forking => thread[q].i # 0
      BY Constants, SMTT(30) DEF RInv, StackInv, Stack
    <3> QED
      BY <1>5, <3>1, SMTT(30) DEF RInv, ForkInv, OnCpu
  <2> QED
    BY <1>3, <2>1, ForksKept, SMTT(30) DEF RInv
<1> QED
  BY <1>7, <1>8, <1>9, <1>10, <1>11 DEF RInv
-----------------------------------------------------------------------------
(* The timer interrupt *)

LEMMA PreemptedR ==
  ASSUME RInv, NEW c \in Cpu, Preempted(c), cpu[c].proc # 0 => thread[cpu[c].proc].pc \in Preemptible
  PROVE  /\ thread' \in [Proc -> Threads] /\ StackInv'
         /\ \A q \in Proc : /\ q # cpu[c].proc => thread'[q] = thread[q]
                            /\ Top(thread'[q]) = Top(thread[q]) /\ Below(thread'[q]) = Below(thread[q])
                            /\ thread'[q].i = thread[q].i /\ thread'[q].x = thread[q].x
                            /\ thread'[q].lk = thread[q].lk
         /\ cpu[c].proc # 0 => thread'[cpu[c].proc].pc \in {"tick", "yield"}
<1> DEFINE p == cpu[c].proc
<1>1. thread \in [Proc -> Threads] /\ p \in 0 .. NPROC
  BY DEF RInv, Types
<1>2. CASE p = 0
  BY <1>1, <1>2, Constants, SMTT(30) DEF Preempted, RInv, StackInv
<1>3. CASE p # 0
  <2>1. p \in Proc /\ thread[p] \in Threads /\ thread[p].pc \in Preemptible /\ thread[p].pc \in Labels
    <3>1. p \in Proc
      BY <1>1, <1>3, Constants
    <3>2. thread[p].pc \in Preemptible
      BY <1>3
    <3> HIDE DEF p
    <3> QED
      BY <1>1, <3>1, <3>2, SMTT(30) DEF Threads
  <2> HIDE DEF p
  <2> DEFINE l == IF thread[p].pc = "user" THEN "tick" ELSE "yield"
             s == <<thread[p].pc>> \o thread[p].back
             t == Thread(l, s, thread[p].i, thread[p].x, thread[p].lk)
  <2>2. s \in Seq(Labels) /\ s # <<>> /\ Head(s) = thread[p].pc /\ Tail(s) = thread[p].back
    BY <2>1, Push DEF Threads
  <2>3. l \in Labels /\ l \in {"tick", "yield"}
    BY DEF Labels
  <2>4. Becomes(p, t)
    <3> DEFINE f == [thread EXCEPT ![p].pc = l]
               g == [f EXCEPT ![p].back = <<thread[p].pc>> \o @]
    <3> HIDE DEF l
    <3>1. /\ f \in [Proc -> Threads] /\ \A q \in Proc \ {p} : f[q] = thread[q]
          /\ f[p] = [pc |-> l, back |-> thread[p].back, i |-> thread[p].i, x |-> thread[p].x, lk |-> thread[p].lk]
      BY <1>1, <2>1, <2>3, Zenon DEF Threads
    <3> HIDE DEF f
    <3>2. g = [f EXCEPT ![p].back = s]
      BY <2>1, <3>1
    <3> HIDE DEF s, g
    <3>3. [f[p] EXCEPT !.back = s] = t
      BY <3>1 DEF Thread
    <3>4. g = [f EXCEPT ![p] = t]
      BY <3>2, <3>3, Zenon
    <3> HIDE DEF t
    <3>5. g = [thread EXCEPT ![p] = t]
      BY <1>1, <2>1, <3>1, <3>4, ZenonT(40)
    <3>6. thread' = g
      <4>1. thread' = [thread EXCEPT ![p].pc = IF @ = "user" THEN "tick" ELSE "yield",
                                     ![p].back = <<thread[p].pc>> \o @]
        BY <1>3 DEF Preempted, p
      <4> QED
        BY <4>1, Zenon DEF f, g, l
    <3> QED
      BY <3>5, <3>6 DEF Becomes
  <2> HIDE DEF l, s
  <2>5. /\ t \in Threads /\ t.pc = l /\ t.back = s /\ t.i = thread[p].i /\ t.x = thread[p].x /\ t.lk = thread[p].lk
    BY <2>1, <2>2, <2>3, Zenon DEF Thread, Threads
  <2> HIDE DEF t
  <2>6. thread' \in [Proc -> Threads] /\ thread'[p] = t /\ \A q \in Proc \ {p} : thread'[q] = thread[q]
    BY <1>1, <2>1, <2>4, <2>5 DEF Becomes
  <2>7. thread[p].pc \notin Yielding /\ l \in Yielding
    BY <2>1, <2>3, SMTT(30) DEF Preemptible, Yielding
  <2>8. Top(t) = Top(thread[p]) /\ Below(t) = Below(thread[p])
    BY <2>2, <2>5, <2>7, SMTT(30) DEF Top, Below
  <2>9. Stack(t)
    <3>1. Stack(thread[p])
      BY <2>1 DEF RInv, StackInv
    <3> QED
      BY <2>1, <2>2, <2>5, <2>8, <3>1 DEF Stack
  <2>10. StackInv'
    BY <2>6, <2>9, SMTT(30) DEF RInv, StackInv
  <2> QED
    BY <2>3, <2>5, <2>6, <2>8, <2>10, Zenon DEF p
<1> QED
  BY <1>2, <1>3, Zenon

LEMMA timerintrR ==
  ASSUME RInv, NEW c \in Cpu, timerintr(c)
  PROVE  RInv'
<1>1. cpu[c].irq = 0 /\ Held(c) = {} /\ proc' = proc /\ nextpid' = nextpid
  BY DEF timerintr
<1>2. \A l \in Locks : lock[l] # c
  BY <1>1 DEF Held
<1>3. cpu[c].proc # 0 => cpu[c].proc \in Proc /\ thread[cpu[c].proc].pc \in Preemptible
  <2> DEFINE p == cpu[c].proc
  <2> SUFFICES ASSUME p # 0 PROVE p \in Proc /\ thread[p].pc \in Preemptible
    OBVIOUS
  <2>1. p \in Proc /\ thread[p].pc \notin {"yield", "tick"}
    BY Constants DEF RInv, Types, timerintr
  <2>2. thread[p] \in Threads /\ Stack(thread[p]) /\ \A l \in Locks : lock[l] = c <=> Holds(p, thread[p], l)
    BY <1>1, <2>1, Running, Zenon
  <2> HIDE DEF p
  <2>3. \A l \in Locks : ~Holds(p, thread[p], l)
    BY <1>2, <2>2
  <2>4. thread[p].pc \notin Switching \cup {"reparent", "wakeup", "zombie", "scan", "pausing"}
    BY <2>1, <2>3, Constants DEF Holds
  <2>5. thread[p].pc # "sleep"
    BY <2>2, <2>3, Constants, SMTT(30) DEF Holds, Threads
  <2>6. thread[p].pc # "forkcopy"
    BY <2>2, <2>3, Constants, Zenon DEF Holds, Stack, Top, Yielding, Forking
  <2>7. thread[p].pc \in Labels
    BY <2>2 DEF Threads
  <2> QED
    BY <2>1, <2>4, <2>5, <2>6, <2>7 DEF Labels, Preemptible, Switching
<1>4. lock \in [Locks -> Cpu \cup {NoCpu}] /\ proc \in [Proc -> Slots] /\ nextpid \in Nat /\ ticks \in Int
  BY DEF RInv, Types
<1>5. CASE c = 0
  <2>1. /\ Free(tickslock) /\ lock' = [lock EXCEPT ![tickslock] = c]
        /\ ticks' = IF CanCount THEN (ticks + 1) % TickMod ELSE ticks
        /\ cpu' = [cpu EXCEPT ![c].irq = 1] /\ thread' = thread
    BY <1>5 DEF timerintr
  <2>2. ticks' \in Int
    BY <1>4, <2>1, ProcAssumption
  <2>3. /\ cpu' \in [Cpu -> [proc : 0 .. NPROC, scan : Proc, irq : 0 .. NPROC]]
        /\ cpu'[c].irq = 1 /\ \A d \in Cpu : cpu'[d].proc = cpu[d].proc
        /\ \A d \in Cpu \ {c} : cpu'[d] = cpu[d]
    <3>1. cpu \in [Cpu -> [proc : 0 .. NPROC, scan : Proc, irq : 0 .. NPROC]] /\ 1 \in 0 .. NPROC
      BY Constants DEF RInv, Types
    <3> QED
      BY <2>1, <3>1
  <2>4. /\ OwnLocks(c) /\ lock'[tickslock] = c
        /\ \A m \in Locks : m # tickslock => lock'[m] = lock[m]
    BY <1>4, <2>1, Acquire, Constants, Zenon
  <2>5. LockInv'
    <3>1. \A l \in Locks : lock'[l] = c <=> Owns(c, l)'
      BY <1>2, <2>3, <2>4 DEF Owns
    <3> QED
      BY <1>3, <2>1, <2>3, <2>4, <3>1, OthersLocks
  <2>6. StackInv' /\ thread' \in [Proc -> Threads]
    BY <2>1 DEF RInv, StackInv, Types
  <2>7. lock' \in [Locks -> Cpu \cup {NoCpu}] /\ \A q \in Proc : lock'[q] = lock[q]
    BY <2>4, Constants DEF OwnLocks
  <2>8. SameRuns /\ SameCalls(c) /\ SameProcLocks /\ WakesOnly
    BY <1>1, <1>4, <2>1, <2>3, <2>6, <2>7, SMTT(30) DEF SameRuns, SameCalls, SameProcLocks, WakesOnly
  <2> QED
    BY <1>1, <1>4, <2>2, <2>5, <2>6, <2>8, IrqStep
<1>6. CASE c # 0
  <2>1. cpu[c].proc # 0 /\ Preempted(c) /\ cpu' = cpu /\ lock' = lock /\ ticks' = ticks
    BY <1>6, SMTT(30) DEF timerintr
  <2>2. /\ thread' \in [Proc -> Threads] /\ StackInv'
        /\ \A q \in Proc : /\ q # cpu[c].proc => thread'[q] = thread[q]
                           /\ Top(thread'[q]) = Top(thread[q]) /\ thread'[q].i = thread[q].i
        /\ thread'[cpu[c].proc].pc \in {"tick", "yield"}
    BY <1>3, <2>1, PreemptedR, ZenonT(40)
  <2>3. LockInv'
    <3>1. \A l \in Locks : lock'[l] = c <=> Owns(c, l)'
      BY <1>1, <1>2, <2>1, <2>2 DEF Owns, Holds, Switching
    <3>2. OwnLocks(c)
      BY <1>4, <2>1, SameLocks
    <3> QED
      BY <1>1, <2>1, <2>2, <3>1, <3>2, OthersLocks, ZenonT(40)
  <2>4. cpu' \in [Cpu -> [proc : 0 .. NPROC, scan : Proc, irq : 0 .. NPROC]]
    BY <2>1, SMTT(30) DEF RInv, Types
  <2>5. SameRuns /\ SameCalls(c) /\ SameProcLocks /\ WakesOnly
    BY <1>1, <1>4, <2>1, <2>2, <2>4 DEF SameRuns, SameCalls, SameProcLocks, WakesOnly
  <2> QED
    BY <1>1, <1>4, <2>1, <2>2, <2>3, <2>5, IrqStep, Zenon
<1> QED
  BY <1>5, <1>6

LEMMA clockintrR ==
  ASSUME RInv, NEW c \in Cpu, clockintr(c)
  PROVE  RInv'
<1> DEFINE q == cpu[c].irq
<1>1. q \in Proc /\ q # 0 /\ nextpid' = nextpid /\ ticks' = ticks
  BY Constants DEF clockintr
<1>2. /\ lock \in [Locks -> Cpu \cup {NoCpu}] /\ proc \in [Proc -> Slots] /\ nextpid \in Nat /\ ticks \in Int
      /\ \A l \in Locks : lock[l] = c <=> l = tickslock
      /\ cpu[c].proc # 0 => thread[cpu[c].proc].pc \in Preemptible
  BY <1>1 DEF RInv, Types, LockInv, Owns
<1>3. /\ proc' \in [Proc -> Slots]
      /\ \A r \in Proc : \/ proc'[r].state = proc[r].state
                         \/ proc[r].state = "SLEEPING" /\ proc'[r].state = "RUNNABLE"
  <2>1. CASE q = cpu[c].proc
    BY <1>2, <2>1, SMTT(30) DEF clockintr
  <2>2. CASE q # cpu[c].proc
    <3>1. proc' = Woken(q, tickslock)
      BY <2>2 DEF clockintr
    <3> QED
      BY <1>1, <1>2, <3>1, WokenStates
  <2> QED
    BY <2>1, <2>2
<1>4. /\ cpu' \in [Cpu -> [proc : 0 .. NPROC, scan : Proc, irq : 0 .. NPROC]]
      /\ cpu'[c].irq = (IF q = NPROC THEN 0 ELSE q + 1)
      /\ \A d \in Cpu : cpu'[d].proc = cpu[d].proc
      /\ \A d \in Cpu \ {c} : cpu'[d] = cpu[d]
  <2> DEFINE k == IF q = NPROC THEN 0 ELSE q + 1
  <2>1. cpu' = [cpu EXCEPT ![c].irq = k]
    BY DEF clockintr
  <2>2. k \in 0 .. NPROC
    BY <1>1, Constants
  <2> HIDE DEF k
  <2>3. cpu \in [Cpu -> [proc : 0 .. NPROC, scan : Proc, irq : 0 .. NPROC]]
    BY DEF RInv, Types
  <2>4. /\ cpu' \in [Cpu -> [proc : 0 .. NPROC, scan : Proc, irq : 0 .. NPROC]]
        /\ cpu'[c].irq = k
        /\ \A d \in Cpu : cpu'[d].proc = cpu[d].proc
        /\ \A d \in Cpu \ {c} : cpu'[d] = cpu[d]
    BY <2>1, <2>2, <2>3, SMTT(30)
  <2> QED
    BY <2>4 DEF k
<1>5. CASE q = NPROC
  <2>1. lock' = [lock EXCEPT ![tickslock] = NoCpu] /\ Preempted(c)
    BY <1>5, SMTT(30) DEF clockintr
  <2>2. /\ thread' \in [Proc -> Threads] /\ StackInv'
        /\ \A r \in Proc : /\ r # cpu[c].proc => thread'[r] = thread[r]
                           /\ Top(thread'[r]) = Top(thread[r]) /\ thread'[r].i = thread[r].i
        /\ cpu[c].proc # 0 => thread'[cpu[c].proc].pc \in {"tick", "yield"}
    BY <1>2, <2>1, PreemptedR, Zenon
  <2>3. /\ OwnLocks(c) /\ c # NoCpu /\ lock'[tickslock] = NoCpu
        /\ \A m \in Locks : m # tickslock => lock'[m] = lock[m]
    BY <1>2, <2>1, Release, Constants, ZenonT(40)
  <2>4. cpu'[c].irq = 0
    BY <1>4, <1>5
  <2>5. LockInv'
    <3>1. \A l \in Locks : lock'[l] # c
      BY <1>2, <2>3
    <3>2. \A l \in Locks : ~Owns(c, l)'
      BY <1>4, <2>2, <2>4 DEF Owns, Holds, Switching
    <3> QED
      BY <1>4, <2>2, <2>3, <2>4, <3>1, <3>2, OthersLocks, Zenon
  <2>6. lock' \in [Locks -> Cpu \cup {NoCpu}] /\ \A r \in Proc : lock'[r] = lock[r]
    BY <2>3, Constants, SMTT(30) DEF OwnLocks
  <2>7. SameRuns /\ SameCalls(c) /\ SameProcLocks /\ WakesOnly
    BY <1>3, <1>4, <2>2, <2>6, ZenonT(40) DEF SameRuns, SameCalls, SameProcLocks, WakesOnly
  <2> QED
    BY <1>1, <1>2, <2>2, <2>5, <2>7, IrqStep, Zenon
<1>6. CASE q # NPROC
  <2>1. lock' = lock /\ thread' = thread
    BY <1>6 DEF clockintr
  <2>2. cpu'[c].irq # 0
    BY <1>1, <1>4, <1>6, Constants, SMTT(30)
  <2>3. LockInv'
    <3>1. \A l \in Locks : lock'[l] = c <=> Owns(c, l)'
      BY <1>2, <2>1, <2>2, ZenonT(40) DEF Owns
    <3>2. OwnLocks(c)
      BY <1>2, <2>1, SameLocks
    <3> QED
      BY <1>2, <1>4, <2>1, <3>1, <3>2, OthersLocks, SMTT(30)
  <2>4. thread' \in [Proc -> Threads] /\ StackInv'
    BY <2>1, SMTT(30) DEF RInv, Types, StackInv
  <2>5. SameRuns /\ SameCalls(c) /\ SameProcLocks /\ WakesOnly
    BY <1>2, <1>3, <1>4, <2>1, <2>4 DEF SameRuns, SameCalls, SameProcLocks, WakesOnly
  <2> QED
    BY <1>1, <1>2, <2>3, <2>4, <2>5, IrqStep, Zenon
<1> QED
  BY <1>5, <1>6
-----------------------------------------------------------------------------
\* The invariant holds in every state: what a thread returns to is what called
\* it, every CPU holds the locks its thread is supposed to and no other, no two
\* CPUs run one process, a thread that no CPU runs is in sched() or has not
\* started, and a slot that fork fills is nobody else's.
THEOREM ProcInvariant == Spec => []RInv
<1>1. ASSUME RInv, [Next]_vars PROVE RInv'
  <2>1. CASE Next
    <3>1. PICK c \in Cpu : Step(c) \/ timerintr(c) \/ \E p \in Proc : syscall(p, c)
      BY <2>1 DEF Next
    <3>2. CASE scheduler(c) \/ clockintr(c) \/ timerintr(c)
      BY <1>1, <3>2, schedulerR, clockintrR, timerintrR
    <3>3. ASSUME NEW p \in Proc, Switch(p, c) \/ Sleep(p, c) PROVE RInv'
      BY <1>1, <3>3, schedR, yieldR, resumedR, sleepR, sleptR, relockR, wakeupR, SMTT(30) DEF Switch, Sleep
    <3>4. ASSUME NEW p \in Proc, Fork(p, c) \/ Exit(p, c) PROVE RInv'
      BY <1>1, <3>4, allocprocR, forkfailR, forkcopyR, forkparentR, forkrunR, kexitR, reparentR, zombieR, SMTT(30)
         DEF Fork, Exit
    <3>5. ASSUME NEW p \in Proc, Wait(p, c) \/ Pause(p, c) PROVE RInv'
      BY <1>1, <3>5, kwaitR, scanR, reapR, scannedR, sys_pauseR, pausingR, SMTT(30) DEF Wait, Pause
    <3>6. ASSUME NEW p \in Proc, kkill(p, c) \/ trapret(p, c) \/ tick(p, c) \/ syscall(p, c) PROVE RInv'
      BY <1>1, <3>6, kkillR, trapretR, tickR, syscallR
    <3> QED
      BY <3>1, <3>2, <3>3, <3>4, <3>5, <3>6 DEF Step, Kernel
  <2>2. CASE UNCHANGED vars
    <3>1. proc' = proc /\ thread' = thread /\ cpu' = cpu /\ lock' = lock /\ ticks' = ticks /\ nextpid' = nextpid
      BY <2>2 DEF vars
    <3>2. (Types /\ StackInv /\ LockInv)'
      BY <1>1, <3>1, SMTT(30) DEF RInv, Types, StackInv, LockInv, Owns
    <3>3. (RunsOnce /\ SwitchedOut /\ ForkInv)'
      BY <1>1, <3>1 DEF RInv, RunsOnce, SwitchedOut, ForkInv, OnCpu, Free
    <3> QED
      BY <3>2, <3>3 DEF RInv
  <2> QED
    BY <1>1, <2>1, <2>2
<1> QED
  BY InitR, <1>1, PTL DEF Spec

\* SwitchSafe for any number of CPUs and processes: holding p->lock across
\* swtch() keeps a process from running on two CPUs, RUNNING means that a CPU
\* runs it, and the panics of sched() about locks are unreachable.
THEOREM SwitchSafeAlways == Spec => []SwitchSafe
  BY ProcInvariant, InvSwitchSafe, PTL
=============================================================================
