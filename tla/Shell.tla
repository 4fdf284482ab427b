------------------------------- MODULE Shell --------------------------------
(***************************************************************************)
(* user/sh.c and user/init.c: the shell reads a line, a child parses it    *)
(* (ShParser) and runs the command with fork(), pipe(), close(), dup(),    *)
(* exec() and wait(); init waits for whoever has no parent and starts a    *)
(* new shell when one exits.                                               *)
(*                                                                         *)
(* The kernel (external here) is what its calls do to the process table    *)
(* and the descriptors: the lowest free slot or descriptor, a failing      *)
(* fork() or pipe() when there is none, orphans given to init, a pipe at   *)
(* end of file once no process has its write end open.  Programs are of    *)
(* two kinds: a source ends when it likes, a filter reads its input to the *)
(* end first.                                                              *)
(***************************************************************************)
EXTENDS ShParser, Integers, FiniteSets, FiniteSetsExt

CONSTANTS
  NPROC, NOFILE,
  NPIPE,       \* how many pipes the kernel has room for
  Filters,     \* names of programs that read all their input
  Lines,       \* commands typed
  ParsedOnly,  \* bound: commands that are parsed but not run, as first line
  BadTexts,    \* texts that are typed but are no commands
  MaxLines     \* bound: lines typed

ASSUME ShellAssumption ==
  {NPROC, NOFILE, NPIPE, MaxLines} \subseteq Nat /\ NPROC >= 2 /\ NOFILE >= 3

VARIABLES
  proc,   \* the process table
  sh,     \* pid of init's main(): the shell
  left    \* lines that may still be typed

vars == <<proc, sh, left>>

Slot == 0 .. NPROC - 1
INIT == 0
Fd == 0 .. NOFILE - 1

\* What a descriptor refers to: nothing, the console, a file, or an end of pipe k.
None == <<"none", 0>>
Console == <<"console", 0>>
File == <<"file", 0>>
ReadEnd(k) == <<"r", k>>
WriteEnd(k) == <<"w", k>>

\* A process: state and parent for the kernel; the place in the program; the line
\* in its buffer and the command it runs; its descriptors and the pair p of
\* runcmd().
NoLine == [text |-> <<>>, cmd |-> execcmd(<<>>), run |-> FALSE]
NoProc == [state |-> "unused", parent |-> INIT, pc |-> "", line |-> NoLine,
           cmd |-> Fail(0), fd |-> [d \in Fd |-> None], p |-> <<0, 0>>]

\* What the shell is when exec() starts it: init's descriptors, the console thrice.
\* The shell opens it once more and closes it again.
NewShell == [NoProc EXCEPT !.state = "live", !.pc = "prompt",
                           !.fd = [d \in Fd |-> IF d <= 2 THEN Console ELSE None]]

Init ==
  /\ proc = [p \in Slot |-> CASE p = INIT -> [NewShell EXCEPT !.pc = "reap"]
                              [] p = 1 -> NewShell
                              [] OTHER -> NoProc]
  /\ sh = 1 /\ left = MaxLines

\* The kernel panics if init exits.
Panicked == proc[INIT].pc = "exit"

At(p, pc) == ~Panicked /\ proc[p].state = "live" /\ proc[p].pc = pc
Runs(p, type) == At(p, "run") /\ proc[p].cmd.cmd.type = type
Cmd(p) == proc[p].cmd.cmd
Go(p, pc) == [proc EXCEPT ![p].pc = pc]
RunNext(p, c) == [proc EXCEPT ![p].pc = "run", ![p].cmd.cmd = c]
-----------------------------------------------------------------------------
(* The kernel, as the calls of these programs see it. *)

FreeSlots == {p \in Slot : proc[p].state = "unused"}

\* fork1(): p goes on at pc, its child at cpc.  Without a free slot p prints "fork"
\* and exits.
fork1(p, pc, cpc) ==
  proc' = IF FreeSlots = {} THEN Go(p, "exit")
          ELSE [Go(p, pc) EXCEPT ![Min(FreeSlots)] = [proc[p] EXCEPT !.parent = p, !.pc = cpc]]

Children(p) == {q \in Slot \ {INIT} : proc[q].state # "unused" /\ proc[q].parent = p}

\* wait(0) of p, which then goes on as in next: one child that has exited is
\* forgotten; without children the call returns at once.
wait(p, next) ==
  /\ \/ \E q \in Children(p) : proc[q].state = "zombie" /\ proc' = [next EXCEPT ![q] = NoProc]
     \/ Children(p) = {} /\ proc' = next
  /\ UNCHANGED <<sh, left>>

\* exit(): descriptors are closed, children are given to init.
exit(p) ==
  /\ p # INIT /\ At(p, "exit")
  /\ proc' = [q \in Slot |->
       IF q = p THEN [NoProc EXCEPT !.state = "zombie", !.parent = proc[p].parent]
       ELSE IF q \in Children(p) THEN [proc[q] EXCEPT !.parent = INIT] ELSE proc[q]]
  /\ UNCHANGED <<sh, left>>

Unused(fd) == {d \in Fd : fd[d] = None}
Opened(fd, x) == [fd EXCEPT ![Min(Unused(fd))] = x]
Closed(fd, ds) == [d \in Fd |-> IF d \in ds THEN None ELSE fd[d]]

Held(x) == \E p \in Slot, d \in Fd : proc[p].fd[d] = x
FreePipes == {k \in 1 .. NPIPE : ~Held(ReadEnd(k)) /\ ~Held(WriteEnd(k))}

\* A read of x comes to an end: x is no pipe, or a pipe nobody can write to any more.
AtEof(x) == x[1] = "r" => ~Held(WriteEnd(x[2]))
-----------------------------------------------------------------------------
(* main() of the shell.  A blank line and "cd" change nothing that is kept   *)
(* here.                                                                     *)

Typed(p, text, c, run) ==
  /\ At(p, "prompt") /\ left > 0
  /\ proc' = [proc EXCEPT ![p].pc = "fork", 
                      ![p].line = [text |-> text, cmd |-> c, run |-> run]]
  /\ left' = left - 1
  /\ UNCHANGED sh

getcmd(p) ==
  \/ \E c \in Lines : Typed(p, Text(c, 1), c, TRUE)
  \/ left = MaxLines /\ \E c \in ParsedOnly : Typed(p, Text(c, 1), c, FALSE)
  \/ \E t \in BadTexts : Typed(p, t, execcmd(<<>>), TRUE)

\* The end of the input: the shell exits.
getcmd_eof(p) ==
  /\ At(p, "prompt") /\ left > 0
  /\ proc' = Go(p, "exit") /\ left' = left - 1
  /\ UNCHANGED sh

main_fork(p) == At(p, "fork") /\ fork1(p, "wait", "parse") /\ UNCHANGED <<sh, left>>

\* Back to the prompt, which clears the buffer.
main_wait(p) == At(p, "wait") /\ wait(p, [Go(p, "prompt") EXCEPT ![p].line = NoLine])

\* parsecmd() on each text that is typed.
Parsed == [text \in {Text(c, 1) : c \in Lines \cup ParsedOnly} \cup BadTexts |-> parsecmd(text)]

main_parse(p) ==
  /\ At(p, "parse")
  /\ proc' = [Go(p, "parsed") EXCEPT ![p].cmd = Parsed[proc[p].line.text]]
  /\ UNCHANGED <<sh, left>>

\* A panic() of the parser exits.
main_run(p) ==
  /\ At(p, "parsed")
  /\ proc' = Go(p, IF proc[p].cmd.ok /\ proc[p].line.run THEN "run" ELSE "exit")
  /\ UNCHANGED <<sh, left>>
-----------------------------------------------------------------------------
(* runcmd() *)

\* exec() replaces the program by another, or fails.
run_exec(p) ==
  /\ Runs(p, "EXEC")
  /\ \E pc \in {"program", "exit"} : (pc = "program" => Cmd(p).argv # <<>>) /\ proc' = Go(p, pc)
  /\ UNCHANGED <<sh, left>>

\* close(rcmd->fd) and open(), which takes the lowest descriptor, or fails.
run_redir(p) ==
  /\ Runs(p, "REDIR")
  /\ LET fd == Closed(proc[p].fd, {Cmd(p).fd})
     IN \/ proc' = [RunNext(p, Cmd(p).cmd) EXCEPT ![p].fd = Opened(fd, File)]
        \/ proc' = [Go(p, "exit") EXCEPT ![p].fd = fd]
  /\ UNCHANGED <<sh, left>>

run_list(p) ==
  /\ Runs(p, "LIST")
  /\ fork1(p, "list", "left")
  /\ UNCHANGED <<sh, left>>

run_list_wait(p) == At(p, "list") /\ wait(p, RunNext(p, Cmd(p).right))

\* pipe(p) takes the two lowest descriptors.
run_pipe(p) ==
  /\ Runs(p, "PIPE")
  /\ LET fd == proc[p].fd
         k == Min(FreePipes)
         r == Min(Unused(fd))
         w == Min(Unused(fd) \ {r})
     IN IF FreePipes = {} \/ Cardinality(Unused(fd)) < 2
        THEN proc' = Go(p, "exit")
        ELSE proc' = [Go(p, "fork_left") EXCEPT
                        ![p].fd = [fd EXCEPT ![r] = ReadEnd(k), ![w] = WriteEnd(k)],
                        ![p].p = <<r, w>>]
  /\ UNCHANGED <<sh, left>>

run_pipe_left(p) ==
  At(p, "fork_left") /\ fork1(p, "fork_right", "left_end") /\ UNCHANGED <<sh, left>>

run_pipe_right(p) ==
  At(p, "fork_right") /\ fork1(p, "close", "right_end") /\ UNCHANGED <<sh, left>>

\* Mutant: the write end stays open.
PipeEnd_kept(fd, pp, std, end) == Closed(Opened(Closed(fd, {std}), fd[pp[end]]), {pp[1]})

\* In a child: close(std), dup() of an end, which takes the lowest descriptor, and
\* close() of both ends.
PipeEnd(fd, pp, std, end) == Closed(Opened(Closed(fd, {std}), fd[pp[end]]), {pp[1], pp[2]})

run_left(p) ==
  /\ \/ At(p, "left") /\ proc' = RunNext(p, Cmd(p).left)
     \/ /\ At(p, "left_end")
        /\ proc' = [RunNext(p, Cmd(p).left) EXCEPT
                      ![p].fd = PipeEnd(@, proc[p].p, 1, 2), ![p].p = <<0, 0>>]
  /\ UNCHANGED <<sh, left>>

run_right(p) ==
  /\ At(p, "right_end")
  /\ proc' = [RunNext(p, Cmd(p).right) EXCEPT
                ![p].fd = PipeEnd(@, proc[p].p, 0, 1), ![p].p = <<0, 0>>]
  /\ UNCHANGED <<sh, left>>

\* Mutant: the process that made the pipe keeps its ends open.
run_pipe_close_none(p) ==
  /\ At(p, "close") /\ proc' = [Go(p, "wait1") EXCEPT ![p].p = <<0, 0>>]
  /\ UNCHANGED <<sh, left>>

run_pipe_close(p) ==
  /\ At(p, "close")
  /\ proc' = [Go(p, "wait1") EXCEPT ![p].fd = Closed(@, {proc[p].p[1], proc[p].p[2]}),
                                    ![p].p = <<0, 0>>]
  /\ UNCHANGED <<sh, left>>

run_pipe_wait(p) ==
  \/ At(p, "wait1") /\ wait(p, Go(p, "wait2"))
  \/ At(p, "wait2") /\ wait(p, Go(p, "exit"))

run_back(p) ==
  /\ Runs(p, "BACK")
  /\ fork1(p, "exit", "back")
  /\ UNCHANGED <<sh, left>>

run_back_child(p) ==
  At(p, "back") /\ proc' = RunNext(p, Cmd(p).cmd) /\ UNCHANGED <<sh, left>>

\* The program that exec() started ends: a filter when its input does.
program_ends(p) ==
  /\ At(p, "program")
  /\ Cmd(p).argv[1] \in Filters => AtEof(proc[p].fd[0])
  /\ proc' = Go(p, "exit")
  /\ UNCHANGED <<sh, left>>
-----------------------------------------------------------------------------
(* main() of init *)

\* A child of init has exited: the shell, which is started anew, or another.
init_wait ==
  /\ At(INIT, "reap")
  /\ \E q \in Children(INIT) :
       /\ proc[q].state = "zombie"
       /\ proc' = [Go(INIT, IF q = sh THEN "start" ELSE "reap") EXCEPT ![q] = NoProc]
  /\ UNCHANGED <<sh, left>>

init_fork ==
  /\ At(INIT, "start")
  /\ fork1(INIT, "reap", "prompt")
  /\ sh' = IF FreeSlots = {} THEN sh ELSE Min(FreeSlots)
  /\ UNCHANGED left
-----------------------------------------------------------------------------
Step(p) ==
  \/ main_fork(p) \/ main_wait(p) \/ main_parse(p) \/ main_run(p)
  \/ run_exec(p) \/ run_redir(p) \/ run_list(p) \/ run_list_wait(p)
  \/ run_pipe(p) \/ run_pipe_left(p) \/ run_pipe_right(p) \/ run_left(p) \/ run_right(p)
  \/ run_pipe_close(p) \/ run_pipe_wait(p) \/ run_back(p) \/ run_back_child(p)
  \/ program_ends(p) \/ exit(p)

Next ==
  \/ \E p \in Slot \ {INIT} : Step(p) \/ getcmd(p) \/ getcmd_eof(p)
  \/ init_wait \/ init_fork

\* The scheduler runs every process that can go on, and programs end.
Fairness == (\A p \in Slot \ {INIT} : WF_vars(Step(p))) /\ WF_vars(init_wait \/ init_fork)

Spec == Init /\ [][Next]_vars /\ Fairness
-----------------------------------------------------------------------------
\* The command the child of the shell builds with parsecmd() is the one the typed
\* text stands for: "|" binds tighter than "&", and that than ";"; each groups to
\* the right; parentheses and redirections nest as written.  A text that is no
\* command makes the parser panic.
ParsesLine ==
  \A p \in Slot : proc[p].pc = "parsed" =>
    IF proc[p].line.text \in BadTexts THEN ~proc[p].cmd.ok
    ELSE proc[p].cmd = Ok(proc[p].line.cmd, Len(proc[p].line.text) + 1)

\* The programs of a command, each with the kinds of its input and its output.
RECURSIVE Programs(_, _, _)
Programs(c, in, out) ==
  CASE c.type = "EXEC" -> {<<c.argv, in, out>>}
    [] c.type = "REDIR" /\ c.fd = 0 -> Programs(c.cmd, "file", out)
    [] c.type = "REDIR" /\ c.fd = 1 -> Programs(c.cmd, in, "file")
    [] c.type = "PIPE" -> Programs(c.left, in, "w") \cup Programs(c.right, "r", out)
    [] c.type = "LIST" -> Programs(c.left, in, out) \cup Programs(c.right, in, out)
    [] c.type = "BACK" -> Programs(c.cmd, in, out)

\* After all the close(), dup() and open() of runcmd(), exec() finds a program's
\* standard descriptors wired as its place in the command says, and no other open.
Wired ==
  \A p \in Slot : proc[p].state = "live" /\ proc[p].pc = "program" =>
    /\ Unused(proc[p].fd) = Fd \ {0, 1, 2}
    /\ <<Cmd(p).argv, proc[p].fd[0][1], proc[p].fd[1][1]>>
         \in Programs(proc[p].line.cmd, "console", "console")

\* Every command ends if its programs do: no process keeps the write end of a pipe
\* open that a reader waits on, and no wait() is for a process that is not there.
CommandEnds == proc[sh].pc = "wait" ~> proc[sh].pc # "wait" \/ Panicked
=============================================================================
