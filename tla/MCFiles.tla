------------------------------ MODULE MCFiles -------------------------------
(* Files with two processes, four inodes and a nearly full disk. *)
EXTENDS Files, TLC

Open(pa, cr, w, trunc) ==
  [op |-> "open", abs |-> TRUE, path |-> pa, create |-> cr, r |-> TRUE, w |-> w, trunc |-> trunc]
Path(op, pa) == [op |-> op, abs |-> TRUE, path |-> pa]
Link(old, new) == [op |-> "link", abs |-> TRUE, path |-> old, new |-> new]
OnFd(op, fd, n) == [op |-> op, fd |-> fd, n |-> n]

\* A directory and what is in it made, removed, entered and left by two
\* processes; a file written past its direct block, removed while open, linked,
\* truncated.
Calls ==
  { Open(<<"d", "x">>, TRUE, TRUE, FALSE), Open(<<"f">>, FALSE, TRUE, TRUE),
    [Open(<<"x">>, TRUE, FALSE, FALSE) EXCEPT !.abs = FALSE],
    Path("mkdir", <<"d">>), Path("unlink", <<"d">>), Path("unlink", <<"f">>),
    Path("unlink", <<"d", ".">>), Path("chdir", <<"d">>), Path("mknod", <<"c">>),
    Link(<<"f">>, <<"d", "x">>),
    OnFd("close", 0, 0), OnFd("dup", 0, 0), OnFd("write", 0, 5), OnFd("read", 0, 1),
    OnFd("fstat", 0, 0) }

Symmetry == Permutations(Proc)
=============================================================================
