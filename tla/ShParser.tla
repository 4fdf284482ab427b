------------------------------ MODULE ShParser ------------------------------
(***************************************************************************)
(* The parser of user/sh.c.  A text is a sequence of characters; a place   *)
(* in it is the index of the next character, *ps, and the end is one past  *)
(* the last, es.   A parser returns [ok, cmd, i]: a panic() is ok = FALSE, *)
(* and i the place it has come to.                                         *)
(***************************************************************************)
EXTENDS Naturals, Sequences

CONSTANT MAXARGS

ASSUME ShParserAssumption == MAXARGS \in Nat \ {0}

whitespace == {" "}
symbols == {"<", "|", ">", "&", ";", "(", ")"}

execcmd(argv) == [type |-> "EXEC", argv |-> argv]
redircmd(c, file, mode) ==
  [type |-> "REDIR", cmd |-> c, file |-> file, mode |-> mode, fd |-> IF mode = "<" THEN 0 ELSE 1]
pipecmd(l, r) == [type |-> "PIPE", left |-> l, right |-> r]
listcmd(l, r) == [type |-> "LIST", left |-> l, right |-> r]
backcmd(c) == [type |-> "BACK", cmd |-> c]
-----------------------------------------------------------------------------
\* The first place from i on whose character is not in S (the end, if all are).
RECURSIVE Skip(_, _, _)
Skip(s, i, S) == IF i <= Len(s) /\ s[i] \in S THEN Skip(s, i + 1, S) ELSE i

RECURSIVE WordEnd(_, _)
WordEnd(s, i) ==
  IF i <= Len(s) /\ s[i] \notin whitespace \cup symbols THEN WordEnd(s, i + 1) ELSE i

\* Mutant: ">>" is two tokens.
TokenAt_single(s, q) ==
  IF q > Len(s) THEN "" ELSE IF s[q] \in symbols THEN s[q] ELSE "a"

\* The token at q: a symbol, ">>" (as "+"), a word (as "a") or the end (as "").
TokenAt(s, q) ==
  IF q > Len(s) THEN ""
  ELSE IF s[q] = ">" /\ q < Len(s) /\ s[q + 1] = ">" THEN "+"
  ELSE IF s[q] \in symbols THEN s[q] ELSE "a"

TokenEnd(s, q, tok) ==
  CASE tok = "" -> q
    [] tok = "+" -> q + 2
    [] tok = "a" -> WordEnd(s, q)
    [] OTHER -> q + 1

\* The word is the text from q to before eq; the place moves on over whitespace.
Token(s, q, tok, eq) ==
  [tok |-> tok, word |-> SubSeq(s, q, eq - 1), i |-> Skip(s, eq, whitespace)]
TokenFrom(s, q) == Token(s, q, TokenAt(s, q), TokenEnd(s, q, TokenAt(s, q)))
gettoken(s, i) == TokenFrom(s, Skip(s, i, whitespace))

\* Whether the next token starts with one of toks.
peek(s, i, toks) ==
  LET q == Skip(s, i, whitespace) IN q <= Len(s) /\ s[q] \in toks

Fail(i) == [ok |-> FALSE, cmd |-> execcmd(<<>>), i |-> i]
Ok(c, i) == [ok |-> TRUE, cmd |-> c, i |-> i]

\* The redirections that follow, each around what came before: f is the token
\* after the operator.
RECURSIVE parseredirs(_, _, _)
Redirect(c, s, op, f) ==
  IF f.tok # "a" THEN Fail(f.i) ELSE parseredirs(redircmd(c, f.word, op), s, f.i)
RedirectBy(c, s, t) == Redirect(c, s, t.tok, gettoken(s, t.i))
parseredirs(c, s, i) ==
  IF peek(s, i, {"<", ">"}) THEN RedirectBy(c, s, gettoken(s, i)) ELSE Ok(c, i)

\* Give the innermost command its arguments: ret and cmd of parseexec() are the
\* outermost and the innermost node of the same tree.
RECURSIVE WithArgs(_, _)
WithArgs(c, argv) ==
  IF c.type = "EXEC" THEN execcmd(argv) ELSE [c EXCEPT !.cmd = WithArgs(c.cmd, argv)]

\* The arguments from i on; t is the token there, and r what parseredirs() made
\* of the text after an argument.
RECURSIVE ParseArgs(_, _, _, _)
ArgsAfter(argv, s, r) == IF r.ok THEN ParseArgs(r.cmd, argv, s, r.i) ELSE r
ArgOrEnd(c, argv, s, i, t) ==
  IF peek(s, i, {"|", ")", "&", ";"}) \/ t.tok = "" THEN Ok(WithArgs(c, argv), i)
  ELSE IF t.tok # "a" \/ Len(argv) + 1 >= MAXARGS THEN Fail(t.i)
  ELSE ArgsAfter(Append(argv, t.word), s, parseredirs(c, s, t.i))
ParseArgs(c, argv, s, i) == ArgOrEnd(c, argv, s, i, gettoken(s, i))

RECURSIVE parseline(_, _)
RECURSIVE parsepipe(_, _)

BlockEnd(s, body) ==
  IF ~body.ok \/ ~peek(s, body.i, {")"}) THEN Fail(body.i)
  ELSE parseredirs(body.cmd, s, gettoken(s, body.i).i)
parseblock(s, i) == BlockEnd(s, parseline(s, gettoken(s, i).i))

parseexec(s, i) ==
  IF peek(s, i, {"("}) THEN parseblock(s, i)
  ELSE ArgsAfter(<<>>, s, parseredirs(execcmd(<<>>), s, i))

\* What follows the left side l of an operator.
PipeOf(l, r) == IF r.ok THEN Ok(pipecmd(l.cmd, r.cmd), r.i) ELSE r
PipeRest(s, l) ==
  IF ~l.ok \/ ~peek(s, l.i, {"|"}) THEN l
  ELSE PipeOf(l, parsepipe(s, gettoken(s, l.i).i))
parsepipe(s, i) == PipeRest(s, parseexec(s, i))

RECURSIVE Backs(_, _, _)
Backs(c, s, i) ==
  IF peek(s, i, {"&"}) THEN Backs(backcmd(c), s, gettoken(s, i).i) ELSE Ok(c, i)

ListOf(l, r) == IF r.ok THEN Ok(listcmd(l.cmd, r.cmd), r.i) ELSE r
ListRest(s, l) ==
  IF peek(s, l.i, {";"}) THEN ListOf(l, parseline(s, gettoken(s, l.i).i)) ELSE l
LineRest(s, p) == IF p.ok THEN ListRest(s, Backs(p.cmd, s, p.i)) ELSE p
parseline(s, i) == LineRest(s, parsepipe(s, i))

\* The whole text must be used up.
AllOf(s, r, i) == IF ~r.ok \/ i <= Len(s) THEN Fail(i) ELSE Ok(r.cmd, i)
WholeLine(s, r) == AllOf(s, r, Skip(s, r.i, whitespace))
parsecmd(s) == WholeLine(s, parseline(s, 1))
-----------------------------------------------------------------------------
(* The reference: the text of a command, with parentheses where a command    *)
(* binds less tightly than its place asks for.                               *)

RECURSIVE Text(_, _)
RECURSIVE Words(_)
Words(argv) == IF argv = <<>> THEN <<>> ELSE <<" ">> \o Head(argv) \o Words(Tail(argv))

\* How tightly a command binds: 1 list, 2 background, 3 pipe, 4 simple.
Binds(c) == CASE c.type = "LIST" -> 1 [] c.type = "BACK" -> 2 [] c.type = "PIPE" -> 3
              [] OTHER -> 4
Plain(c) ==
  CASE c.type = "EXEC" -> Words(c.argv)
    [] c.type = "REDIR" -> Text(c.cmd, 4) \o (IF c.mode = "+" THEN <<">", ">">> ELSE <<c.mode>>)
                           \o c.file
    [] c.type = "PIPE" -> Text(c.left, 4) \o <<"|">> \o Text(c.right, 3)
    [] c.type = "BACK" -> Text(c.cmd, 2) \o <<"&", " ">>
    [] c.type = "LIST" -> Text(c.left, 2) \o <<" ", ";">> \o Text(c.right, 1)
Text(c, n) == IF Binds(c) < n THEN <<"(">> \o Plain(c) \o <<")">> ELSE Plain(c)

\* Commands up to two operators deep.
A == <<"a">>
Leaves == {execcmd(<<>>), execcmd(<<A>>), execcmd(<<A, <<"b", "b">>>>)}
Wrapped(S) == {redircmd(c, <<"f">>, m) : c \in S, m \in {"<", "+"}} \cup {backcmd(c) : c \in S}
Joined(S, T) == {pipecmd(c, d) : c \in S, d \in T} \cup {listcmd(c, d) : c \in S, d \in T}
Simple == Leaves \cup Wrapped(Leaves) \cup Joined(Leaves, Leaves)
Trees == Simple \cup Wrapped(Simple) \cup Joined(Simple, Simple)
=============================================================================
