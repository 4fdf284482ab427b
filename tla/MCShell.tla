------------------------------ MODULE MCShell -------------------------------
(* Model checking of Shell: "s" is a source, "f" a filter. *)
EXTENDS Shell

S == execcmd(<<<<"s">>>>)
F == execcmd(<<<<"f">>>>)
X == <<"x">>

MCLines == {
  pipecmd(S, pipecmd(F, F)),                                       \* s|f|f
  listcmd(redircmd(pipecmd(S, redircmd(F, X, ">")), X, "<"), execcmd(<<>>)),
                                                                   \* (s|f>x)<x;
  backcmd(redircmd(redircmd(F, X, "+"), X, "<"))}                  \* f>>x<x&

MCParsedOnly == Trees

\* s) , (s , s> , and too many arguments
MCBadTexts == {<<"s", ")">>, <<"(", "s">>, <<"s", ">">>, <<"a", " ", "b", " ", "c">>}

MCFilters == {<<"f">>}
=============================================================================
