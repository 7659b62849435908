--------------------------- MODULE MCConsoleInput ---------------------------
(* Instances of ConsoleInput for TLC. *)
EXTENDS ConsoleInput

\* Proper and improper lines for every branch: with and without -d, query,
\* deadline and keyword, with further words, blanks and bare commands.
AllLines ==
  { <<"/search", " ", "x", " ", "-d", " ", "5", "\n">>,
    <<"/search", " ", "x", " ", "y", " ", "-d", " ", "5", "\n">>,
    <<"/search", " ", "x", " ", "-d", " ", "y", "\n">>,
    <<"/search", " ", "-d", " ", "5", "\n">>,
    <<"/search", " ", "x", " ", "-d", "\n">>,
    <<"/search", " ", "x", " ", "-d", " ", "\n">>,
    <<"/search", " ", "x", " ", " ", "-d", " ", "5", "\n">>,
    <<"/search", " ", "x", "\n">>,
    <<"/search", "\n">>,
    <<"/count", " ", "x", "\n">>,
    <<"/count", " ", "x", " ", "y", "\n">>,
    <<"/count", " ", "\n">>,
    <<"/count", "\n">>,
    <<"/wc", "\n">>,
    <<"/wc", " ", "x", "\n">>,
    <<"x", "\n">>,
    <<"-d", " ", "5", "\n">>,
    <<"x", " ", "y", "\n">>,
    <<" ", "/wc", "\n">>,
    <<"\n">>,
    <<"/exit", "\n">> }

=============================================================================
