--------------------------------- MODULE MCStartup ---------------------------------
(***************************************************************************)
(* Command lines and listings for the startup: every short command line    *)
(* with one small program, and one command line with every short text,     *)
(* with lines around the size of the buffer, and with programs that end    *)
(* around the end of the RAM and behind it.                                *)
(***************************************************************************)
EXTENDS Startup

Words == {"--ui", "--program", "p", "--delay", "100"}
MCPath == "p"
MCMillis == [w \in {"100"} |-> 100]

Strings(n, S) == UNION {[1..k -> S] : k \in 0..n}

Commands ==
  {<<"c">> \o s : s \in Strings(4, Words)}
  \cup {<<"c", "--program", "p", "--ui">> \o s : s \in [1..2 -> Words]}
  \cup {<<"c", "--ui", "--help">>, <<"c", "--ui", "--program", "p", "--ui", "--delay", "100">>,
        <<"c", "--program", "p", "--program", "p", "--ui", "--delay", "100">>}

Texts == Strings(4, {1, 10, Blank, Newline, Other})

(* Lines of one byte; a comment longer than the buffer; a number cut by    *)
(* it; a line of exactly the buffer's length.                              *)
Program(n) == [k \in 1..3*n |-> IF k % 3 = 0 THEN Newline ELSE ((k * 7) + (k \div 5)) % 16]

Longer ==
  {Program(n) : n \in {4, 5, 8, 9, 12, 13, 17, 21, 22, 29, 33}}
  \cup {<<1, 2, Blank, 3, 4, Blank, 5, 6>>, <<7, Newline, Other, 10, 11, 12, Newline, 8>>,
        <<1, 2, Newline, 3, 4, Newline, Other, 5, Newline, 6, 7>>,
        <<1, 2, 3, Newline, 4>>, <<1, 2, 3, 4, Newline, 5, 6>>}

MCInputs ==
  [command : Commands, text : {Program(2)}]
  \cup [command : {<<"c", "--program", "p">>}, text : Texts \cup Longer]

===============================================================================
