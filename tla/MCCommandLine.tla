--------------------------- MODULE MCCommandLine ----------------------------
(***************************************************************************)
(* A screen of three lines of two cells, and lines of up to three          *)
(* characters: longer than a line of the screen, as 127 is than 80.        *)
(***************************************************************************)
EXTENDS CommandLine

\* A command that prints a line, and echo without arguments.
TwoOutputs == {<<"a", NL>>, <<BS, NL>>}
OneLine == <<NL>>
\* The column of a prompt: the second of two, or the first.
TwoPrompts == {<<"a">>, <<"a", "a">>}
=============================================================================
