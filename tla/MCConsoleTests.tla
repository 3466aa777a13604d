--------------------------- MODULE MCConsoleTests ---------------------------
(***************************************************************************)
(* The console tests on short inputs.  The passing input starts with an   *)
(* empty line, then a character, the byte 0xFF and a 'q': ConsoleTest     *)
(* returns at the 0xFF, which it reads as EOF, and SynchConsoleTest skips *)
(* the 0xFF and returns at the 'q', so both of their return paths run.    *)
(***************************************************************************)
EXTENDS ConsoleTests, TLC

CONSTANT main

MCThreads == {main}
MCOps == main :> {}
MCInput == <<"nl", "x", "ff", "q">>
\* Two lines and no 'q': the input ends first.
MCInputNoQuit == <<"x", "nl", "x">>
MCIntValues == {7}
=============================================================================
