--------------------------- MODULE MCSynchConsole ---------------------------
(***************************************************************************)
(* SynchConsole with three user threads.  MAX_STRING_SIZE is 3, so a     *)
(* string of two characters fills a kernel buffer and SynchPutString's   *)
(* MAX_STRING_SIZE - 1 limit is reached; the input holds two lines, so   *)
(* readers reach its end.                                                 *)
(***************************************************************************)
EXTENDS SynchConsole, TLC

CONSTANTS w1, w2, r1

MCThreads == {w1, w2, r1}
\* Programs: each thread writes and reads, so writers and readers of
\* characters and of strings meet on both sides.
MCOps == (w1 :> {"putchar", "putstring", "getstring"})
           @@ (w2 :> {"putstring", "putint", "getstring"})
           @@ (r1 :> {"putchar", "getchar", "getint"})
\* A one-digit integer, and a negative one whose "%d" fills a kernel buffer.
MCIntValues == {7, -42}
MCInput == <<"x", "nl", "x">>
\* A line as long as a kernel buffer.
MCLongLine == <<"x", "x", "x", "nl">>
\* A byte 0xFF in the middle of the input.
MCInputFF == <<"x", "ff", "x">>
=============================================================================
