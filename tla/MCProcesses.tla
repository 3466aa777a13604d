---------------------------- MODULE MCProcesses -----------------------------
(***************************************************************************)
(* Processes with four Thread objects and three address spaces.  Three    *)
(* frames: the first program takes one, a forked program one or two, so  *)
(* a second ForkExec can find memory short.  UserStackSize is three       *)
(* thread stacks, so the check of do_UserThreadCreate admits tids 1 and 2 *)
(* and refuses a third creation (512 and 64 of addrspace.h scaled to 3    *)
(* and 1).  Pages of four bytes; the executables are one page (a byte of  *)
(* code) or two (code and data that crosses the page boundary, or code    *)
(* and uninitialised data).                                                *)
(***************************************************************************)
EXTENDS Processes

CONSTANTS m, u1, u2, u3, s1, s2, s3

MCThreads == {m, u1, u2, u3}
MCSpaces  == {s1, s2, s3}
\* Programs: the first program forks, waits and creates; the others create.
FirstProgram == {"create", "join", "fork", "waitpid"}
OtherProgram == {"create", "join"}
\* Programs: every thread may fork.
AnyProgram   == {"create", "fork"}
Seg(va, n, pos) == [virtualAddr |-> va, size |-> n, inFileAddr |-> pos]
MCHeaders ==
  {[code |-> Seg(0, 1, 40), initData |-> Seg(0, 0, 0), uninitData |-> Seg(0, 0, 0)],
   [code |-> Seg(0, 3, 40), initData |-> Seg(3, 2, 43), uninitData |-> Seg(0, 0, 0)],
   [code |-> Seg(0, 2, 40), initData |-> Seg(0, 0, 0), uninitData |-> Seg(2, 2, 0)]}
=============================================================================
