--------------------------- MODULE UserSemaphores ---------------------------
(***************************************************************************)
(* The user-level semaphores of userprog/userthread.cc: do_UserSemInit,    *)
(* do_UserSemP and do_UserSemV, called by the threads of one process      *)
(* through SC_SemInit, SC_SemP and SC_SemV (exception.cc).                 *)
(*                                                                         *)
(* A sem_t of the user program is a 2-byte variable at semAddress holding *)
(* 0 (not initialised) or an index of AddrSpace::userSemaphores[].         *)
(* do_UserSemInit reads the variable and, when it is 0, writes             *)
(* userSemCounter to it and creates the Semaphore at that index.  None of *)
(* the three blocks except in Semaphore::P, so each call is one step and  *)
(* a P on a zero count is a guard (Semaphore::P loops while the value is  *)
(* 0).  Each thread runs a fixed program of calls.                         *)
(***************************************************************************)
EXTENDS Integers, Sequences, FiniteSets

CONSTANTS
  Threads,       \* user threads of the process (model values)
  Addrs,         \* addresses of the program's sem_t variables
  InitMem,       \* Addrs -> the 2-byte value there when the program starts
  ArraySize,     \* length of AddrSpace::userSemaphores (100 in addrspace.h)
  Programs,      \* thread -> sequence of [op, a, v]: op in {"init","p","v"}
  Mutexes        \* sem_t variables the programs use as locks (P ... V)

ASSUME InitMem \in [Addrs -> Nat] /\ ArraySize \in Nat \ {0}
ASSUME \A t \in Threads : \A i \in DOMAIN Programs[t] :
         /\ Programs[t][i].op \in {"init", "p", "v"}
         /\ Programs[t][i].a \in Addrs

VARIABLES
  mem,             \* sem_t variable -> its value in user memory
  userSemCounter,  \* AddrSpace::userSemCounter
  sems,            \* index -> value of the Semaphore userSemaphores[index]
  ip,              \* thread -> index of its next call in its program
  wild             \* a call indexed userSemaphores[] outside its created slots

vars == <<mem, userSemCounter, sems, ip, wild>>

\* AddrSpace constructor: userSemCounter = 1, so index 0 means "no semaphore".
Init ==
  /\ mem = InitMem
  /\ userSemCounter = 1
  /\ sems = << >>
  /\ ip = [t \in Threads |-> 1]
  /\ wild = FALSE

Call(t) == Programs[t][ip[t]]

Running(t) == ip[t] <= Len(Programs[t])

Advance(t) == ip' = [ip EXCEPT ![t] = @ + 1]

\* userSemaphores[i] for a read: a slot do_UserSemInit filled.
Created(i) == i \in 1..Len(sems) /\ i < ArraySize

-----------------------------------------------------------------------------
\* Mutation of UserSemInit: the sem_t is initialised whatever it holds.
UserSemInitAlways(t) ==
  LET c == Call(t)
      n == userSemCounter
  IN  /\ Running(t) /\ c.op = "init"
      /\ mem' = [mem EXCEPT ![c.a] = n]
      /\ userSemCounter' = n + 1
      /\ sems' = Append(sems, c.v)
      /\ wild' = (wild \/ n >= ArraySize)
      /\ Advance(t)

(***************************************************************************)
(* do_UserSemInit(semAddress, semCounter): only a variable holding 0 is   *)
(* initialised; userSemaphores[userSemCounter] is written with no check   *)
(* against the length of the array.                                        *)
(***************************************************************************)
UserSemInit(t) ==
  LET c == Call(t)
      n == userSemCounter
  IN  /\ Running(t) /\ c.op = "init"
      /\ IF mem[c.a] = 0
         THEN /\ mem' = [mem EXCEPT ![c.a] = n]
              /\ userSemCounter' = n + 1
              /\ sems' = Append(sems, c.v)
              /\ wild' = (wild \/ n >= ArraySize)
         ELSE UNCHANGED <<mem, userSemCounter, sems, wild>>
      /\ Advance(t)

\* Mutation of UserSemP: the count is decremented without waiting.
UserSemPNoWait(t) ==
  LET c == Call(t)
      i == mem[c.a]
  IN  /\ Running(t) /\ c.op = "p"
      /\ IF i = 0 THEN UNCHANGED <<sems, wild>>
         ELSE IF ~Created(i) THEN wild' = TRUE /\ UNCHANGED sems
         ELSE sems' = [sems EXCEPT ![i] = @ - 1] /\ UNCHANGED wild
      /\ Advance(t)
      /\ UNCHANGED <<mem, userSemCounter>>

(***************************************************************************)
(* do_UserSemP(semAddress): return on 0 ("Uninitialized semaphore"), else *)
(* userSemaphores[value]->P(), which waits while the count is 0.           *)
(***************************************************************************)
UserSemP(t) ==
  LET c == Call(t)
      i == mem[c.a]
  IN  /\ Running(t) /\ c.op = "p"
      /\ IF i = 0 THEN UNCHANGED <<sems, wild>>
         ELSE IF ~Created(i) THEN wild' = TRUE /\ UNCHANGED sems
         ELSE /\ sems[i] > 0
              /\ sems' = [sems EXCEPT ![i] = @ - 1]
              /\ UNCHANGED wild
      /\ Advance(t)
      /\ UNCHANGED <<mem, userSemCounter>>

\* do_UserSemV(semAddress): return on 0, else userSemaphores[value]->V().
UserSemV(t) ==
  LET c == Call(t)
      i == mem[c.a]
  IN  /\ Running(t) /\ c.op = "v"
      /\ IF i = 0 THEN UNCHANGED <<sems, wild>>
         ELSE IF ~Created(i) THEN wild' = TRUE /\ UNCHANGED sems
         ELSE sems' = [sems EXCEPT ![i] = @ + 1] /\ UNCHANGED wild
      /\ Advance(t)
      /\ UNCHANGED <<mem, userSemCounter>>

Step(t) == UserSemInit(t) \/ UserSemP(t) \/ UserSemV(t)

Finished == \A t \in Threads : ~Running(t)

\* A wild index is undefined behaviour: nothing after it is modelled.
Next == \/ ~wild /\ \E t \in Threads : Step(t)
        \/ (Finished \/ wild) /\ UNCHANGED vars

\* The scheduler runs every ready thread; a thread waiting in P is ready
\* once a V raised the count, and programs are finite.
Spec == Init /\ [][Next]_vars /\ \A t \in Threads : WF_vars(Step(t))

-----------------------------------------------------------------------------
TypeOK ==
  /\ mem \in [Addrs -> Nat]
  /\ userSemCounter \in Nat \ {0}
  /\ sems \in Seq(Nat)
  /\ ip \in [Threads -> Nat \ {0}]
  /\ wild \in BOOLEAN

\* Thread t is between a P and the following V on the sem_t a.
Holds(t, a) ==
  \E i \in 1..(ip[t] - 1) :
    /\ Programs[t][i].op = "p" /\ Programs[t][i].a = a
    /\ \A j \in (i + 1)..(ip[t] - 1) :
         ~(Programs[t][j].op = "v" /\ Programs[t][j].a = a)

(***************************************************************************)
(* Every SemP and SemV names a semaphore do_UserSemInit created within    *)
(* userSemaphores[]: an uninitialised sem_t (a local variable, as in      *)
(* test/testsem.c) or the 100th SemInit of a process makes the kernel     *)
(* index the array outside what it filled.                                 *)
(***************************************************************************)
SemaphoreIndexValid == ~wild

(***************************************************************************)
(* A sem_t used as a lock admits one thread at a time, even when several   *)
(* threads call SemInit on it: the value test of do_UserSemInit keeps a   *)
(* second SemInit from replacing the semaphore a holder acquired.         *)
(***************************************************************************)
MutualExclusion ==
  \A a \in Mutexes : \A t1, t2 \in Threads :
    t1 # t2 => ~(Holds(t1, a) /\ Holds(t2, a))

(***************************************************************************)
(* Every program runs to its end: each P is eventually matched by a V of  *)
(* the semaphore its sem_t names, so no thread waits forever.              *)
(***************************************************************************)
Termination == <>Finished
=============================================================================
