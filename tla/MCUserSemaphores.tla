-------------------------- MODULE MCUserSemaphores --------------------------
(***************************************************************************)
(* UserSemaphores with three threads of one process.  The sem_t a is a    *)
(* lock that every thread initialises and takes twice; b is a signal one *)
(* thread waits on and another gives, each initialising it first.  The    *)
(* array has its size of addrspace.h.                                      *)
(***************************************************************************)
EXTENDS UserSemaphores, TLC

CONSTANTS t1, t2, t3, a, b

MCThreads == {t1, t2, t3}
MCAddrs   == {a, b}
Zeroed    == [x \in MCAddrs |-> 0]

I(x, n) == [op |-> "init", a |-> x, v |-> n]
P(x)    == [op |-> "p", a |-> x, v |-> 0]
V(x)    == [op |-> "v", a |-> x, v |-> 0]

MCPrograms ==
  (t1 :> <<I(a, 1), P(a), V(a), P(a), V(a)>>)
  @@ (t2 :> <<I(a, 1), P(a), V(a), I(b, 0), V(b)>>)
  @@ (t3 :> <<I(b, 0), P(b), I(a, 1), P(a), V(a)>>)

\* test/testsem.c: main's local sem_t firstSem is not initialised before
\* SemInit(&firstSem, 0); the stack holds whatever was there (here 7).
Garbage     == (a :> 7) @@ (b :> 0)
TestSem     == (t1 :> <<I(a, 0), V(a), P(a)>>) @@ (t2 :> << >>) @@ (t3 :> << >>)

\* A program initialising one sem_t more than userSemaphores[] has slots.
ManyAddrs   == 1..100
ManyZeroed  == [x \in ManyAddrs |-> 0]
ManyInits   == (t1 :> [i \in 1..100 |-> I(i, 0)]) @@ (t2 :> << >>) @@ (t3 :> << >>)
=============================================================================
