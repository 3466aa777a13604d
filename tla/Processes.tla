----------------------------- MODULE Processes ------------------------------
(***************************************************************************)
(* User threads and processes of userprog/: do_UserThreadCreate,           *)
(* do_UserThreadExit, do_UserThreadJoin and do_Exit (userthread.cc),      *)
(* do_ForkExec, StartForkedProcess and do_UserWaitPid (forkexec.cc), the   *)
(* frames an AddrSpace takes and gives back (addrspace.cc) and             *)
(* FrameProvider with the AS_ORDERED strategy (FrameProvider.tla).         *)
(*                                                                         *)
(* A kernel thread runs until it blocks or re-enables interrupts, which    *)
(* happens in Semaphore::P/V and in disk I/O.  Every critical section     *)
(* (procounter, livepro, tidcounter, livethreads) holds no such point      *)
(* between its P and V, so it is one step; code between two sections is   *)
(* split where the code has a blocking point.  Thread objects and address  *)
(* spaces are drawn from the finite sets Threads and SpaceIds.             *)
(***************************************************************************)
EXTENDS Integers, Sequences, FiniteSets, FiniteSetsExt, Functions, AddrSpaceLoad

CONSTANTS
  Threads,          \* kernel Thread objects (model values)
  MainThread,       \* the thread StartProcess runs the first program in
  SpaceIds,         \* AddrSpace objects (model values)
  FirstSpace,       \* the AddrSpace of the first program
  InitPages,        \* numPages of the first program
  ExecPages,        \* numPages of the executables ForkExec names
  NoExec,           \* a name fileSystem->Open does not find
  ThreadStackSize,  \* addrspace.h
  InitProCounter, InitLivePro,      \* procounter, livepro at boot (system.cc)
  FirstOps,         \* system calls of the first program's main thread
  OtherOps,         \* system calls of every other thread
  MaxCalls          \* bound on the calls one thread makes

ASSUME MainThread \in Threads /\ FirstSpace \in SpaceIds
ASSUME NoExec \notin ExecPages /\ InitPages \in Nat \ {0}
ASSUME FirstOps \cup OtherOps \subseteq {"create", "join", "fork", "waitpid"}

\* Largest tid a process can reach when every thread races the check.
TidBound == UserStackSize \div ThreadStackSize + Cardinality(Threads)
Tids     == 1..TidBound
PidBound == InitProCounter + Cardinality(Threads) * MaxCalls
Pids     == 0..PidBound

VARIABLES
  procounter,   \* last pid handed out (system.h)
  livepro,      \* processes that have not exited (system.h)
  allocated,    \* FrameProvider::allocatedFrames
  createdPro,   \* pid -> value of the semaphore createdPro[pid]
  space,        \* AddrSpace object -> its fields
  pc,           \* thread -> step it is at ("unused" before Fork)
  owner,        \* thread -> its AddrSpace
  tid,          \* thread -> Thread::tid (0 for a process's main thread)
  calls,        \* thread -> system calls it has started
  loc,          \* thread -> locals of the call in progress
  made,         \* thread -> tids of the threads it created
  kids,         \* thread -> pids ForkExec returned to it
  halted,       \* Interrupt::Halt was called
  aborted       \* an ASSERT fired: the kernel stopped

vars == <<procounter, livepro, allocated, createdPro, space, pc, owner, tid,
          calls, loc, made, kids, halted, aborted>>

NoLocals == [pid |-> 0, exec |-> NoExec, child |-> FirstSpace, arg |-> 0,
             thread |-> MainThread]

\* main is the thread that runs the program's main function and ends it
\* with Exit; the others end with UserThreadExit (a fact of the program,
\* not a field of AddrSpace).  ForkThread sets it.
NewSpace(pages) ==
  [state |-> "live", pro |-> 0, tidcounter |-> 0, livethreads |-> 0,
   pages |-> pages, ct |-> [i \in 0..TidBound |-> 0], main |-> MainThread]

\* FrameProvider::NumAvailFrame.
NumAvailFrame == Cardinality(Frames \ allocated)

\* CheckPhysicalSpace (forkexec.cc): enough free frames for e pages.
CheckPhysicalSpace(e) == NumAvailFrame >= e

Init ==
  /\ procounter = InitProCounter
  /\ livepro = InitLivePro
  /\ allocated = Range(OrderedFrames({}, InitPages))
  /\ createdPro = [p \in Pids |-> 0]
  /\ space = [s \in SpaceIds |->
                IF s = FirstSpace
                THEN [NewSpace(OrderedFrames({}, InitPages)) EXCEPT !.pro = InitProCounter]
                ELSE [NewSpace(<< >>) EXCEPT !.state = "unused"]]
  /\ pc = [t \in Threads |-> IF t = MainThread THEN "user" ELSE "unused"]
  /\ owner = [t \in Threads |-> FirstSpace]
  /\ tid = [t \in Threads |-> 0]
  /\ calls = [t \in Threads |-> 0]
  /\ loc = [t \in Threads |-> NoLocals]
  /\ made = [t \in Threads |-> {}]
  /\ kids = [t \in Threads |-> {}]
  /\ halted = FALSE
  /\ aborted = FALSE

Up == ~halted /\ ~aborted

Ops(t) == IF t = MainThread THEN FirstOps ELSE OtherOps

\* Steps between the start of a call that forks a thread and the Fork.
Forking == {"utc_count", "utc_tid", "fe_check", "fe_count", "fe_space", "fe_fork"}

\* The Thread and AddrSpace objects the calls in progress may still take
\* are free (the bound of the model on Threads and SpaceIds).
RoomFor(t) ==
  /\ Cardinality({u \in Threads : pc[u] = "unused"}) >
       Cardinality({u \in Threads : pc[u] \in Forking})
  /\ Cardinality({s \in SpaceIds : space[s].state = "unused"}) >
       Cardinality({u \in Threads : pc[u] \in Forking \ {"utc_count", "utc_tid"}})

\* Thread t starts a system call op of its program.
Start(t, op) ==
  /\ Up /\ pc[t] = "user"
  /\ op \in Ops(t) /\ calls[t] < MaxCalls
  /\ calls' = [calls EXCEPT ![t] = @ + 1]

At(t, step) == Up /\ pc[t] = step

Goto(t, step) == pc' = [pc EXCEPT ![t] = step]

FreeThread == CHOOSE u \in Threads : pc[u] = "unused"
FreeSpace  == CHOOSE s \in SpaceIds : space[s].state = "unused"

(***************************************************************************)
(* do_UserThreadCreate: the stack check reads tidcounter outside           *)
(* lock_tidcounter; livethreads++ and tidcounter++ are two critical        *)
(* sections; the new thread is forked with the tid of the second.          *)
(***************************************************************************)
UserThreadCreate(t) ==
  /\ Start(t, "create")
  /\ RoomFor(t)
  /\ IF (space[owner[t]].tidcounter + 1) * ThreadStackSize >= UserStackSize
     THEN UNCHANGED pc
     ELSE Goto(t, "utc_count")
  /\ UNCHANGED <<procounter, livepro, allocated, createdPro, space, owner, tid,
                 loc, made, kids, halted, aborted>>

\* Mutation of UserThreadCount: livethreads++ left out.
UserThreadCountSkipped(t) ==
  /\ At(t, "utc_count")
  /\ Goto(t, "utc_tid")
  /\ UNCHANGED <<procounter, livepro, allocated, createdPro, space, owner, tid,
                 calls, loc, made, kids, halted, aborted>>

UserThreadCount(t) ==
  /\ At(t, "utc_count")
  /\ space' = [space EXCEPT ![owner[t]].livethreads = @ + 1]
  /\ Goto(t, "utc_tid")
  /\ UNCHANGED <<procounter, livepro, allocated, createdPro, owner, tid, calls,
                 loc, made, kids, halted, aborted>>

(***************************************************************************)
(* The tidcounter section, then new Thread and t->Fork: the thread is     *)
(* ready to run, and Fork's SetLevel(oldLevel) is a switch point, before *)
(* t->tid = this_tid.  Until then the new thread has the tid of           *)
(* Thread::Thread (threads/thread.cc, not in this repository), taken as   *)
(* 0, the tid every main thread keeps.                                     *)
(***************************************************************************)
UserThreadFork(t) ==
  LET s == owner[t]
      n == space[s].tidcounter + 1
      u == FreeThread
  IN  /\ At(t, "utc_tid")
      /\ space' = [space EXCEPT ![s].tidcounter = n]
      /\ pc' = [pc EXCEPT ![t] = "utc_settid", ![u] = "user"]
      /\ owner' = [owner EXCEPT ![u] = s]
      /\ tid' = [tid EXCEPT ![u] = 0]
      /\ loc' = [loc EXCEPT ![t].arg = n, ![t].thread = u]
      /\ UNCHANGED <<procounter, livepro, allocated, createdPro, calls, made, kids,
                     halted, aborted>>

\* t->tid = this_tid; return this_tid.
UserThreadSetTid(t) ==
  /\ At(t, "utc_settid")
  /\ tid' = [tid EXCEPT ![loc[t].thread] = loc[t].arg]
  /\ made' = [made EXCEPT ![t] = @ \cup {loc[t].arg}]
  /\ Goto(t, "user")
  /\ loc' = [loc EXCEPT ![t] = NoLocals]
  /\ UNCHANGED <<procounter, livepro, allocated, createdPro, space, owner, calls,
                 kids, halted, aborted>>

\* do_UserThreadExit: livethreads-- in its critical section, then
\* V(createdThreads[tid]) and Finish.
UserThreadExit(t) ==
  /\ Up /\ pc[t] = "user" /\ space[owner[t]].main # t
  /\ space' = [space EXCEPT ![owner[t]].livethreads = @ - 1]
  /\ Goto(t, "ute_signal")
  /\ UNCHANGED <<procounter, livepro, allocated, createdPro, owner, tid, calls,
                 loc, made, kids, halted, aborted>>

UserThreadSignal(t) ==
  /\ At(t, "ute_signal")
  /\ space' = [space EXCEPT ![owner[t]].ct[tid[t]] = @ + 1]
  /\ Goto(t, "done")
  /\ UNCHANGED <<procounter, livepro, allocated, createdPro, owner, tid, calls,
                 loc, made, kids, halted, aborted>>

(***************************************************************************)
(* do_UserThreadJoin(k): P then V on createdThreads[k], so it waits until  *)
(* thread k has signalled and leaves the count as it was.  A program      *)
(* joins the threads it created.                                           *)
(***************************************************************************)
UserThreadJoin(t, k) ==
  /\ Start(t, "join")
  /\ k \in made[t]
  /\ Goto(t, "join")
  /\ loc' = [loc EXCEPT ![t].arg = k]
  /\ UNCHANGED <<procounter, livepro, allocated, createdPro, space, owner, tid,
                 made, kids, halted, aborted>>

UserThreadJoinReturn(t) ==
  /\ At(t, "join")
  /\ space[owner[t]].ct[loc[t].arg] > 0
  /\ Goto(t, "user")
  /\ loc' = [loc EXCEPT ![t] = NoLocals]
  /\ UNCHANGED <<procounter, livepro, allocated, createdPro, space, owner, tid,
                 calls, made, kids, halted, aborted>>

(***************************************************************************)
(* do_Exit, called by the main thread of a process: yield while           *)
(* livethreads > 0; V(createdPro[pro]); livepro--; if other processes     *)
(* remain, DeleteEntriesOfProcess (modelled in FileSys), FreeFrames and   *)
(* Finish, else return to ExceptionHandler, which calls Halt.             *)
(***************************************************************************)
Exit(t) ==
  /\ Up /\ pc[t] = "user" /\ space[owner[t]].main = t
  /\ Goto(t, "ex_wait")
  /\ UNCHANGED <<procounter, livepro, allocated, createdPro, space, owner, tid,
                 calls, loc, made, kids, halted, aborted>>

\* One turn of the busy-wait loop: Yield changes nothing.
ExitYield(t) ==
  /\ At(t, "ex_wait")
  /\ space[owner[t]].livethreads > 0
  /\ UNCHANGED vars


ExitSignal(t) ==
  /\ At(t, "ex_wait")
  /\ space[owner[t]].livethreads <= 0
  /\ createdPro' = [createdPro EXCEPT ![space[owner[t]].pro] = @ + 1]
  /\ Goto(t, "ex_count")
  /\ UNCHANGED <<procounter, livepro, allocated, space, owner, tid, calls, loc,
                 made, kids, halted, aborted>>

ExitCount(t) ==
  /\ At(t, "ex_count")
  /\ livepro' = livepro - 1
  /\ IF livepro - 1 > 0
     THEN Goto(t, "ex_free") /\ UNCHANGED halted
     ELSE halted' = TRUE /\ UNCHANGED pc
  /\ UNCHANGED <<procounter, allocated, createdPro, space, owner, tid, calls,
                 loc, made, kids, aborted>>


\* Mutation of FreeFrames: the loop stops one page early.
FreeFramesSkipLast(pages) ==
  LET kept == SubSeq(pages, 1, Len(pages) - 1)
  IN  IF NoFrame \in Range(kept)
      THEN [ok |-> FALSE, map |-> allocated]
      ELSE [ok |-> TRUE, map |-> allocated \ Range(kept)]

\* AddrSpace::FreeFrames: ReleaseFrame of every page; BitMap::Clear's
\* ASSERT stops the kernel on a -1 page.
FreeFrames(pages) ==
  IF NoFrame \in Range(pages)
  THEN [ok |-> FALSE, map |-> allocated]
  ELSE [ok |-> TRUE, map |-> allocated \ Range(pages)]

ExitFree(t) ==
  LET f == FreeFrames(space[owner[t]].pages)
  IN  /\ At(t, "ex_free")
      /\ IF f.ok
         THEN /\ allocated' = f.map
              /\ space' = [space EXCEPT ![owner[t]].state = "freed"]
              /\ Goto(t, "done")
              /\ UNCHANGED aborted
         ELSE aborted' = TRUE /\ UNCHANGED <<allocated, space, pc>>
      /\ UNCHANGED <<procounter, livepro, createdPro, owner, tid, calls, loc,
                     made, kids, halted>>


\* Mutation of ForkExec: this_pro read before procounter++.
ForkExecStalePid(t) ==
  /\ Start(t, "fork")
  /\ RoomFor(t)
  /\ procounter' = procounter + 1
  /\ loc' = [loc EXCEPT ![t].pid = procounter]
  /\ Goto(t, "fe_check")
  /\ UNCHANGED <<livepro, allocated, createdPro, space, owner, tid, made, kids,
                 halted, aborted>>

(***************************************************************************)
(* do_ForkExec: procounter++ (the new pid); Open the executable and       *)
(* CheckPhysicalSpace, undoing procounter++ on failure; livepro++; the    *)
(* AddrSpace constructor takes the frames and sets pro = procounter; the  *)
(* new thread is forked and the pid returned.  StartForkedProcess sets    *)
(* pro to the pid when the new thread first runs.                          *)
(***************************************************************************)
ForkExec(t) ==
  /\ Start(t, "fork")
  /\ RoomFor(t)
  /\ procounter' = procounter + 1
  /\ loc' = [loc EXCEPT ![t].pid = procounter + 1]
  /\ Goto(t, "fe_check")
  /\ UNCHANGED <<livepro, allocated, createdPro, space, owner, tid, made, kids,
                 halted, aborted>>

ForkCheck(t, e) ==
  /\ At(t, "fe_check")
  /\ IF e = NoExec \/ ~CheckPhysicalSpace(e)
     THEN /\ procounter' = procounter - 1
          /\ Goto(t, "user")
          /\ loc' = [loc EXCEPT ![t] = NoLocals]
     ELSE /\ Goto(t, "fe_count")
          /\ loc' = [loc EXCEPT ![t].exec = e]
          /\ UNCHANGED procounter
  /\ UNCHANGED <<livepro, allocated, createdPro, space, owner, tid, calls, made,
                 kids, halted, aborted>>


\* Mutation of ForkCount: livepro++ left out.
ForkCountUncounted(t) ==
  /\ At(t, "fe_count")
  /\ Goto(t, "fe_space")
  /\ UNCHANGED <<procounter, livepro, allocated, createdPro, space, owner, tid,
                 calls, loc, made, kids, halted, aborted>>

ForkCount(t) ==
  /\ At(t, "fe_count")
  /\ livepro' = livepro + 1
  /\ Goto(t, "fe_space")
  /\ UNCHANGED <<procounter, allocated, createdPro, space, owner, tid, calls, loc,
                 made, kids, halted, aborted>>

ForkSpace(t) ==
  LET ns    == FreeSpace
      pages == OrderedFrames(allocated, loc[t].exec)
  IN  /\ At(t, "fe_space")
      /\ space' = [space EXCEPT ![ns] = NewSpace(pages)]
      /\ allocated' = allocated \cup (Range(pages) \cap Frames)
      /\ Goto(t, "fe_fork")
      /\ loc' = [loc EXCEPT ![t].child = ns]
      /\ UNCHANGED <<procounter, livepro, createdPro, owner, tid, calls, made,
                     kids, halted, aborted>>

ForkThread(t) ==
  LET u == FreeThread
  IN  /\ At(t, "fe_fork")
      /\ space' = [space EXCEPT ![loc[t].child].pro = procounter,
                                 ![loc[t].child].main = u]
      /\ pc' = [pc EXCEPT ![t] = "user", ![u] = "fp_start"]
      /\ owner' = [owner EXCEPT ![u] = loc[t].child]
      /\ loc' = [loc EXCEPT ![t] = NoLocals, ![u] = [NoLocals EXCEPT !.pid = loc[t].pid]]
      /\ kids' = [kids EXCEPT ![t] = @ \cup {loc[t].pid}]
      /\ UNCHANGED <<procounter, livepro, allocated, createdPro, tid, calls, made,
                     halted, aborted>>

StartForkedProcess(t) ==
  /\ At(t, "fp_start")
  /\ space' = [space EXCEPT ![owner[t]].pro = loc[t].pid]
  /\ Goto(t, "user")
  /\ loc' = [loc EXCEPT ![t] = NoLocals]
  /\ UNCHANGED <<procounter, livepro, allocated, createdPro, owner, tid, calls,
                 made, kids, halted, aborted>>

\* do_UserWaitPid(pid): P then V on createdPro[pid], for a pid ForkExec
\* returned to the caller.
UserWaitPid(t, p) ==
  /\ Start(t, "waitpid")
  /\ p \in kids[t]
  /\ Goto(t, "waitpid")
  /\ loc' = [loc EXCEPT ![t].arg = p]
  /\ UNCHANGED <<procounter, livepro, allocated, createdPro, space, owner, tid,
                 made, kids, halted, aborted>>

UserWaitPidReturn(t) ==
  /\ At(t, "waitpid")
  /\ createdPro[loc[t].arg] > 0
  /\ Goto(t, "user")
  /\ loc' = [loc EXCEPT ![t] = NoLocals]
  /\ UNCHANGED <<procounter, livepro, allocated, createdPro, space, owner, tid,
                 calls, made, kids, halted, aborted>>

\* Every step thread t can take.
Step(t) ==
  \/ UserThreadCreate(t) \/ UserThreadCount(t) \/ UserThreadFork(t)
  \/ UserThreadSetTid(t)
  \/ UserThreadExit(t) \/ UserThreadSignal(t)
  \/ \E k \in Tids : UserThreadJoin(t, k)
  \/ UserThreadJoinReturn(t)
  \/ Exit(t) \/ ExitYield(t) \/ ExitSignal(t) \/ ExitCount(t) \/ ExitFree(t)
  \/ ForkExec(t) \/ \E e \in ExecPages \cup {NoExec} : ForkCheck(t, e)
  \/ ForkCount(t) \/ ForkSpace(t) \/ ForkThread(t) \/ StartForkedProcess(t)
  \/ \E p \in Pids : UserWaitPid(t, p)
  \/ UserWaitPidReturn(t)

\* The machine has stopped: Halt, or an ASSERT.
Stopped == (halted \/ aborted) /\ UNCHANGED vars

Next == (\E t \in Threads : Step(t)) \/ Stopped

\* The scheduler runs every ready thread in turn, and a program makes its
\* next call or exits: each thread that can take a step eventually does.
Spec == Init /\ [][Next]_vars /\ \A t \in Threads : WF_vars(Step(t))
-----------------------------------------------------------------------------
Steps == {"unused", "user", "utc_count", "utc_tid", "utc_settid", "ute_signal", "join",
          "ex_wait", "ex_count", "ex_free", "fe_check", "fe_count", "fe_space",
          "fe_fork", "fp_start", "waitpid", "done"}

LiveSpaces == {s \in SpaceIds : space[s].state = "live"}

\* A process has started once StartForkedProcess gave it its pid.
Started(s) ==
  /\ s \in LiveSpaces
  /\ ~\E t \in Threads : \/ pc[t] = "fe_fork" /\ loc[t].child = s
                         \/ pc[t] = "fp_start" /\ owner[t] = s

TypeOK ==
  /\ pc \in [Threads -> Steps]
  /\ owner \in [Threads -> SpaceIds]
  /\ allocated \subseteq Frames
  /\ procounter \in Int /\ livepro \in Int
  /\ \A s \in SpaceIds : /\ space[s].state \in {"unused", "live", "freed"}
                        /\ space[s].livethreads \in Nat
  /\ \A t \in Threads :
       pc[t] \notin {"unused", "done", "ute_signal"} => space[owner[t]].state = "live"

(***************************************************************************)
(* Frame ownership: every page of a live address space has a real frame   *)
(* (GetEmptyFrame never ran out under CheckPhysicalSpace's check), no two *)
(* live address spaces share a frame, and FrameProvider's map marks       *)
(* exactly their frames (FreeFrames gives back all of an exiting one's).  *)
(***************************************************************************)
FrameOwnership ==
  /\ allocated = UNION {Range(space[s].pages) : s \in LiveSpaces}
  /\ \A s1, s2 \in LiveSpaces :
       s1 # s2 => Range(space[s1].pages) \cap Range(space[s2].pages) = {}

\* Main memory when an AddrSpace is built on the map alloc: a frame in use
\* holds its program's bytes (100), a free one what the program that had
\* it last left there (99); ReleaseFrame only clears the bit.
MemoryAt(alloc) ==
  [a \in Addrs |-> IF a \div PageSize \in alloc THEN 100 ELSE 99]

(***************************************************************************)
(* Loading keeps every image: when do_ForkExec builds the AddrSpace of an  *)
(* executable that passed CheckPhysicalSpace, on the map as it is then,    *)
(* the new program finds its code, its data and zeros (uninitialised data *)
(* and stack) in every one of its pages, and no other program's frame is  *)
(* written.  Nothing reports a byte the loader fails to store.             *)
(***************************************************************************)
LoadKept ==
  \A t \in Threads : At(t, "fe_space") =>
    \A h \in Headers : NumPages(h) = loc[t].exec =>
      ImageLoaded(h, allocated, MemoryAt(allocated))

(***************************************************************************)
(* Process ids are unique: two started processes never share a pid, so     *)
(* WaitPid, createdPro[] and the open-file tables keyed by pro tell them  *)
(* apart.  procounter-- on a failed ForkExec can hand a pid out twice.     *)
(***************************************************************************)
UniquePids ==
  \A s1, s2 \in SpaceIds :
    s1 # s2 /\ Started(s1) /\ Started(s2) => space[s1].pro # space[s2].pro

(***************************************************************************)
(* Stack slots: every user thread's tid satisfies the check of             *)
(* do_UserThreadCreate, tid * ThreadStackSize < UserStackSize, so its     *)
(* stack lies in the stack area of the address space.                     *)
(***************************************************************************)
StackInBounds ==
  \A t \in Threads : pc[t] \notin {"unused", "done"} =>
    tid[t] * ThreadStackSize < UserStackSize

(***************************************************************************)
(* The machine halts only at the exit of the last process: when Halt is   *)
(* called no other program is still running or being loaded (a process   *)
(* past livepro-- has exited).  livepro must count every process,         *)
(* including one between CheckPhysicalSpace and its first instruction.    *)
(***************************************************************************)
HaltOnlyWhenLast ==
  halted => \A t \in Threads :
              pc[t] \in {"unused", "done", "ute_signal", "ex_count", "ex_free"}

(***************************************************************************)
(* Termination: the kernel eventually halts, when every program's threads *)
(* exit and every join and wait returns; do_Exit's busy-wait ends once    *)
(* the other threads of its process have called UserThreadExit.           *)
(***************************************************************************)
Termination == <>(halted \/ aborted)
=============================================================================
