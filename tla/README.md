# TLA+ models of the NachOS kernel extensions

This directory holds TLA+ models of the kernel code under `src/NachOS/code`.
That code is the file system of `filesys/` and the user-program support of
`userprog/`. The TLC configurations that check the models are here too. Every
definition is translated from the C++ source. `PROJECT.json` maps each
definition to the lines it models.

## The system

| Part | Source | What it does |
|---|---|---|
| File header | `filesys/filehdr.cc` | Maps a file's sectors in three tiers: direct, single indirect (one index block) and double indirect (index of index blocks). Covers `Allocate`, `Deallocate`, `ByteToSector` and `FetchFrom`/`WriteBack`. |
| Directory | `directory.cc` (not in the repository) | A fixed table of entries `(name, sector, isDir)` holding "." and "..". |
| Naming layer | `filesys/filesys.cc` | Format, `Create`, `MakeDirectory`, `ChangeDirectory`, `Remove` and `Open`. They work on the free map and on the global current directory (`directoryFile`). |
| Open-file tables | `filesys/filesys.cc`, `userprog/addrspace.cc` | A system-wide table of open names, and one table of descriptors per process. `OpenSyscall`, `CloseSyscall`, `RemoveSyscall` and `DeleteEntriesOfProcess` keep the two tables in step. `filesys_lock` guards them. `ReadSyscall`, `WriteSyscall` and `LseekSyscall` use a descriptor's `OpenFile` without the lock. |
| User threads | `userprog/userthread.cc` | `do_UserThreadCreate`, `do_UserThreadExit`, `do_UserThreadJoin` and `do_Exit`. Uses a per-space `tidcounter`, `livethreads` and per-tid semaphores. |
| Processes | `userprog/forkexec.cc` | `do_ForkExec`, `StartForkedProcess` and `do_UserWaitPid`. Uses the global `procounter`, `livepro` and `createdPro[]`. |
| Frames | `userprog/frameprovider.cc`, `userprog/addrspace.cc` | A bitmap of physical frames. An `AddrSpace` takes frames in its constructor and returns them in `FreeFrames`. `GetEmptyFrame` zeroes each frame it hands out. |
| Program loading | `userprog/addrspace.cc` | The `AddrSpace` constructor sizes the space from the NOFF header, builds the page table and copies code and initialised data in byte by byte (`ReadAtVirtual`, `WriteMachineMem`, `DoTranslatiton`). A write that does not translate raises an exception that `ExceptionHandler` ignores. |
| Dispatch | `userprog/exception.cc`, `userprog/dofilesys.cc` | Turns each system call into one of the functions above. |
| Console | `userprog/synchconsole.cc` | Synchronised character and string I/O. Four semaphores used as locks (`semPut`, `semGet`, `semPutString`, `semGetString`) and two interrupt semaphores (`writeDone`, `readAvail`). |
| Console tests | `userprog/progtest.cc` | `ConsoleTest` echoes the raw `Console` with its own `readAvail`/`writeDone` semaphores; `SynchConsoleTest` echoes through a `SynchConsole`. Both write `<` before the first character of a line and `>` before its newline. |
| User semaphores | `userprog/userthread.cc`, `userprog/addrspace.h` | `do_UserSemInit`, `do_UserSemP` and `do_UserSemV`. A user `sem_t` holds an index into `AddrSpace::userSemaphores[100]`. |

How the parts interact:

- A user thread enters the kernel through `exception.cc`.
- File calls go to the naming layer and the open-file tables.
- Process calls go to userthread/forkexec, and those reach the frame provider through `AddrSpace`.
- On exit, `do_Exit` calls `DeleteEntriesOfProcess`, which joins the two halves.
- NachOS threads are switched only where a thread blocks: on a `Semaphore::P`, or on a `synchDisk` sector transfer (the disk's semaphore). So the code between two such points runs atomically, and each model makes that code one step.

## Modules

| Module | Models | State (VARIABLES) | Actions |
|---|---|---|---|
| `FileHeader` | filehdr.cc | none: pure operators | `Allocate`, `AllocateIndirection1/2`, `Deallocate`, `DoubleTrailer`, `ByteToSector`, `WriteBack`, `CanAllocate` (the `NumClear` thresholds), `HeaderRecord` |
| `Directory` | directory.cc, from the specification (marked `spec_modelled`) | none | `DirFind`, `DirAdd`, `DirRemove`, `IsDirectory`, `IsEmpty`, `NewDirectoryTable` |
| `AbstractFileStore` | specification sections 3 and 4 | tree, parent, cwd, free count | what a creation costs and when it may succeed |
| `FileStore` | filesys.cc, one call at a time | `freeMap`, `disk` (header and index sectors), `dirs`, `currentSector` | `Create`, `MakeDirectory`, `ChangeDirectory`, `Remove`; `Init` is the formatting constructor |
| `FileSys` | filesys.cc, concurrent | FileStore's state plus `lock`, `sysTable`, `procTable` (each descriptor holds its `OpenFile`: identity, cached header, seek position), `live`, and per thread `pc`/`loc` | every system call split at its disk accesses (`OpenSyscall`, `WriteDir`, `WriteMap`, `OpenRegister`, `CloseSyscall`, `RemoveSyscall`, `RemoveFetchDir`, ..., `ReadSyscall`/`WriteSyscall` then one `TransferIo` per sector, `LseekSyscall`, `DeleteEntriesOfProcess`) |
| `SynchConsole` | synchconsole.cc and the console cases of exception.cc | the four locks, `writeDone`, `readAvail`, the device's `putBusy`/`incoming`/`nextIn`, the output and input histories `out`/`got`, per thread `pc`/`loc` (with `widx`, the last kernel-buffer index written). PutInt's snprintf is `SynchPutInt`, which keeps the length of `"%d"` (`DecimalLength`) truncated to MAX_STRING_SIZE - 1; GetInt is `SynchGetInt`, a GetString of MAX_STRING_SIZE whose parsed value is left out | `Syscall`, `SynchPutStringP`/`V`, `SynchPutCharP`, `ConsolePutChar`, `SynchPutCharWait`/`V`, `SynchGetStringP`/`V`, `SynchGetCharP`/`Wait`/`Read`; the device's `WriteDone` and `ReadAvail` interrupts |
| `AbstractConsole` | what synchconsole.h promises (putchar, puts, getchar, fgets) | the histories `out` and `got`, `calls`, each thread's call in progress `req` (characters still to write, or bytes it may still read), the string calls that have begun `writer` and `reader`, and `next`, the next input position | `Call`, `Write` (one character), `Read` (one byte, or EOF past the end), `Return` |
| `ConsoleTests` | ConsoleTest and SynchConsoleTest of progtest.cc; EXTENDS `SynchConsole` | SynchConsole's state with one thread `Main`, plus the test run (`test`, chosen in `Init`), its place in the loop `prog`, its locals `ch` and `flag`, and `pending`, the characters the current turn of the loop still writes | `ConsoleGet`, `ConsolePut`, `ConsoleWaitDone` (the raw console); `SynchTestGet`, `SynchTestGot`, `SynchTestPut` and `SynchCall` (SynchConsole's own actions on `Main`); `LoopEnd` (the return tests); the device's interrupts |
| `UserSemaphores` | do_UserSem* in userthread.cc | the user's `sem_t` variables `mem`, `userSemCounter`, the semaphores' counts `sems`, each thread's position `ip` in its program | `UserSemInit`, `UserSemP`, `UserSemV` |
| `FrameProvider` | frameprovider.cc | none: pure operators | `GetEmptyFrame` with `AS_ORDERED` (`Find`), `GetEmptyFrameRandom`, `GetEmptyFrameInverse`. Only `AS_ORDERED` has a caller (the AddrSpace constructor); the other two are translated but no property is stated about them |
| `AddrSpaceLoad` | the loading part of the AddrSpace constructor (addrspace.cc); EXTENDS `FrameProvider` | none: pure operators on the frame map and main memory | `NumPages`, `OrderedFrames` (the page-table loop), `ZeroFrames` (GetEmptyFrame's bzero), `DoTranslatiton`, `WriteMachineMem`, `ReadAtVirtual` (RECURSIVE), `LoadSegment`, `LoadAddrSpace`; `ImageLoaded` compares the result with the image the header describes |
| `Processes` | userthread.cc, forkexec.cc, frameprovider.cc, addrspace.cc; EXTENDS `AddrSpaceLoad` | `procounter`, `livepro`, `allocated` (frame bitmap), `createdPro`, `space` (AddrSpace objects), per thread `pc`, `owner`, `tid`, `loc`, `made`, `kids`; plus `halted`, `aborted`. `space[s].main` records which thread runs the program's main function and ends with `Exit`; every other thread ends with `UserThreadExit` | `UserThreadCreate`/`Count`/`Fork`/`SetTid` (`t->Fork` and `t->tid = this_tid` are two steps, with the switch point of Fork's `SetLevel` between them), `UserThreadExit`/`Signal`, `UserThreadJoin`, `Exit`/`ExitYield`/`ExitSignal`/`ExitCount`/`ExitFree`, `ForkExec`/`ForkCheck`/`ForkCount`/`ForkSpace`/`ForkThread`, `StartForkedProcess`, `UserWaitPid` |

How the modules relate to each other and to the code:

- `FileStore` refines `AbstractFileStore`. It instantiates the abstract module with a refinement mapping: a directory's id is its header sector, a file's size is its header's `numBytes`, and `free` is the number of clear bits. The abstract `Spec` is checked as the property `AbstractSpec`.
- `SynchConsole` refines `AbstractConsole`. In the mapping, a call in progress is the part of its text not yet written, which is taken from the index of SynchPutString's loop. Or it is the number of bytes it may still read, n - 1 less the index of SynchGetString's loop. `next` is one past the bytes read. Every semaphore step and every interrupt leaves the abstract state alone. The abstract `Spec`, with its fairness, is checked as `AbstractConsoleSpec`. AbstractConsole lets a PutChar's character fall between two characters of a PutString, because SynchPutChar does not take `semPutString`; an invariant that forbids it fails on MCSynchConsole.cfg. So an abstract console where each string call is a single step would not be refined, and that comes from the code, not the model.
- In `FileSys` and `Processes`, a thread's `pc` names the blocking point it is at.
- An ASSERT of the code that fails sets `aborted`.
- `Halt` sets `halted`.
- Each thread runs one program, a set of calls (`ThreadOps`, `FirstOps`/`OtherOps`), for at most `MaxCalls` calls.

## Runs

Pass runs:

| Run | Configuration | Checks |
|---|---|---|
| filestore | `MCFileStore.cfg` | Over all three tiers (D = 3; file sizes 1, 7, 14 and 18 bytes in 2-byte sectors, one per tier and one at a tier boundary; 20 sectors): `TypeOK`. `SectorOwnership`: the free map is exactly the union of the live objects' sectors, and these are disjoint. `DeallocateSafe`: no ASSERT of `Deallocate` trips. `TranslationRoundTrip`: `ByteToSector` hits the data sectors that `Allocate` laid out. `DirectoryTree`. `CreateOutcome`: creation succeeds exactly when the layout fits. `AbstractSpec`: the refinement. |
| filesys_tables | `MCFileSys.cfg` | Two processes, one thread each. One opens, reads, writes, seeks and closes, and the other makes open/close/mkdir/cd/rm calls. Checks `TypeOK`, and `OpenTablesAgree`, which says every descriptor is backed by a system entry and `CloseSyscall`'s scan frees an entry only at its last reference. Also `LockHeldInCall`: `filesys_lock` is held only by a thread still inside its call. OpenSyscall's five early returns are steps of the model (`OpenRefuse`: a name open in another process, a missing name with `create = 0`, a failed Create; a full system or process table in `OpenRegister`), so a return that forgets `filesys_lock->V()` is caught, as are MakeDirectory's returns. |
| processes | `MCProcesses.cfg` | The main thread forks, creates, joins and waits. The other threads create and join. Four Thread objects, three AddrSpaces, three frames. Checks `TypeOK`; `FrameOwnership` (the frame bitmap is exactly the frames of live spaces, and these are disjoint); `UniquePids`; `HaltOnlyWhenLast`; `LoadKept` (at every `ForkExec` that reaches the AddrSpace constructor, loading any executable of that size on the current map gives the program its code, data and zeroed pages in its own frames, and writes no other frame; memory starts with stale bytes in free frames). Deadlock is not checked: the code really can block forever (processes_join_hang). |
| synchconsole | `MCSynchConsole.cfg` | Three threads, one call each, among PutChar, PutString, PutInt, GetChar, GetString and GetInt, on a 3-byte input. Checks `TypeOK`; `PutNeverBusy` (the console is never written while a character is in flight); `StringsWhole` and `LinesWhole` (string calls never interleave on output or input); `Termination` (every call returns, including reads past the end of the input); and `AbstractConsoleSpec`, the refinement. It shows that each input byte goes to exactly one caller, in order, that EOF comes only once the input is used up, and that a string call writes its text and NUL, or stops its read, where puts and fgets do. Deadlock is checked. |
| console_tests | `MCConsoleTests.cfg` | Either test, on the input newline, `x`, 0xFF, `q`. Checks `TestTypeOK`; `PutNeverBusy` (ConsoleTest waits for WriteDone after each of its three PutChar calls); `EchoFramed` (the output without its brackets is the input read, brackets alternate starting with `<`, and every newline written follows a `>`); and `TestReturns` (ConsoleTest returns at the 0xFF, which it reads as EOF; SynchConsoleTest skips it and returns at the `q`). |
| user_semaphores | `MCUserSemaphores.cfg` | Three threads share a lock `a` and a signal `b`, and each thread calls SemInit on them. Checks `TypeOK`; `MutualExclusion` (the lock admits one thread at a time although several SemInits run on it); and `Termination`. |

Violation runs. Each shows a real bug of the code; see `findings` in `PROJECT.json`.

| Run | Configuration | Bug |
|---|---|---|
| filesys_lost_update | `MCFileSysLostUpdate.cfg` | The unlocked `Remove` writes back a stale free map over a concurrent `Create`'s. |
| filesys_rm_open | `MCFileSysRmOpen.cfg` | `RemoveSyscall`'s "is it open" check races `OpenSyscall`. |
| processes_stack_race | `MCProcessesStackRace.cfg` | The stack check in `do_UserThreadCreate` is made outside `lock_tidcounter`. |
| processes_pid_reuse | `MCProcessesPidReuse.cfg` | A failed `ForkExec`'s `procounter--` undoes a concurrent fork's increment, and a live pid is handed out again. |
| processes_join_hang | `MCProcessesJoinHang.cfg` | `Termination` fails: a new user thread runs to `UserThreadExit` before its creator sets `t->tid` (userthread.cc:106). It signals `createdThreads[0]`, its creator's join on the real tid never returns, and `do_Exit` busy-waits forever. |
| synchconsole_put_overflow | `MCSynchConsolePutOverflow.cfg` | A user string of at least MAX_STRING_SIZE characters makes `copyStringFromMachine` write its NUL one byte past the kernel buffer (synchconsole.cc:106). |

Further counterexample configurations. These are kept beside the runs. Each makes TLC report a violation of the named property, but none is one of the listed runs, and `PROJECT.json` has no finding for them. Most show a second bug on lines that a listed run or hazard already covers; the others stand for hazards whose note in `PROJECT.json` names them, for lack of a run slot.

| Configuration | Property | Bug |
|---|---|---|
| `MCFileStoreMaxSize.cfg` | `TranslationRoundTrip` | A file of exactly `NumIndirect2` sectors makes `AllocateIndirection2` write `dataSectors[D]`, past the array (filehdr.cc:144). The last level-2 block is then unreachable. |
| `MCFileSysRmDuringCreate.cfg` | `NoAbort` | `Remove` runs between `Create`'s directory write and its free-map write, and `Deallocate`'s ASSERT fires. |
| `MCFileSysCdRace.cfg` | `DirectoryTree` | `Remove` writes its directory image into a `directoryFile` that `ChangeDirectory` has redirected in the meantime. |
| `MCFileSysOpenPartial.cfg` | `SysEntryBacked` | `OpenSyscall` fails on a full process table and leaves its system entry behind. |
| `MCSynchConsoleGetOverflow.cfg` | `KernelBufferInBounds` | `GetString`'s size comes from the user and is not bounded by the kernel buffer (exception.cc:134). |
| `MCUserSemaphoresOverflow.cfg` | `SemaphoreIndexValid` | The 100th SemInit writes `userSemaphores[100]` (userthread.cc:47), with the real array size of 100. |
| `MCFileSysWriteRemoved.cfg` | `TransferOnLiveFile` | A `WriteSyscall` blocked on the disk goes on writing through its cached header after the file was removed. Its sectors are free and may be reallocated. |
| `MCSynchConsoleFF.cfg` | `EofOnlyAtEnd` | `console->GetChar()` returns a `char`, so the input byte 0xFF sign-extends to EOF (synchconsole.cc:81) and ends `GetString` (156), unlike the getchar(3S)/fgets(3S) behaviour that synchconsole.h documents. |
| `MCUserSemaphoresTestSem.cfg` | `SemaphoreIndexValid` | test/testsem.c passes an uninitialised local `sem_t` to SemInit. `do_UserSemInit` takes the garbage for an existing id, and SemV/SemP index the array with it. |
| `MCConsoleTestsNoQuit.cfg` | `TestReturns` | On an input with no `q`, SynchConsoleTest never returns: at the end of the input SynchGetChar returns EOF on every call and the loop spins (progtest.cc:158). ConsoleTest returns at EOF, and so did the commented-out original loop. |
| `MCProcessesFrameRace.cfg` | `FrameOwnership` | Two forks pass `CheckPhysicalSpace` before either takes its frames, and one space gets frame -1. |
| `MCProcessesShortLoad.cfg` | `LoadKept` | The same race seen by the loader: the page with frame -1 makes every write to it a BusError, which `ExceptionHandler` ignores (exception.cc:79). The program starts with part of its code or data missing, and nothing reports it (addrspace.cc:100). |

Every property of a pass run also has a mutant in `PROJECT.json`. A mutant is a plausible bug in the mapped definition, and TLC must find it.

## Bounds and why they suffice

**FileStore.** The sizes reach each tier, and a tier boundary. 20 sectors make room for two objects of different tiers at once, so sharing and leaks between them show.

**FileSys.** With 8 sectors and two names, two objects fit after formatting, so a creation can fail. The process table (2) and the system table (2) can each fill. `MaxCalls` = 4 allows open, close, open, close by one thread while the other removes. Files are one byte in two-byte sectors, so a transfer (count 1) touches one sector. A second read from the same position returns 0 at the end of the file, and `lseek 0` rewinds. Longer transfers add more `TransferIo` steps of the same kind. The sector arithmetic they go through is checked by `TranslationRoundTrip` in FileStore.

**Processes.**
- Three frames let a fork fit or miss, depending on the 1- or 2-page executable.
- `UserStackSize` = 3 × `ThreadStackSize` admits exactly two user threads per space. So the check at userthread.cc:78 is both passed and refused. tids are never reused (userthread.cc:89), so after two creations a process can create no thread even if both exited. This is the design's limit, and the refusal is a plain guard of `UserThreadCreate`.
- Three AddrSpace slots let two forks be in flight together.
- Pages are 4 bytes. The three executables are 1 page (one byte of code), or 2 pages (code and data, with the data crossing the page boundary; or code and uninitialised data). So a load writes at an offset into a page, across a page boundary, and leaves zero bytes for uninitialised data, the stack and the end of the last page. `MemoryAt` gives free frames a stale byte, so a frame that is not zeroed shows. The real values are 128-byte pages and 512-byte stacks; the loader's arithmetic is the same at any size.

**SynchConsole.** `MAX_STRING_SIZE` is 3 in place of 256. The code uses it only as a buffer length and a loop limit, so 3 reaches the same edges: a buffer filled exactly, the `MAX_STRING_SIZE - 1` limit of SynchPutString, and one byte past the buffer. PutInt is given 7 and -42: the `"%d"` of -42 is three characters, one more than snprintf keeps, so it is truncated and PutInt fills its buffer too. Three threads each make one call. So two string writers and two string readers meet, a character call can fall inside a string, and the 3-byte input runs out before the readers are done. With two calls per thread the model exceeds a million states.

**ConsoleTests.** One thread runs each test, so the only interleaving is with the device. The 4-byte input reaches every branch of the loop: an empty line (`<`, `>` and the newline in one turn), a character that opens a line, the 0xFF that ConsoleTest takes for EOF and SynchConsoleTest skips, and the `q`.

**UserSemaphores.** The array has its real size, 100. Three threads and two `sem_t` variables are enough for a second SemInit to meet a holder of the lock.

All the races above need only two actors and one or two objects, and every violation run and counterexample configuration finds its bug within these bounds.

## Fairness

**Processes** assumes weak fairness of each thread's step. This is justified because the NachOS scheduler keeps every ready thread on the ready list, and `Yield`, `Sleep` and `Finish` always hand the CPU to the next one. A thread that can proceed is therefore eventually run. Every program of the model makes its next call or exits. `Termination` is stated under this fairness and fails (processes_join_hang): the counterexample is fair, every thread that can move does, and the join still never returns.

**SynchConsole and UserSemaphores** also assume weak fairness of each thread's step.
- SynchConsole assumes it of the console's two interrupts as well. The device raises each interrupt a fixed time after it scheduled it.
- In UserSemaphores, a thread waiting in P is enabled once the count is positive. Every program is finite, so once the other threads have finished the count stays positive and weak fairness is enough.

**ConsoleTests** assumes weak fairness of the test thread's steps and of the two interrupts, as SynchConsole does. The test is the only thread that runs.

**FileStore and FileSys** check safety only. Checking that `filesys_lock` is eventually released, under weak fairness of the steps of a call in progress, takes about 4.5 minutes on the filesys_tables instance (3.3M states). That is too slow for a run, so `LockHeldInCall` checks the safety half: the holder is always inside a call, and every step of a call is enabled while it runs.

## Assumptions

- `threads/thread.cc` is not in the repository. A new `Thread`'s `tid` before `do_UserThreadCreate` sets it is taken to be 0, the value every main thread keeps (nothing sets it for them).
- `system.cc` is not in the repository. At boot the model has one live process (`livepro = 1`) and `procounter = 0`.
- `openfile.cc` is absent. `OpenFile::ReadAt`/`WriteAt` clamp a transfer to the length of the header the object cached, and access one sector at a time; `Seek` sets the position unchecked. This follows the stock NachOS `OpenFile`; the specification says only that the calls "delegate to the open handle", over files whose size is fixed at creation.
- `filehdr.h` and `directory.cc` are also absent. `NumIndirect1 = 2D - 1`, `NumIndirect2 = 2D - 1 + D^2` and the directory operations come from the specification.

## Not modelled

- File contents are not modelled: a transfer is the sectors it reaches and the bytes it moves. Negative `lseek` offsets are undefined behaviour in `ReadAt`/`WriteAt` and are left out of the inputs.
- `List` and `Print` are output only.
- The host-copy helpers of `dofilesys.cc` are not modelled.
- Of program loading, the NOFF header's byte swap and a short `ReadAt` of the executable are left out: the headers are well formed and the files are complete. Registers (`InitRegisters`, `SaveState`/`RestoreState`) are machine emulation. The first program's load in `StartProcess` is the same constructor on an empty map, and it is not checked separately.
- The console device (`machine/console.cc`) is not in the repository, so it is modelled as the environment. It writes one character at a time and raises WriteDone after it. It reads one byte ahead and raises ReadAvail for it. At the end of the input it raises ReadAvail with `feof()` true, once per read, which is what the EOF branch of SynchGetChar presumes.
- `SynchConsole::threadCreateSem`/`threadDestroySem` (`mainEnd`) have no caller.
- `copyStringToMachine` only writes user memory.
- The `Semaphore` class (`threads/synch.cc`) is not in the repository. P waits while the count is 0 and V adds 1.
- Crash consistency between the sector writes of one call is not modelled. The specification lists it as a non-goal, and the code has no recovery.

## Plan for later work

1. **Processes and FileSys together.** Compose the two modules, so that a duplicate pid makes `DeleteEntriesOfProcess` delete another process's descriptors, and a later `CloseSyscall` reaches `ASSERT(FALSE)` (filesys.cc:719).
2. **FileSys liveness.** Check that `filesys_lock` is eventually released and that every call returns, on an instance smaller than filesys_tables.
