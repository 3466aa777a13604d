------------------------------ MODULE FileSys -------------------------------
(***************************************************************************)
(* The system-call layer of filesys/filesys.cc with several user threads  *)
(* calling it at once: OpenSyscall (with Create), MakeDirectory,           *)
(* ChangeDirectory, CloseSyscall and RemoveSyscall (with Remove), and the  *)
(* DeleteEntriesOfProcess call of do_Exit (userprog/userthread.cc), and   *)
(* ReadSyscall, WriteSyscall and LseekSyscall on the descriptors.         *)
(*                                                                         *)
(* NachOS threads switch only when the running thread blocks or re-enables *)
(* interrupts: on a semaphore and on every synchDisk sector read or write. *)
(* A call is therefore split into one atomic step per group of disk       *)
(* accesses, and code between two such points is one step.  filesys_lock  *)
(* (a Semaphore with value 1) is held by OpenSyscall, MakeDirectory,      *)
(* ChangeDirectory and CloseSyscall; RemoveSyscall and Remove run without *)
(* it.  The persisted state is that of FileStore; the directory read by a *)
(* call is always the global directoryFile, the file of currentSector.    *)
(***************************************************************************)
EXTENDS Directory, TLC

CONSTANTS
  Names, FileSizes, DirectoryFileSize,   \* as in FileStore
  Threads,                 \* user threads (model values)
  Procs,                   \* processes (address spaces), model values
  ProcOf,                  \* thread -> the process it belongs to
  MaxOpenFilesInSystem,    \* filesys.h
  MaxOpenFilesInProcess,   \* addrspace.h
  NoThread,                \* holder of a free filesys_lock
  ThreadOps,               \* thread -> the system calls its program makes
  MaxCalls,                \* bound on the calls one thread makes
  IoCounts,                \* byte counts a program passes to read and write
  SeekOffsets              \* offsets a program passes to lseek

ASSUME ProcOf \in [Threads -> Procs] /\ NoThread \notin Threads
ASSUME ThreadOps \in [Threads -> SUBSET {"open", "close", "mkdir", "cd", "rm",
                                         "read", "write", "lseek"}]
\* A negative offset makes ReadAt/WriteAt index below their buffer and
\* below dataSectors[]: undefined behaviour, left out of the inputs.
ASSUME IoCounts \subseteq Int /\ SeekOffsets \subseteq Nat

VARIABLES
  freeMap, disk, dirs, currentSector,   \* persisted state, as in FileStore
  lock,        \* thread holding filesys_lock, or NoThread
  sysTable,    \* FileSystem::openFilesTable: slot -> entry or FreeSlot
  procTable,   \* process -> AddrSpace::openFilesTable: fd -> entry or FreeSlot
  live,        \* processes that have not exited
  pc,          \* thread -> the step of the call it is in
  loc,         \* thread -> the local variables of that call
  aborted,     \* an ASSERT fired: the kernel stopped
  calls        \* thread -> number of calls it has made (bounded by MaxCalls)

vars == <<freeMap, disk, dirs, currentSector, lock, sysTable, procTable, live,
          pc, loc, aborted, calls>>

FS == INSTANCE FileStore

SysSlots  == 0..(MaxOpenFilesInSystem - 1)
ProcSlots == 0..(MaxOpenFilesInProcess - 1)

FreeSlot == [inUse |-> FALSE]
SysEntry(name, pro)     == [inUse |-> TRUE, name |-> name, pro |-> pro]
(***************************************************************************)
(* A descriptor holds the OpenFile that Open(name) returned: NULL when    *)
(* the name was gone, else a new object (of, the call that made it) that *)
(* cached the file's header when it was built and keeps its own seek     *)
(* position.                                                              *)
(***************************************************************************)
NullHeader == [numBytes |-> 0, numSectors |-> 0, dataSectors |-> << >>]

ProcEntry(name, sector, of) ==
  [inUse |-> TRUE, name |-> name, sector |-> sector, of |-> of, pos |-> 0,
   hdr |-> IF sector = NoSector THEN NullHeader ELSE disk[sector]]

\* Locals of the call in progress; an idle thread has NoLocals.
NoLocals == [op |-> "none", name |-> Dot, sector |-> NoSector, tbl |-> << >>,
             map |-> {}, writes |-> << >>, isDir |-> FALSE,
             fd |-> 0, file |-> FreeSlot, k |-> 0, last |-> 0, n |-> 0]

cwd == dirs[currentSector]

\* FileSystem::Open: the header sector of name in directoryFile, or
\* NoSector where the code returns NULL.
Open(name) == DirFind(cwd, name)

\* FindOpenFileIndex of either table: the in-use slots holding name.
SlotsOf(tbl, name) == {i \in DOMAIN tbl : tbl[i].inUse /\ tbl[i].name = name}

\* AddToOpenFilesTable of either table: the first free slot, if any.
HasFree(tbl)   == \E i \in DOMAIN tbl : ~tbl[i].inUse
FirstFree(tbl) == CHOOSE i \in DOMAIN tbl : ~tbl[i].inUse /\ \A j \in DOMAIN tbl :
                                              j < i => tbl[j].inUse

Init ==
  /\ FS!Init
  /\ lock = NoThread
  /\ sysTable = [i \in SysSlots |-> FreeSlot]
  /\ procTable = [p \in Procs |-> [i \in ProcSlots |-> FreeSlot]]
  /\ live = Procs
  /\ pc = [t \in Threads |-> "idle"]
  /\ loc = [t \in Threads |-> NoLocals]
  /\ aborted = FALSE
  /\ calls = [t \in Threads |-> 0]

\* A thread can start a call of kind op when its process is alive, it is
\* idle and its program has that call left; starting it counts it.
Ready(t, op) ==
  /\ ~aborted /\ ProcOf[t] \in live /\ pc[t] = "idle"
  /\ op \in ThreadOps[t] /\ calls[t] < MaxCalls
  /\ calls' = [calls EXCEPT ![t] = @ + 1]

Return(t) == pc' = [pc EXCEPT ![t] = "idle"] /\ loc' = [loc EXCEPT ![t] = NoLocals]

Goto(t, step, l) == pc' = [pc EXCEPT ![t] = step] /\ loc' = [loc EXCEPT ![t] = l]

(***************************************************************************)
(* Create / MakeDirectory on the directory and free map they fetched:     *)
(* Find a header sector, add the entry, Allocate; the result says whether *)
(* this succeeds and what the call writes back afterwards.                 *)
(***************************************************************************)
CreatePlan(op, tbl, fm, name, size, isDir) ==
  LET sector == FindSeq(fm, 1)[1]
      found  == FindSeq(fm \cup {sector}, Required(NumSectorsOf(size)))
      a      == Allocate(size, found)
  IN  [ok     |-> /\ DirFind(tbl, name) = NoSector
                  /\ sector # NoSector
                  /\ DirCanAdd(tbl, name)
                  /\ CanAllocate(fm \cup {sector}, size),
       local  |-> [op |-> op, name |-> name, sector |-> sector,
                   tbl |-> DirAdd(tbl, name, sector, isDir),
                   map |-> fm \cup {sector} \cup AllocatedSet(size, found),
                   writes |-> << <<sector, a.hdr>> >> \o a.tables, isDir |-> isDir]]

\* Mutation of OpenRefuse: a refusal returns -1 without filesys_lock->V().
OpenRefuseKeepsLock(t) == lock' = t /\ UNCHANGED <<pc, loc>>

\* An early return of OpenSyscall (-1): filesys_lock->V() and return.  No
\* switch point lies between the P and the V, so both are one step.
OpenRefuse(t) == lock' = NoThread /\ UNCHANGED <<pc, loc>>

(***************************************************************************)
(* OpenSyscall up to the end of Create: take filesys_lock; refuse a name   *)
(* open in another process; Open(name); if absent, refuse when create = 0, *)
(* else fetch directory and free map for Create and refuse when it fails.  *)
(***************************************************************************)
OpenSyscall(t, name, create, size) ==
  LET p    == ProcOf[t]
      plan == CreatePlan("open", cwd, freeMap, name, size, FALSE)
  IN  /\ Ready(t, "open")
      /\ lock = NoThread
      /\ \/ /\ SlotsOf(sysTable, name) # {} /\ SlotsOf(procTable[p], name) = {}
            /\ OpenRefuse(t)
         \/ /\ SlotsOf(sysTable, name) # {} => SlotsOf(procTable[p], name) # {}
            /\ \/ /\ Open(name) # NoSector
                  /\ Goto(t, "open_register",
                          [NoLocals EXCEPT !.op = "open", !.name = name,
                                           !.sector = Open(name)])
                  /\ lock' = t
               \/ /\ Open(name) = NoSector
                  /\ (create = 0 \/ ~plan.ok)
                  /\ OpenRefuse(t)
               \/ /\ Open(name) = NoSector
                  /\ create = 1
                  /\ plan.ok
                  /\ Goto(t, "write_dir", plan.local)
                  /\ lock' = t
      /\ UNCHANGED <<freeMap, disk, dirs, currentSector, sysTable, procTable,
                     live, aborted>>

(***************************************************************************)
(* FileSystem::MakeDirectory: the same steps as Create under the lock,    *)
(* for a DirectoryFileSize file tagged as a directory.                     *)
(***************************************************************************)
MakeDirectory(t, name) ==
  LET plan == CreatePlan("mkdir", cwd, freeMap, name, DirectoryFileSize, TRUE)
  IN  /\ Ready(t, "mkdir")
      /\ lock = NoThread
      /\ IF plan.ok
         THEN Goto(t, "write_dir", plan.local) /\ lock' = t
         ELSE UNCHANGED <<pc, loc, lock>>
      /\ UNCHANGED <<freeMap, disk, dirs, currentSector, sysTable, procTable,
                     live, aborted>>

(***************************************************************************)
(* The writes of a successful Create or MakeDirectory, in code order:     *)
(* header and directory table (to directoryFile), then free map, the new  *)
(* directory's own table and the index blocks (WriteBackHeaders).         *)
(***************************************************************************)
WriteDir(t) ==
  /\ ~aborted
  /\ pc[t] = "write_dir"
  /\ disk' = WriteBack(disk, loc[t].writes[1][1], loc[t].writes[1][2])
  /\ dirs' = [dirs EXCEPT ![currentSector] = loc[t].tbl]
  /\ Goto(t, "write_map", loc[t])
  /\ UNCHANGED <<freeMap, currentSector, lock, sysTable, procTable, live, aborted, calls>>

WriteMap(t) ==
  /\ ~aborted
  /\ pc[t] = "write_map"
  /\ freeMap' = loc[t].map
  /\ disk' = WriteAll(disk, Tail(loc[t].writes))
  /\ dirs' = IF loc[t].isDir
             THEN [s \in DOMAIN dirs \cup {loc[t].sector} |->
                     IF s = loc[t].sector
                     THEN NewDirectoryTable(loc[t].sector, currentSector)
                     ELSE dirs[s]]
             ELSE dirs
  /\ IF loc[t].op = "open"
     THEN Goto(t, "open_register", [loc[t] EXCEPT !.sector = NoSector])
          /\ UNCHANGED lock
     ELSE Return(t) /\ lock' = NoThread
  /\ UNCHANGED <<currentSector, sysTable, procTable, live, aborted, calls>>

(***************************************************************************)
(* The end of OpenSyscall: after a Create, Open(name) once more (NULL if  *)
(* the entry is gone again); add a system entry if there is none, then a  *)
(* descriptor in the caller's table; give the lock back.  A full process  *)
(* table fails the call after the system entry was added.                 *)
(***************************************************************************)
OpenRegister(t) ==
  LET p      == ProcOf[t]
      name   == loc[t].name
      sector == IF loc[t].sector = NoSector THEN Open(name) ELSE loc[t].sector
      needSys == SlotsOf(sysTable, name) = {}
      sys1   == IF needSys
                THEN [sysTable EXCEPT ![FirstFree(sysTable)] = SysEntry(name, p)]
                ELSE sysTable
  IN  /\ ~aborted
      /\ pc[t] = "open_register"
      /\ IF needSys /\ ~HasFree(sysTable)
         THEN UNCHANGED <<sysTable, procTable>>
         ELSE /\ sysTable' = sys1
              /\ procTable' =
                   IF HasFree(procTable[p])
                   THEN [procTable EXCEPT ![p][FirstFree(procTable[p])] =
                                            ProcEntry(name, sector, <<t, calls[t]>>)]
                   ELSE procTable
      /\ lock' = NoThread
      /\ Return(t)
      /\ UNCHANGED <<freeMap, disk, dirs, currentSector, live, aborted, calls>>

\* FileSystem::ChangeDirectory, whole under the lock.
ChangeDirectory(t, name) ==
  /\ Ready(t, "cd")
  /\ lock = NoThread
  /\ FS!ChangeDirectory(name)
  /\ UNCHANGED <<lock, sysTable, procTable, live, pc, loc, aborted>>

\* Mutation of LastReference: the system entry freed on every close.
LastReferenceAlways(pt, name) == TRUE

\* CloseSyscall's substitute for a reference count: after freeing the
\* descriptor, no other descriptor of the process names the file.
LastReference(pt, name) == SlotsOf(pt, name) = {}

(***************************************************************************)
(* FileSystem::CloseSyscall, whole under the lock: free the descriptor;   *)
(* if the process has no other descriptor on the name, free the system    *)
(* entry, which must exist (ASSERT(FALSE) otherwise).                      *)
(***************************************************************************)
CloseSyscall(t, fd) ==
  LET p    == ProcOf[t]
      name == procTable[p][fd].name
      pt1  == [procTable[p] EXCEPT ![fd] = FreeSlot]
  IN  /\ Ready(t, "close")
      /\ lock = NoThread
      /\ procTable[p][fd].inUse
      /\ procTable' = [procTable EXCEPT ![p] = pt1]
      /\ IF LastReference(pt1, name)
         THEN IF SlotsOf(sysTable, name) = {}
              THEN aborted' = TRUE /\ UNCHANGED sysTable
              ELSE /\ sysTable' = [sysTable EXCEPT ![CHOOSE i \in SlotsOf(sysTable, name) :
                                                       \A j \in SlotsOf(sysTable, name) : i <= j]
                                                   = FreeSlot]
                   /\ UNCHANGED aborted
         ELSE UNCHANGED <<sysTable, aborted>>
      /\ UNCHANGED <<freeMap, disk, dirs, currentSector, lock, live, pc, loc>>

(***************************************************************************)
(* OpenFile::ReadAt / WriteAt (openfile.cc): the bytes a transfer of      *)
(* count moves from the object's seek position, clamped to the length of  *)
(* the header it cached; 0 for a non-positive count or past the end.      *)
(***************************************************************************)
Transfer(f, count) ==
  IF count <= 0 \/ f.pos >= f.hdr.numBytes THEN 0
  ELSE MinOf(count, f.hdr.numBytes - f.pos)

(***************************************************************************)
(* The start of ReadSyscall and WriteSyscall, without the lock: -1 on a   *)
(* free descriptor; else the descriptor's OpenFile does the transfer.  A  *)
(* NULL OpenFile (OpenSyscall registered a name removed before its second *)
(* Open) is dereferenced: the kernel crashes.  A transfer of 0 bytes      *)
(* touches no sector and returns at once; any other blocks on its first   *)
(* sector, firstSector = pos / SectorSize.  do_write's copy of the user   *)
(* buffer only moves data.                                                *)
(***************************************************************************)
TransferStart(t, op, fd, count) ==
  LET f == procTable[ProcOf[t]][fd]
      n == Transfer(f, count)
  IN  /\ Ready(t, op)
      /\ IF ~f.inUse \/ (f.sector # NoSector /\ n = 0)
         THEN UNCHANGED <<pc, loc, aborted>>
         ELSE IF f.sector = NoSector
         THEN aborted' = TRUE /\ UNCHANGED <<pc, loc>>
         ELSE /\ Goto(t, "rw_io",
                      [NoLocals EXCEPT !.op = op, !.fd = fd, !.file = f, !.n = n,
                                       !.k = f.pos \div SectorSize,
                                       !.last = (f.pos + n - 1) \div SectorSize])
              /\ UNCHANGED aborted
      /\ UNCHANGED <<freeMap, disk, dirs, currentSector, lock, sysTable, procTable, live>>

ReadSyscall(t, fd, count) == TransferStart(t, "read", fd, count)

WriteSyscall(t, fd, count) == TransferStart(t, "write", fd, count)

\* The sector a transfer in progress reads or writes next, located through
\* the header its OpenFile cached (ByteToSector).
IoSector(t) == ByteToSector(disk, loc[t].file.hdr, loc[t].k * SectorSize)

(***************************************************************************)
(* One ReadSector or WriteSector of the transfer (a blocking point); the  *)
(* partial first and last sectors WriteAt reads before writing them carry *)
(* only data and are part of the same step.  After the last sector, the   *)
(* OpenFile's seekPosition advances by the bytes moved; if the descriptor *)
(* was closed meanwhile, the object is orphaned and the change is lost.   *)
(***************************************************************************)
TransferIo(t) ==
  LET p == ProcOf[t]
      l == loc[t]
      e == procTable[p][l.fd]
  IN  /\ ~aborted
      /\ pc[t] = "rw_io"
      /\ IF l.k < l.last
         THEN Goto(t, "rw_io", [l EXCEPT !.k = @ + 1]) /\ UNCHANGED procTable
         ELSE /\ procTable' = IF e.inUse /\ e.of = l.file.of
                              THEN [procTable EXCEPT ![p][l.fd].pos = @ + l.n]
                              ELSE procTable
              /\ Return(t)
      /\ UNCHANGED <<freeMap, disk, dirs, currentSector, lock, sysTable, live,
                     aborted, calls>>

\* FileSystem::LseekSyscall, without the lock: -1 on a free descriptor, else
\* OpenFile::Seek sets the position, with no check against the length.
LseekSyscall(t, fd, offset) ==
  LET p == ProcOf[t]
  IN  /\ Ready(t, "lseek")
      /\ IF procTable[p][fd].inUse
         THEN procTable' = [procTable EXCEPT ![p][fd].pos = offset]
         ELSE UNCHANGED procTable
      /\ UNCHANGED <<freeMap, disk, dirs, currentSector, lock, sysTable, live,
                     pc, loc, aborted>>

(***************************************************************************)
(* RemoveSyscall and Remove, without the lock.  RemoveSyscall refuses a   *)
(* name in the system open-file table; Remove then fetches the current    *)
(* directory (and, for a directory, checks it is empty), fetches the      *)
(* header and the free map and runs Deallocate, whose ASSERTs stop the    *)
(* kernel on a clear bit; it writes the free map, then the directory      *)
(* image it fetched, minus the entry, to the directoryFile of that moment.*)
(* Names never include "." and "..", which RemoveSyscall refuses first.   *)
(***************************************************************************)
RemoveSyscall(t, name) ==
  /\ Ready(t, "rm")
  /\ SlotsOf(sysTable, name) = {}
  /\ Goto(t, "rm_fetch_dir", [NoLocals EXCEPT !.op = "rm", !.name = name])
  /\ UNCHANGED <<freeMap, disk, dirs, currentSector, lock, sysTable, procTable,
                 live, aborted>>

\* A directory whose table was never written reads as garbage: either.
EmptyReadings(s) == IF s \in DOMAIN dirs THEN {IsEmpty(dirs[s])} ELSE BOOLEAN

RemoveFetchDir(t) ==
  LET name == loc[t].name
      s    == DirFind(cwd, name)
  IN  /\ ~aborted
      /\ pc[t] = "rm_fetch_dir"
      /\ \/ s = NoSector /\ Return(t)
         \/ /\ s # NoSector
            /\ IsDirectory(cwd, name) => TRUE \in EmptyReadings(s)
            /\ Goto(t, "rm_fetch_map", [loc[t] EXCEPT !.sector = s, !.tbl = cwd])
         \/ /\ s # NoSector /\ IsDirectory(cwd, name)
            /\ FALSE \in EmptyReadings(s)
            /\ Return(t)
      /\ UNCHANGED <<freeMap, disk, dirs, currentSector, lock, sysTable, procTable,
                     live, aborted, calls>>

RemoveFetchMap(t) ==
  LET d == Deallocate(disk, freeMap, disk[loc[t].sector])
  IN  /\ ~aborted
      /\ pc[t] = "rm_fetch_map"
      /\ IF d.ok
         THEN Goto(t, "rm_write_map", [loc[t] EXCEPT !.map = d.map \ {loc[t].sector}])
              /\ UNCHANGED aborted
         ELSE aborted' = TRUE /\ UNCHANGED <<pc, loc>>
      /\ UNCHANGED <<freeMap, disk, dirs, currentSector, lock, sysTable, procTable, live, calls>>

RemoveWriteMap(t) ==
  /\ ~aborted
  /\ pc[t] = "rm_write_map"
  /\ freeMap' = loc[t].map
  /\ Goto(t, "rm_write_dir", loc[t])
  /\ UNCHANGED <<disk, dirs, currentSector, lock, sysTable, procTable, live, aborted, calls>>

RemoveWriteDir(t) ==
  /\ ~aborted
  /\ pc[t] = "rm_write_dir"
  /\ dirs' = [dirs EXCEPT ![currentSector] = DirRemove(loc[t].tbl, loc[t].name)]
  /\ Return(t)
  /\ UNCHANGED <<freeMap, disk, currentSector, lock, sysTable, procTable, live, aborted, calls>>

(***************************************************************************)
(* do_Exit of a process that is not the last one: once its other threads  *)
(* are done, DeleteEntriesOfProcess frees its system-table entries.  The  *)
(* exit of the last process halts the machine and is not a step here.    *)
(***************************************************************************)
DeleteEntriesOfProcess(p) ==
  /\ ~aborted
  /\ p \in live
  /\ live # {p}
  /\ \A t \in Threads : ProcOf[t] = p => pc[t] = "idle"
  /\ sysTable' = [i \in SysSlots |-> IF sysTable[i].inUse /\ sysTable[i].pro = p
                                     THEN FreeSlot ELSE sysTable[i]]
  /\ live' = live \ {p}
  /\ UNCHANGED <<freeMap, disk, dirs, currentSector, lock, procTable, pc, loc, aborted, calls>>

\* The machine stops after a failed ASSERT, or when no call is in progress
\* (the programs have ended).  A thread stuck inside a call is a deadlock.
Halted == (aborted \/ \A t \in Threads : pc[t] = "idle") /\ UNCHANGED vars

Next ==
  \/ \E t \in Threads :
       \/ \E n \in Names, c \in {0, 1}, sz \in FileSizes : OpenSyscall(t, n, c, sz)
       \/ \E n \in Names : MakeDirectory(t, n) \/ RemoveSyscall(t, n)
       \/ \E n \in FS!AllNames : ChangeDirectory(t, n)
       \/ \E fd \in ProcSlots : CloseSyscall(t, fd)
       \/ \E fd \in ProcSlots, c \in IoCounts :
            ReadSyscall(t, fd, c) \/ WriteSyscall(t, fd, c)
       \/ \E fd \in ProcSlots, off \in SeekOffsets : LseekSyscall(t, fd, off)
       \/ TransferIo(t)
       \/ WriteDir(t) \/ WriteMap(t) \/ OpenRegister(t)
       \/ RemoveFetchDir(t) \/ RemoveFetchMap(t)
       \/ RemoveWriteMap(t) \/ RemoveWriteDir(t)
  \/ \E p \in Procs : DeleteEntriesOfProcess(p)
  \/ Halted

Spec == Init /\ [][Next]_vars
-----------------------------------------------------------------------------
(***************************************************************************)
(* Views used by the properties.  Removed directories keep their last      *)
(* table in dirs, so the live objects are those reachable from the root.  *)
(***************************************************************************)
SubdirSectors(d) ==
  {dirs[d][n].sector : n \in {m \in DOMAIN dirs[d] \ {Dot, DotDot} : dirs[d][m].isDir}}

RECURSIVE ReachFrom(_)
ReachFrom(S) ==
  LET more == S \cup UNION {SubdirSectors(d) : d \in S \cap DOMAIN dirs}
  IN  IF more = S THEN S ELSE ReachFrom(more)

LiveDirs == ReachFrom({FS!DirectorySector}) \cap DOMAIN dirs

LiveHeaders ==
  {FS!FreeMapSector, FS!DirectorySector} \cup
  UNION {{dirs[d][n].sector : n \in DOMAIN dirs[d] \ {Dot, DotDot}} : d \in LiveDirs}

Owned(h) == {h} \cup (IF h \in DOMAIN disk THEN Footprint(disk, disk[h]) ELSE {})

\* No call is between its first and its last write-back.
Settled == \A t \in Threads : pc[t] \notin {"write_map", "rm_write_dir"}

Steps == {"idle", "write_dir", "write_map", "open_register",
          "rm_fetch_dir", "rm_fetch_map", "rm_write_map", "rm_write_dir", "rw_io"}

TypeOK ==
  /\ lock \in Threads \cup {NoThread}
  /\ pc \in [Threads -> Steps]
  /\ live \subseteq Procs
  /\ \A i \in SysSlots : sysTable[i].inUse => sysTable[i].name \in Names
                                             /\ sysTable[i].pro \in Procs
  /\ \A p \in Procs, i \in ProcSlots :
       procTable[p][i].inUse => procTable[p][i].name \in Names
  /\ freeMap \subseteq Sectors
  /\ currentSector \in DOMAIN dirs

(***************************************************************************)
(* The two open-file tables agree, as CloseSyscall's ASSERT and the       *)
(* cross-process check of OpenSyscall assume: a name a live process holds *)
(* a descriptor on has a system entry, and that entry is the process's    *)
(* own, so no two processes have the same name open.                      *)
(***************************************************************************)
OpenTablesAgree ==
  \A p \in live, fd \in ProcSlots :
    procTable[p][fd].inUse =>
      \E i \in SlotsOf(sysTable, procTable[p][fd].name) : sysTable[i].pro = p

(***************************************************************************)
(* Conversely, every system entry of a live process is backed by one of   *)
(* its descriptors: otherwise nobody can open or remove the name until    *)
(* the process exits (OpenSyscall refuses it even to its owner).          *)
(***************************************************************************)
SysEntryBacked ==
  \A i \in SysSlots :
    sysTable[i].inUse /\ sysTable[i].pro \in live =>
      SlotsOf(procTable[sysTable[i].pro], sysTable[i].name) # {}

(***************************************************************************)
(* Spec I1 under concurrency: whenever no call is halfway through its     *)
(* write-backs, the marked bits are exactly the sectors of the live       *)
(* objects, and no two live objects share a sector.                       *)
(***************************************************************************)
SectorOwnership ==
  Settled =>
    /\ freeMap = UNION {Owned(h) : h \in LiveHeaders}
    /\ \A h1, h2 \in LiveHeaders : h1 # h2 => Owned(h1) \cap Owned(h2) = {}

(***************************************************************************)
(* A file is never removed while a live process holds a descriptor on it: *)
(* the header sector behind every descriptor is that of a live object.    *)
(***************************************************************************)
OpenFileLive ==
  \A p \in live, fd \in ProcSlots :
    procTable[p][fd].inUse => procTable[p][fd].sector \in LiveHeaders

(***************************************************************************)
(* Every ReadSector/WriteSector of a read or write in progress goes        *)
(* through a header that is still live and still the one its OpenFile    *)
(* cached, so the transfer cannot reach freed or reallocated sectors.     *)
(* ReadSyscall and WriteSyscall run without filesys_lock and block on    *)
(* the disk, so a sibling thread's CloseSyscall and a RemoveSyscall can   *)
(* complete in between.                                                   *)
(***************************************************************************)
TransferOnLiveFile ==
  \A t \in Threads :
    pc[t] = "rw_io" =>
      LET f == loc[t].file
      IN  f.sector \in LiveHeaders /\ disk[f.sector] = f.hdr

(***************************************************************************)
(* Whenever no call is halfway through its write-backs, the current       *)
(* directory is live, every live directory's "." is itself and its ".."  *)
(* is a live directory that lists it.                                      *)
(***************************************************************************)
DirectoryTree ==
  Settled =>
    /\ currentSector \in LiveDirs
    /\ \A d \in LiveDirs :
         /\ DirFind(dirs[d], Dot) = d
         /\ d # FS!DirectorySector =>
              /\ DirFind(dirs[d], DotDot) \in LiveDirs
              /\ d \in SubdirSectors(DirFind(dirs[d], DotDot))

(***************************************************************************)
(* No ASSERT of the kernel fires: Deallocate finds every bit it clears    *)
(* set, and CloseSyscall finds the system entry it frees.                  *)
(***************************************************************************)
NoAbort == ~aborted

(***************************************************************************)
(* filesys_lock is held only inside a call: every path of OpenSyscall     *)
(* (its five refusals, the end of Create and OpenRegister), MakeDirectory, *)
(* ChangeDirectory and CloseSyscall that took it releases it before the   *)
(* return, so the holder is always a thread whose call is still running   *)
(* and a thread blocked in filesys_lock->P() waits only for that call.    *)
(***************************************************************************)
LockHeldInCall == lock # NoThread => pc[lock] # "idle"
=============================================================================
