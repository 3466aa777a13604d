--------------------------- MODULE AddrSpaceLoad ---------------------------
(***************************************************************************)
(* How the AddrSpace constructor (userprog/addrspace.cc) lays a NOFF       *)
(* executable out in physical memory: numPages from the segment sizes and *)
(* UserStackSize, one GetEmptyFrame(AS_ORDERED) per page (each frame       *)
(* bzero'd by FrameProvider), then ReadAtVirtual for the code and the      *)
(* initialised data, which writes byte by byte through DoTranslatiton and *)
(* WriteMachineMem.  Everything here is an operator; mem is                *)
(* machine->mainMemory, a function from physical addresses to bytes.      *)
(*                                                                         *)
(* A header is [code, initData, uninitData], each [virtualAddr, size,      *)
(* inFileAddr].  The executable's byte at position p is FileByte(p) = p,  *)
(* so every loaded byte names the place of the file it came from.         *)
(***************************************************************************)
EXTENDS Integers, Sequences, Functions, FrameProvider

CONSTANTS
  PageSize,        \* machine.h (SectorSize)
  UserStackSize,   \* addrspace.h
  Headers          \* NOFF headers of the executables on disk

Segments == [virtualAddr : Nat, size : Nat, inFileAddr : Nat]
ASSUME Headers \subseteq [code : Segments, initData : Segments, uninitData : Segments]

MemorySize == NumPhysPages * PageSize
Addrs == 0..(MemorySize - 1)

FileByte(p) == p

\* The exception DoTranslatiton reports, or "none" with the address.
Exc(e) == [exc |-> e, phys |-> -1]

(***************************************************************************)
(* The pageTable loop of the constructor: numPages calls of               *)
(* GetEmptyFrame(AS_ORDERED), each the first clear bit of the map (Find   *)
(* marks it), or -1 once the map is full.                                 *)
(***************************************************************************)
RECURSIVE OrderedFrames(_, _)
OrderedFrames(alloc, n) ==
  IF n = 0 THEN << >>
  ELSE LET g == GetEmptyFrame(AS_ORDERED, alloc, 0)
       IN  <<g.frame>> \o OrderedFrames(g.alloc, n - 1)

\* Mutation of ZeroFrames: GetEmptyFrame without its bzero.
ZeroFramesNone(mem, pt) == mem

\* The bzero of GetEmptyFrame for every frame it returned (selectedFrame
\* >= 0): the whole page is cleared before anything is loaded into it.
ZeroFrames(mem, pt) ==
  [a \in DOMAIN mem |-> IF a \div PageSize \in Range(pt) THEN 0 ELSE mem[a]]

\* numPages = divRoundUp(code + initData + uninitData + UserStackSize,
\* PageSize); forkexec.cc's CheckPhysicalSpace computes the same.
NumPages(h) ==
  LET size == h.code.size + h.initData.size + h.uninitData.size + UserStackSize
  IN  (size + PageSize - 1) \div PageSize

(***************************************************************************)
(* DoTranslatiton(virtAddr, ...): vpn and offset; AddressError past the   *)
(* page table; every entry is valid; BusError for a frame not below        *)
(* NumPhysPages, which the -1 of a full map is once stored in the          *)
(* unsigned physicalPage.                                                  *)
(***************************************************************************)
DoTranslatiton(va, pt) ==
  LET vpn == va \div PageSize
  IN  IF vpn >= Len(pt) THEN Exc("AddressError")
      ELSE IF pt[vpn + 1] \notin Frames THEN Exc("BusError")
      ELSE [exc |-> "none", phys |-> pt[vpn + 1] * PageSize + (va % PageSize)]

(***************************************************************************)
(* WriteMachineMem: on an exception, machine->RaiseException, whose       *)
(* ExceptionHandler does nothing for a non-system-call exception, and      *)
(* FALSE, which ReadAtVirtual ignores; else the byte is stored.           *)
(***************************************************************************)
WriteMachineMem(mem, addr, value, pt) ==
  LET tr == DoTranslatiton(addr, pt)
  IN  IF tr.exc # "none" THEN mem
      ELSE [mem EXCEPT ![tr.phys] = value]

\* Mutation of ReadAtVirtual: the loop runs to i <= numBytes, storing the
\* byte past the segment from tempBuffer[numBytes].
RECURSIVE ReadAtVirtualOver(_, _, _, _, _)
ReadAtVirtualOver(mem, va, n, pos, pt) ==
  IF n < 0 THEN mem
  ELSE ReadAtVirtualOver(WriteMachineMem(mem, va, FileByte(pos), pt),
                         va + 1, n - 1, pos + 1, pt)

\* ReadAtVirtual(executable, virtualaddr, numBytes, position, ...): ReadAt
\* into tempBuffer, then WriteMachineMem for i = 0 .. numBytes - 1.
RECURSIVE ReadAtVirtual(_, _, _, _, _)
ReadAtVirtual(mem, va, n, pos, pt) ==
  IF n = 0 THEN mem
  ELSE ReadAtVirtual(WriteMachineMem(mem, va, FileByte(pos), pt),
                     va + 1, n - 1, pos + 1, pt)

\* A segment copied in when its size is positive.
LoadSegment(mem, s, pt) ==
  IF s.size > 0 THEN ReadAtVirtual(mem, s.virtualAddr, s.size, s.inFileAddr, pt)
  ELSE mem

(***************************************************************************)
(* The constructor from the size computation to the data segment, on the  *)
(* frame map alloc and the memory mem: the page table, the map after it,  *)
(* and the memory after the bzeros and the two ReadAtVirtual calls.       *)
(***************************************************************************)
LoadAddrSpace(h, alloc, mem) ==
  LET n  == NumPages(h)
      pt == OrderedFrames(alloc, n)
      m0 == ZeroFrames(mem, pt)
  IN  [pageTable |-> pt,
       alloc |-> alloc \cup (Range(pt) \cap Frames),
       mem |-> LoadSegment(LoadSegment(m0, h.code, pt), h.initData, pt)]

-----------------------------------------------------------------------------
\* The byte a program expects at virtual address va when it starts: its
\* code or initialised data from the file, else zero (uninitialised data,
\* the stack and the rest of the last page).
Expected(h, va) ==
  LET In(s) == s.size > 0 /\ va \in s.virtualAddr..(s.virtualAddr + s.size - 1)
  IN  CASE In(h.initData) -> FileByte(h.initData.inFileAddr + va - h.initData.virtualAddr)
        [] In(h.code)     -> FileByte(h.code.inFileAddr + va - h.code.virtualAddr)
        [] OTHER          -> 0

(***************************************************************************)
(* Loading h on the map alloc over the memory mem gives the program its   *)
(* whole image, every byte of its numPages pages as Expected, at the      *)
(* frame its page table names; and leaves every frame outside its page    *)
(* table as it was.                                                        *)
(***************************************************************************)
ImageLoaded(h, alloc, mem) ==
  LET r  == LoadAddrSpace(h, alloc, mem)
      pt == r.pageTable
  IN  /\ \A va \in 0..(NumPages(h) * PageSize - 1) :
           LET f == pt[va \div PageSize + 1]
           IN  f \in Frames /\ r.mem[f * PageSize + (va % PageSize)] = Expected(h, va)
      /\ \A a \in Addrs : a \div PageSize \notin Range(pt) => r.mem[a] = mem[a]
=============================================================================
