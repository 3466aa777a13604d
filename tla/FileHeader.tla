----------------------------- MODULE FileHeader -----------------------------
(***************************************************************************)
(* The on-disk file header (i-node) of the NachOS file system, as          *)
(* filesys/filehdr.cc implements it: the three addressing tiers, the order *)
(* in which FileHeader::Allocate asks the free map for sectors, the index  *)
(* blocks that FileSystem::WriteBackHeaders persists, the byte-to-sector   *)
(* translation of FileHeader::ByteToSector and the sequence of bitmap      *)
(* clears that FileHeader::Deallocate performs.  Everything here is an     *)
(* operator; the state machines that use them are FileStore and FileSys.  *)
(*                                                                         *)
(* A header record is [numBytes, numSectors, dataSectors] where            *)
(* dataSectors is the sequence of the slots the code filled.  An index     *)
(* block is a header record used only for its dataSectors.  The disk is a  *)
(* function from written sectors to such records; a slot that was never   *)
(* persisted reads as NoSector.                                            *)
(***************************************************************************)
EXTENDS Integers, Sequences, FiniteSets
LOCAL INSTANCE SequencesExt

CONSTANTS
  NumDirect,   \* pointer slots in one header record (NumDirect, filehdr.h)
  SectorSize,  \* bytes per sector (disk.h)
  NumSectors   \* sectors on the disk (disk.h)

ASSUME NumDirect >= 3 /\ SectorSize >= 1 /\ NumSectors >= 2

Sectors == 0..(NumSectors - 1)

\* Value of a read that leaves the persisted part of a header record, and
\* of BitMap::Find on a full map.
NoSector == -1

\* Tier limits of filehdr.h (not in the repository; values from the spec).
NumIndirect1 == 2 * NumDirect - 1
NumIndirect2 == 2 * NumDirect - 1 + NumDirect * NumDirect

\* utility.h divRoundUp for non-negative operands
DivRoundUp(a, b) == (a + b - 1) \div b

MinOf(a, b) == IF a <= b THEN a ELSE b

\* Sectors of data for a file of fileSize bytes.
NumSectorsOf(fileSize) == DivRoundUp(fileSize, SectorSize)

\* Data sectors left for the level-2 blocks of a double-indirect file, and
\* the number of level-2 (third-level in the spec's words) blocks.
SectorsRemaining(n) == n - NumIndirect1 + 1
NumL2Blocks(n)      == DivRoundUp(SectorsRemaining(n), NumDirect)

(***************************************************************************)
(* BitMap::Find, called k times in a row with no Clear in between: the k   *)
(* lowest clear bits in increasing order, then NoSector once the map is    *)
(* full.  freeMap is the set of marked sectors.                            *)
(***************************************************************************)
FindSeq(freeMap, k) ==
  LET clear == Sectors \ freeMap
      rank(s) == Cardinality({t \in clear : t < s})
  IN  [i \in 1..k |-> IF i <= Cardinality(clear)
                      THEN CHOOSE s \in clear : rank(s) = i - 1
                      ELSE NoSector]

\* Number of Find calls Allocate makes, equal to the NumClear() threshold it
\* tests first; 0 for a file too large for any tier.
Required(n) ==
  CASE n <= NumDirect    -> n
    [] n <= NumIndirect1 -> n + 1
    [] n <= NumIndirect2 -> n + 2 + NumL2Blocks(n)
    [] OTHER             -> 0

\* Mutation of CanAllocate: the double-indirect NumClear() test forgets the
\* index blocks.
CanAllocateNoIndexBlocks(freeMap, fileSize) ==
  LET n == NumSectorsOf(fileSize)
  IN  /\ n <= NumIndirect2
      /\ Cardinality(Sectors \ freeMap) >=
           (IF n > NumIndirect1 THEN n + NumL2Blocks(n) ELSE Required(n))

\* The guard of Allocate: the tier exists and NumClear() is large enough.
CanAllocate(freeMap, fileSize) ==
  LET n == NumSectorsOf(fileSize)
  IN  /\ n <= NumIndirect2
      /\ Cardinality(Sectors \ freeMap) >= Required(n)

Slice(s, from, len) == SubSeq(s, from, from + len - 1)

\* AllocateIndirection1 fills the first k slots of a fresh record.
AllocateIndirection1(found, from, k) == Slice(found, from, k)

(***************************************************************************)
(* AllocateIndirection2(numSectorsRemaining): for each level-2 block, one  *)
(* Find for the block's own sector, then AllocateIndirection1 for          *)
(* min(remaining, NumDirect) data sectors.  Every block but the last is    *)
(* full, so block i (0-based) starts at found position base+i*(D+1)+1.     *)
(* The result is the in-memory level-2 table (which may be longer than     *)
(* NumDirect: the code writes dataSectors[i] for every block) and the      *)
(* in-memory tables of the blocks.                                         *)
(***************************************************************************)
AllocateIndirection2(found, base, sr) ==
  LET blocks    == DivRoundUp(sr, NumDirect)
      tblPos(i) == base + i * (NumDirect + 1) + 1
      len(i)    == IF sr - i * NumDirect > NumDirect THEN NumDirect
                                                     ELSE sr - i * NumDirect
  IN  [ptrs |-> [i \in 1..blocks |-> found[tblPos(i - 1)]],
       ind3 |-> [i \in 1..blocks |->
                   AllocateIndirection1(found, tblPos(i - 1) + 1, len(i - 1))]]

\* Mutation of HeaderRecord: numBytes rounded up to whole sectors.
HeaderRecordRoundedBytes(fileSize, ptrs) ==
  [numBytes |-> NumSectorsOf(fileSize) * SectorSize,
   numSectors |-> NumSectorsOf(fileSize), dataSectors |-> ptrs]

HeaderRecord(fileSize, ptrs) ==
  [numBytes |-> fileSize, numSectors |-> NumSectorsOf(fileSize), dataSectors |-> ptrs]

\* An index block is a FileHeader used only as a pointer table.
IndexRecord(ptrs) == [numBytes |-> 0, numSectors |-> 0, dataSectors |-> ptrs]

(***************************************************************************)
(* FileHeader::Allocate followed by FileSystem::WriteBackHeaders, given    *)
(* the sectors Find returns (found, in call order).  Result: the header    *)
(* record and the sequence of <<sector, record>> writes of the index      *)
(* blocks, in the order WriteBackHeaders issues them.  Only defined when   *)
(* CanAllocate holds (the code returns FALSE before any Find otherwise).  *)
(***************************************************************************)
Allocate(fileSize, found) ==
  LET n == NumSectorsOf(fileSize)
      D == NumDirect
      main == SubSeq(found, 1, MinOf(n, D))
  IN  CASE n <= D ->
             [hdr |-> HeaderRecord(fileSize, main), tables |-> << >>]
        [] n <= NumIndirect1 ->
             [hdr    |-> HeaderRecord(fileSize, SubSeq(found, 1, D)),
              tables |-> << <<found[D],
                   IndexRecord(AllocateIndirection1(found, D + 1, n - D + 1))>> >>]
        [] OTHER ->
             LET ind1 == AllocateIndirection1(found, D + 1, D)
                 ind2 == AllocateIndirection2(found, 2 * D, SectorsRemaining(n))
             IN  [hdr    |-> HeaderRecord(fileSize, SubSeq(found, 1, D)),
                  tables |-> << <<found[D - 1], IndexRecord(ind1)>>,
                                <<found[D], IndexRecord(ind2.ptrs)>> >>
                             \o [i \in DOMAIN ind2.ptrs |->
                                   <<ind2.ptrs[i], IndexRecord(ind2.ind3[i])>>]]

\* The sectors an allocation marks, in Find order.
AllocatedSet(fileSize, found) == {found[i] : i \in 1..Required(NumSectorsOf(fileSize))}

(***************************************************************************)
(* FileHeader::WriteBack / synchDisk->WriteSector: one sector holds the    *)
(* two length fields and NumDirect pointers; slots the code wrote beyond   *)
(* dataSectors[NumDirect-1] are not part of the sector image.              *)
(***************************************************************************)
WriteBack(disk, sector, rec) ==
  LET img == [rec EXCEPT !.dataSectors =
                SubSeq(rec.dataSectors, 1, MinOf(Len(rec.dataSectors), NumDirect))]
  IN  [s \in DOMAIN disk \cup {sector} |-> IF s = sector THEN img ELSE disk[s]]

RECURSIVE WriteAll(_, _)
WriteAll(disk, writes) ==
  IF writes = << >> THEN disk
  ELSE WriteAll(WriteBack(disk, Head(writes)[1], Head(writes)[2]), Tail(writes))

\* FileHeader::FetchFrom(sector) then GetSector(i) (i 0-based).  A slot outside
\* the persisted record (past NumDirect, or negative) reads as NoSector: the
\* code reads whatever follows or precedes the array, never a sector of the
\* file.
GetSector(disk, sector, i) ==
  IF sector \in DOMAIN disk /\ 0 <= i /\ i < Len(disk[sector].dataSectors)
  THEN disk[sector].dataSectors[i + 1]
  ELSE NoSector

\* The header's own dataSectors[i].
Slot(hdr, i) == IF i < Len(hdr.dataSectors) THEN hdr.dataSectors[i + 1] ELSE NoSector

\* Mutation of ByteToSector: the single-indirect block indexed from
\* index - NumDirect instead of index - NumDirect + 1.
ByteToSectorOffByOne(disk, hdr, offset) ==
  LET n     == hdr.numSectors
      D     == NumDirect
      index == offset \div SectorSize
      j     == index - NumIndirect1 + 1
  IN  CASE n <= D -> Slot(hdr, index)
        [] n <= NumIndirect1 ->
             IF index < D - 1 THEN Slot(hdr, index)
             ELSE GetSector(disk, Slot(hdr, D - 1), index - D)
        [] n <= NumIndirect2 ->
             IF index < D - 2 THEN Slot(hdr, index)
             ELSE IF index < NumIndirect1 - 1
                  THEN GetSector(disk, Slot(hdr, D - 2), index - D + 2)
                  ELSE GetSector(disk, GetSector(disk, Slot(hdr, D - 1), j \div D),
                                 j % D)
        [] OTHER -> NoSector

(***************************************************************************)
(* FileHeader::ByteToSector(offset), reading index blocks from disk.       *)
(***************************************************************************)
ByteToSector(disk, hdr, offset) ==
  LET n     == hdr.numSectors
      D     == NumDirect
      index == offset \div SectorSize
      j     == index - NumIndirect1 + 1
  IN  CASE n <= D -> Slot(hdr, index)
        [] n <= NumIndirect1 ->
             IF index < D - 1 THEN Slot(hdr, index)
             ELSE GetSector(disk, Slot(hdr, D - 1), index - D + 1)
        [] n <= NumIndirect2 ->
             IF index < D - 2 THEN Slot(hdr, index)
             ELSE IF index < NumIndirect1 - 1
                  THEN GetSector(disk, Slot(hdr, D - 2), index - D + 2)
                  ELSE GetSector(disk, GetSector(disk, Slot(hdr, D - 1), j \div D),
                                 j % D)
        [] OTHER -> NoSector

(***************************************************************************)
(* FileHeader::Deallocate as the sequence of <<sector, asserted>> clears  *)
(* it performs, in order; asserted is FALSE for the one Clear the code     *)
(* makes without ASSERT(freeMap->Test(..)) (the trailing Clear(tblSector) *)
(* of the double-indirect branch).                                         *)
(***************************************************************************)
\* The level-2 block holding the file's last data sector (tblSector after
\* the loop of the double-indirect branch).
LastTable(disk, hdr) ==
  GetSector(disk, Slot(hdr, NumDirect - 1),
            (hdr.numSectors - NumIndirect1) \div NumDirect)

\* Mutation of DoubleTrailer: the trailing Clear(tblSector) left out.
DoubleTrailerNoTableClear(disk, hdr) ==
  << <<Slot(hdr, NumDirect - 2), TRUE>>, <<Slot(hdr, NumDirect - 1), TRUE>> >>

\* Mutation of DoubleTrailer: the trailing Clear(tblSector) given the
\* ASSERT(freeMap->Test(..)) its neighbours have.
DoubleTrailerAsserted(disk, hdr) ==
  << <<LastTable(disk, hdr), TRUE>>, <<Slot(hdr, NumDirect - 2), TRUE>>,
     <<Slot(hdr, NumDirect - 1), TRUE>> >>

\* The clears after the loop of the double-indirect branch: tblSector once
\* more (no ASSERT), then the single-indirect block and the level-2 table.
DoubleTrailer(disk, hdr) ==
  << <<LastTable(disk, hdr), FALSE>>, <<Slot(hdr, NumDirect - 2), TRUE>>,
     <<Slot(hdr, NumDirect - 1), TRUE>> >>

DeallocSteps(disk, hdr) ==
  LET n  == hdr.numSectors
      D  == NumDirect
      d(i) == Slot(hdr, i)
      j(i)   == i - NumIndirect1 + 1
      tbl(i) == GetSector(disk, d(D - 1), j(i) \div D)
      double(i) ==
        IF i < D - 2 THEN << <<d(i), TRUE>> >>
        ELSE IF i < NumIndirect1 - 1
             THEN << <<GetSector(disk, d(D - 2), i - D + 2), TRUE>> >>
             ELSE << <<GetSector(disk, tbl(i), j(i) % D), TRUE>> >>
                  \o (IF j(i) % D = D - 1 THEN << <<tbl(i), TRUE>> >> ELSE << >>)
  IN  CASE n <= D -> [i \in 1..n |-> <<d(i - 1), TRUE>>]
        [] n <= NumIndirect1 ->
             [i \in 1..n |-> IF i - 1 < D - 1 THEN <<d(i - 1), TRUE>>
                             ELSE <<GetSector(disk, d(D - 1), i - 1 - D + 1), TRUE>>]
             \o << <<d(D - 1), TRUE>> >>
        [] n <= NumIndirect2 ->
             FlattenSeq([i \in 1..n |-> double(i - 1)]) \o DoubleTrailer(disk, hdr)
        [] OTHER -> << >>

\* Apply the clears to the free map; ok is FALSE once an ASSERT would fire.
RECURSIVE ApplyClears(_, _)
ApplyClears(st, steps) ==
  IF steps = << >> THEN st
  ELSE LET s == Head(steps)[1]
           a == Head(steps)[2]
       IN  ApplyClears([map |-> st.map \ {s},
                        ok  |-> st.ok /\ (a => s \in st.map)], Tail(steps))

Deallocate(disk, freeMap, hdr) ==
  ApplyClears([map |-> freeMap, ok |-> TRUE], DeallocSteps(disk, hdr))

\* Every sector Deallocate would clear: the file's data and index blocks.
Footprint(disk, hdr) == {DeallocSteps(disk, hdr)[i][1] : i \in DOMAIN DeallocSteps(disk, hdr)}

\* The sectors ByteToSector yields for the file's data offsets.
DataSectors(disk, hdr) ==
  {ByteToSector(disk, hdr, k * SectorSize) : k \in 0..(hdr.numSectors - 1)}
=============================================================================
