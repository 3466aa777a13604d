----------------------------- MODULE FileStore ------------------------------
(***************************************************************************)
(* The naming layer of filesys/filesys.cc run one call at a time: the      *)
(* formatting constructor, Create, MakeDirectory, ChangeDirectory and      *)
(* Remove, each as one atomic action over the persisted state (free map,   *)
(* header and index sectors, directory tables, current directory).  The   *)
(* interleaving of these calls between threads is the subject of FileSys. *)
(*                                                                         *)
(* The directory table operations are in module Directory.                 *)
(***************************************************************************)
EXTENDS Directory

CONSTANTS
  Names,              \* user file and directory names (model values)
  FileSizes,          \* initial sizes, in bytes, that callers pass
  DirectoryFileSize   \* bytes of a directory table file (filesys.cc)

AllNames == Names \cup {Dot, DotDot}

FreeMapSector   == 0
DirectorySector == 1
FreeMapFileSize == NumSectors \div 8

ASSUME DirectoryFileSize >= 1

VARIABLES
  freeMap,        \* marked sectors of the persisted bitmap
  disk,           \* written header and index-block sectors -> record
  dirs,           \* directory header sector -> its persisted table
  currentSector   \* header sector of the current directory (directoryFile)

vars == <<freeMap, disk, dirs, currentSector>>

(***************************************************************************)
(* FileSystem::FileSystem(format = TRUE)                                   *)
(***************************************************************************)
FormatState ==
  LET fm0  == {FreeMapSector, DirectorySector}
      f1   == FindSeq(fm0, Required(NumSectorsOf(FreeMapFileSize)))
      map  == Allocate(FreeMapFileSize, f1)
      fm1  == fm0 \cup AllocatedSet(FreeMapFileSize, f1)
      f2   == FindSeq(fm1, Required(NumSectorsOf(DirectoryFileSize)))
      dir  == Allocate(DirectoryFileSize, f2)
      fm2  == fm1 \cup AllocatedSet(DirectoryFileSize, f2)
      dsk  == WriteAll(WriteBack(WriteBack(<< >>, FreeMapSector, map.hdr),
                                 DirectorySector, dir.hdr),
                       map.tables \o dir.tables)
  IN  [freeMap |-> fm2, disk |-> dsk]

ASSUME CanAllocate({0, 1}, FreeMapFileSize)

Init ==
  /\ freeMap = FormatState.freeMap
  /\ disk = FormatState.disk
  /\ dirs = [s \in {DirectorySector} |-> NewDirectoryTable(DirectorySector, DirectorySector)]
  /\ currentSector = DirectorySector

cwd == dirs[currentSector]

(***************************************************************************)
(* Create and MakeDirectory share their structure: find the name, Find a  *)
(* header sector, add the entry, Allocate, then write header, directory,  *)
(* free map and index blocks.  Any failure leaves the persisted state.    *)
(***************************************************************************)
CreateSucceeds(name, size) ==
  LET sector == FindSeq(freeMap, 1)[1]
  IN  /\ DirFind(cwd, name) = NoSector
      /\ sector # NoSector
      /\ DirCanAdd(cwd, name)
      /\ CanAllocate(freeMap \cup {sector}, size)

\* Mutation of NewSubdirectoryTable: ".." set to the root, as the format
\* code does for the root directory.
NewSubdirectoryTableRootParent(sector) == NewDirectoryTable(sector, DirectorySector)

\* MakeDirectory's fresh table: "." is the new sector, ".." the current
\* directory.
NewSubdirectoryTable(sector) == NewDirectoryTable(sector, currentSector)

\* The persisted effect of a successful creation of an entry of size bytes.
CreateEffect(name, size, isDir) ==
  LET sector == FindSeq(freeMap, 1)[1]
      found  == FindSeq(freeMap \cup {sector}, Required(NumSectorsOf(size)))
      a      == Allocate(size, found)
  IN  /\ freeMap' = freeMap \cup {sector} \cup AllocatedSet(size, found)
      /\ disk' = WriteAll(WriteBack(disk, sector, a.hdr), a.tables)
      /\ dirs' = [s \in DOMAIN dirs \cup (IF isDir THEN {sector} ELSE {}) |->
                    IF s = currentSector THEN DirAdd(cwd, name, sector, isDir)
                    ELSE IF s = sector THEN NewSubdirectoryTable(sector)
                    ELSE dirs[s]]

Create(name, size) ==
  /\ IF CreateSucceeds(name, size)
     THEN CreateEffect(name, size, FALSE)
     ELSE UNCHANGED <<freeMap, disk, dirs>>
  /\ UNCHANGED currentSector

MakeDirectory(name) ==
  /\ IF CreateSucceeds(name, DirectoryFileSize)
     THEN CreateEffect(name, DirectoryFileSize, TRUE)
     ELSE UNCHANGED <<freeMap, disk, dirs>>
  /\ UNCHANGED currentSector

\* Mutation of ChangeDirectory: any entry accepted, not only a directory.
ChangeDirectoryAnyEntry(name) ==
  /\ IF DirFind(cwd, name) # NoSector
     THEN currentSector' = DirFind(cwd, name)
     ELSE UNCHANGED currentSector
  /\ UNCHANGED <<freeMap, disk, dirs>>

ChangeDirectory(name) ==
  /\ IF IsDirectory(cwd, name)
     THEN currentSector' = DirFind(cwd, name)
     ELSE UNCHANGED currentSector
  /\ UNCHANGED <<freeMap, disk, dirs>>

(***************************************************************************)
(* FileSystem::Remove: refuse a missing name or a non-empty directory;     *)
(* otherwise Deallocate the header's tree, Clear the header sector, drop   *)
(* the entry and write free map and directory back.  RemoveSyscall never  *)
(* passes "." or "..", so name ranges over Names.                         *)
(***************************************************************************)
RemoveSucceeds(name) ==
  /\ DirFind(cwd, name) # NoSector
  /\ IsDirectory(cwd, name) => IsEmpty(dirs[DirFind(cwd, name)])

Remove(name) ==
  LET sector == DirFind(cwd, name)
  IN  /\ IF RemoveSucceeds(name)
         THEN /\ freeMap' = Deallocate(disk, freeMap, disk[sector]).map \ {sector}
              /\ dirs' = [s \in DOMAIN dirs \ {sector} |->
                            IF s = currentSector THEN DirRemove(cwd, name) ELSE dirs[s]]
         ELSE UNCHANGED <<freeMap, dirs>>
      /\ UNCHANGED <<disk, currentSector>>

Next ==
  \/ \E n \in Names, s \in FileSizes : Create(n, s)
  \/ \E n \in Names : MakeDirectory(n)
  \/ \E n \in AllNames : ChangeDirectory(n)
  \/ \E n \in Names : Remove(n)

Spec == Init /\ [][Next]_vars

-----------------------------------------------------------------------------
(***************************************************************************)
(* Views used by the properties.                                           *)
(***************************************************************************)
\* Header sectors of every live object: the two bootstrap files and every
\* entry of every live directory.
LiveHeaders ==
  {FreeMapSector, DirectorySector} \cup
  UNION {{dirs[d][n].sector : n \in DOMAIN dirs[d] \ {Dot, DotDot}} : d \in DOMAIN dirs}

Owned(h) == {h} \cup Footprint(disk, disk[h])

TypeOK ==
  /\ freeMap \subseteq Sectors
  /\ DOMAIN disk \subseteq Sectors
  /\ DOMAIN dirs \subseteq Sectors
  /\ \A d \in DOMAIN dirs : DOMAIN dirs[d] \subseteq AllNames
  /\ currentSector \in DOMAIN dirs

(***************************************************************************)
(* Sector ownership (spec I1, I2, I3): the sets of sectors owned by live   *)
(* objects (header, data and index blocks, as Deallocate would walk them  *)
(* from disk) are pairwise disjoint, contain only real sectors, and their *)
(* union is exactly the set of marked bits: no sector is leaked by Remove *)
(* or by a failed Create, and none is shared.                             *)
(***************************************************************************)
SectorOwnership ==
  /\ freeMap = UNION {Owned(h) : h \in LiveHeaders}
  /\ NoSector \notin UNION {Owned(h) : h \in LiveHeaders}
  /\ \A h1, h2 \in LiveHeaders : h1 # h2 => Owned(h1) \cap Owned(h2) = {}

(***************************************************************************)
(* Deallocate never trips one of its ASSERT(freeMap->Test(..)) checks on  *)
(* any live file, including the double-indirect ones whose last level-2   *)
(* block is full (the block sector is cleared twice, once unasserted).    *)
(***************************************************************************)
DeallocateSafe ==
  \A h \in LiveHeaders \ {FreeMapSector, DirectorySector} :
    Deallocate(disk, freeMap, disk[h]).ok

(***************************************************************************)
(* Translation round trip: ByteToSector, reading index blocks back from    *)
(* disk, maps the numSectors data offsets of every live file to distinct   *)
(* sectors the file owns, none of them an index block, so every byte has  *)
(* its own sector and the index arithmetic of ByteToSector agrees with the *)
(* slot order of Allocate and Deallocate.                                  *)
(***************************************************************************)
TranslationRoundTrip ==
  \A h \in LiveHeaders :
    LET hdr == disk[h]
        ds  == DataSectors(disk, hdr)
    IN  /\ Cardinality(ds) = hdr.numSectors
        /\ ds \subseteq Footprint(disk, hdr)
        /\ Cardinality(Footprint(disk, hdr) \ ds) = Required(hdr.numSectors) - hdr.numSectors

(***************************************************************************)
(* Directory hierarchy: every live directory other than the root is        *)
(* listed by exactly one live directory, as a directory entry, and its    *)
(* ".." names that parent; the current directory is live.  Remove's       *)
(* emptiness check and MakeDirectory's use of currentSector keep this.    *)
(***************************************************************************)
DirectoryTree ==
  /\ currentSector \in DOMAIN dirs
  /\ \A d \in DOMAIN dirs :
       /\ dirs[d][Dot].sector = d
       /\ d # DirectorySector =>
            \E p \in DOMAIN dirs :
              /\ dirs[d][DotDot].sector = p
              /\ \E n \in DOMAIN dirs[p] \ {Dot, DotDot} :
                   dirs[p][n] = Entry(d, TRUE)

-----------------------------------------------------------------------------
(***************************************************************************)
(* Refinement: FileStore implements AbstractFileStore.  A directory's      *)
(* header sector is its abstract id, its ".." entry its parent, a file's  *)
(* size is its header's numBytes, and the free count is the number of     *)
(* clear bits.                                                             *)
(***************************************************************************)
AbsEntry(e) ==
  IF e.isDir THEN [kind |-> "dir", id |-> e.sector]
  ELSE [kind |-> "file", size |-> disk[e.sector].numBytes]

Abs == INSTANCE AbstractFileStore WITH
  tree   <- [d \in DOMAIN dirs |->
               [n \in DOMAIN dirs[d] \ {Dot, DotDot} |-> AbsEntry(dirs[d][n])]],
  parent <- [d \in DOMAIN dirs |-> dirs[d][DotDot].sector],
  cwd    <- currentSector,
  free   <- NumSectors - Cardinality(freeMap)

(***************************************************************************)
(* Every step of Create, MakeDirectory, ChangeDirectory and Remove is a    *)
(* step of the abstract store: a success consumes or returns exactly the  *)
(* sectors of the tier layout (conservation across Allocate/Deallocate),  *)
(* and a failure changes nothing.                                          *)
(***************************************************************************)
AbstractSpec == Abs!Spec

(***************************************************************************)
(* Create and MakeDirectory succeed exactly when the abstract store says   *)
(* they can: the NumClear() thresholds Allocate tests and its tier limits  *)
(* agree with the layout cost, so no creation is refused while it fits    *)
(* and none is attempted when it does not.                                 *)
(***************************************************************************)
CreateOutcome ==
  /\ \A n \in Names, s \in FileSizes : CreateSucceeds(n, s) <=> Abs!CanCreate(n, s)
  /\ \A n \in Names :
       CreateSucceeds(n, DirectoryFileSize) <=> Abs!CanCreate(n, DirectoryFileSize)
=============================================================================
