------------------------- MODULE AbstractFileStore -------------------------
(***************************************************************************)
(* What the storage engine promises (spec sections 3, 4.1 and 4.3),        *)
(* without sectors: a tree of directories holding files of a given size,   *)
(* a current directory and a count of free sectors.  An object costs its  *)
(* header sector plus the data and index sectors of its tier layout:      *)
(*   direct          n <= D          : n                                   *)
(*   single indirect n <= 2D-1       : n + 1                               *)
(*   double indirect                 : n + 2 + ceil((n - (2D-2)) / D)      *)
(* and an operation either takes effect completely or changes nothing.    *)
(***************************************************************************)
EXTENDS Integers, FiniteSets

CONSTANTS NumDirect, SectorSize, NumSectors, Names, FileSizes,
          NumDirEntries, DirectoryFileSize

VARIABLES
  tree,    \* directory id -> (name -> [kind, size] or [kind, id])
  parent,  \* directory id -> the directory id of its ".."
  cwd,     \* current directory id
  free     \* number of free sectors

DirIds == 0..(NumSectors - 1)
RootId == 1

Ceil(a, b) == (a + b - 1) \div b

\* The largest file the tier table of spec section 3 accepts: a request
\* of more than 2D-1+D^2 sectors fails as too large.
MaxDataSectors == 2 * NumDirect - 1 + NumDirect * NumDirect

Cost(size) ==
  LET n == Ceil(size, SectorSize)
      D == NumDirect
  IN  1 + CASE n <= D         -> n
            [] n <= 2 * D - 1 -> n + 1
            [] OTHER          -> n + 2 + Ceil(n - (2 * D - 2), D)

Fits(size) == Ceil(size, SectorSize) <= MaxDataSectors

FileEntry(size) == [kind |-> "file", size |-> size]
DirEntry(id)    == [kind |-> "dir", id |-> id]

\* "." and ".." take two of the NumDirEntries slots of every directory.
CanCreate(name, size) ==
  /\ name \notin DOMAIN tree[cwd]
  /\ Cardinality(DOMAIN tree[cwd]) + 2 < NumDirEntries
  /\ Fits(size)
  /\ free >= Cost(size)

Init ==
  /\ tree = [d \in {RootId} |-> << >>]
  /\ parent = [d \in {RootId} |-> RootId]
  /\ cwd = RootId
  /\ free = NumSectors - Cost(NumSectors \div 8) - Cost(DirectoryFileSize)

AddEntry(name, e) ==
  [n \in DOMAIN tree[cwd] \cup {name} |-> IF n = name THEN e ELSE tree[cwd][n]]

Create(name, size) ==
  /\ CanCreate(name, size)
  /\ tree' = [tree EXCEPT ![cwd] = AddEntry(name, FileEntry(size))]
  /\ free' = free - Cost(size)
  /\ UNCHANGED <<parent, cwd>>

MakeDirectory(name) ==
  /\ CanCreate(name, DirectoryFileSize)
  /\ \E id \in DirIds \ DOMAIN tree :
       /\ tree' = [d \in DOMAIN tree \cup {id} |->
                     IF d = cwd THEN AddEntry(name, DirEntry(id))
                     ELSE IF d = id THEN << >> ELSE tree[d]]
       /\ parent' = [d \in DOMAIN parent \cup {id} |-> IF d = id THEN cwd ELSE parent[d]]
  /\ free' = free - Cost(DirectoryFileSize)
  /\ UNCHANGED cwd

ChangeDirectory(name) ==
  /\ \/ name = "." /\ UNCHANGED cwd
     \/ name = ".." /\ cwd' = parent[cwd]
     \/ /\ name \in DOMAIN tree[cwd]
        /\ tree[cwd][name].kind = "dir"
        /\ cwd' = tree[cwd][name].id
  /\ UNCHANGED <<tree, parent, free>>

RemoveFile(name) ==
  /\ name \in DOMAIN tree[cwd]
  /\ tree[cwd][name].kind = "file"
  /\ tree' = [tree EXCEPT ![cwd] = [n \in DOMAIN @ \ {name} |-> @[n]]]
  /\ free' = free + Cost(tree[cwd][name].size)
  /\ UNCHANGED <<parent, cwd>>

RemoveDirectory(name) ==
  /\ name \in DOMAIN tree[cwd]
  /\ tree[cwd][name].kind = "dir"
  /\ LET id == tree[cwd][name].id
     IN  /\ tree[id] = << >>
         /\ tree' = [d \in DOMAIN tree \ {id} |->
                       IF d = cwd THEN [n \in DOMAIN tree[cwd] \ {name} |-> tree[cwd][n]]
                       ELSE tree[d]]
         /\ parent' = [d \in DOMAIN parent \ {id} |-> parent[d]]
  /\ free' = free + Cost(DirectoryFileSize)
  /\ UNCHANGED cwd

Next ==
  \/ \E n \in Names, s \in FileSizes : Create(n, s)
  \/ \E n \in Names : MakeDirectory(n)
  \/ \E n \in Names \cup {".", ".."} : ChangeDirectory(n)
  \/ \E n \in Names : RemoveFile(n) \/ RemoveDirectory(n)

Spec == Init /\ [][Next]_<<tree, parent, cwd, free>>
=============================================================================
