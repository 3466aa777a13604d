----------------------------- MODULE Directory ------------------------------
(***************************************************************************)
(* The directory table of filesys/directory.cc: a bounded table of         *)
(* entries [name, sector, isDirectory], read and written whole.  That file *)
(* is not in the repository; the operators are modelled from the spec     *)
(* (section 4.2) and from how filesys.cc calls them.  A table is a         *)
(* function from names to entries; "." and ".." are ordinary entries that *)
(* count towards NumDirEntries.                                            *)
(***************************************************************************)
EXTENDS FileHeader

CONSTANT NumDirEntries   \* entries per directory table (filesys.cc)

ASSUME NumDirEntries >= 3

Dot    == "."
DotDot == ".."

Entry(sector, isDir) == [sector |-> sector, isDir |-> isDir]

DirFind(tbl, name) == IF name \in DOMAIN tbl THEN tbl[name].sector ELSE NoSector

DirAdd(tbl, name, sector, isDir) ==
  [n \in DOMAIN tbl \cup {name} |-> IF n = name THEN Entry(sector, isDir) ELSE tbl[n]]

DirCanAdd(tbl, name) ==
  name \notin DOMAIN tbl /\ Cardinality(DOMAIN tbl) < NumDirEntries

DirRemove(tbl, name) == [n \in DOMAIN tbl \ {name} |-> tbl[n]]

IsDirectory(tbl, name) == name \in DOMAIN tbl /\ tbl[name].isDir

IsEmpty(tbl) == DOMAIN tbl \subseteq {Dot, DotDot}

NewDirectoryTable(self, parent) ==
  [n \in {Dot, DotDot} |-> IF n = Dot THEN Entry(self, TRUE) ELSE Entry(parent, TRUE)]
=============================================================================
