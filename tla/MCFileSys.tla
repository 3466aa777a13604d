----------------------------- MODULE MCFileSys ------------------------------
(***************************************************************************)
(* FileSys with two single-threaded processes.  Eight sectors leave room  *)
(* for two one-sector objects after formatting; a directory holds ".",    *)
(* ".." and both names; each process can hold two descriptors and the     *)
(* system table two names, so a process table fills while the system      *)
(* table has room.                                                        *)
(***************************************************************************)
EXTENDS FileSys

CONSTANTS t1, t2, p1, p2

MCThreads == {t1, t2}
MCProcs   == {p1, p2}
MCProcOf  == (t1 :> p1) @@ (t2 :> p2)
AllOps    == {"open", "close", "mkdir", "cd", "rm"}
\* Programs: one thread opens, reads, writes, seeks and closes; the other
\* makes every naming call.
OpsTables == (t1 :> {"open", "close", "read", "write", "lseek"}) @@ (t2 :> AllOps)
\* Programs: one thread removes, the other creates files and directories.
OpsRmRace == (t1 :> {"rm"}) @@ (t2 :> {"open", "close", "mkdir"})
\* Both threads belong to p1 and share its descriptors.
SiblingProcOf == [t \in MCThreads |-> p1]
\* Programs: one thread opens and writes, its sibling closes and removes.
OpsSiblings == (t1 :> {"open", "write"}) @@ (t2 :> {"close", "rm"})
\* Programs: both threads work on directories.
OpsDirs   == [t \in MCThreads |-> {"mkdir", "cd", "rm"}]
=============================================================================
