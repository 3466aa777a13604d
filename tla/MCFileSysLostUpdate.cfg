CONSTANTS
  NumDirect = 3
  SectorSize = 2
  NumSectors = 8
  NumDirEntries = 4
  DirectoryFileSize = 2
  Names = {a, b}
  FileSizes = {1}
  t1 = t1
  t2 = t2
  p1 = p1
  p2 = p2
  Threads <- MCThreads
  Procs <- MCProcs
  ProcOf <- MCProcOf
  MaxOpenFilesInSystem = 2
  MaxOpenFilesInProcess = 2
  NoThread = NoThread
  ThreadOps <- OpsRmRace
  MaxCalls = 4
  IoCounts = {1}
  SeekOffsets = {0}

SPECIFICATION Spec

INVARIANT SectorOwnership
