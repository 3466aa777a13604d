CONSTANTS
  NumDirect = 3
  SectorSize = 2
  NumSectors = 28
  NumDirEntries = 3
  DirectoryFileSize = 4
  Names = {a}
  FileSizes <- MaxFileSizes

SPECIFICATION Spec

INVARIANT TranslationRoundTrip
