CONSTANTS
  NumDirect = 3
  SectorSize = 2
  NumSectors = 20
  NumDirEntries = 3
  DirectoryFileSize = 4
  Names = {a, b}
  FileSizes <- MCFileSizes

SPECIFICATION Spec

INVARIANT TypeOK
INVARIANT SectorOwnership
INVARIANT DeallocateSafe
INVARIANT TranslationRoundTrip
INVARIANT DirectoryTree
INVARIANT CreateOutcome
PROPERTY AbstractSpec
