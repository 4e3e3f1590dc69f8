SPECIFICATION Spec
CONSTANTS
  Thread = {t1}
  NULL = NULL
  File <- MCFile
  NumSectors = 10
  SectorSize = 2
  NumDirect = 3
  NumDirEntries = 2
  CharSize = 256
  Name = {f, g}
  Size = {0, 3, 5}
  Chunk = {2}
  MaxLength = 6
  MaxCreates = 3
SYMMETRY Symmetry
INVARIANT ByteToSectorInFile
CHECK_DEADLOCK FALSE
