SPECIFICATION Spec
CONSTANTS
  Thread = {t1, t2}
  NULL = NULL
  File <- MCFile
  NumSectors = 9
  SectorSize = 2
  NumDirect = 3
  NumDirEntries = 2
  CharSize = 256
  Name = {f, g}
  Size = {0, 3, 5}
  Chunk = {2}
  MaxLength = 4
  MaxCreates = 3
SYMMETRY Symmetry
   
PROPERTY HeadersKept
CHECK_DEADLOCK FALSE
