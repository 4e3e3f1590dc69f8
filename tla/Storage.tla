------------------------------- MODULE Storage -------------------------------
(***************************************************************************)
(* What lies on the disk and how it is allocated: BitMap                   *)
(* (userprog/bitmap.cc), FileHeader (filesys/filehdr.cc) and Directory     *)
(* (filesys/directory.cc), as operators on values.                         *)
(*                                                                         *)
(* A sector holds a block: a header, an index of indirect sectors, the     *)
(* free map, a directory table, or data; a fresh disk has data only.  The  *)
(* free map is the set of marked sectors.                                  *)
(* A directory is a function from the names in use to header sectors; the  *)
(* position of an entry in the table and the entries "." and ".." are left *)
(* out, and so are access times and names of types.                        *)
(***************************************************************************)
EXTENDS Integers, Sequences, FiniteSets, FiniteSetsExt, Functions

CONSTANTS NumSectors, SectorSize,
          NumDirect,       \* entries of FileHeader::dataSectors
          NumDirEntries,   \* names a directory has room for
          CharSize         \* values of a char: 256

ASSUME StorageAssumption ==
    NumSectors > 4 /\ SectorSize \in Nat \ {0} /\ NumDirect > 1

Sector == 0 .. NumSectors - 1

divRoundUp(n, s) == (n + s - 1) \div s

-----------------------------------------------------------------------------
(* BitMap                                                                   *)

NumClear(map) == Cardinality(Sector \ map)

\* The sectors that n calls of Find return: -1 once nothing is clear.
Found(map, n) ==
    LET below(x) == Cardinality({y \in Sector \ map : y < x})
    IN  [i \in 1 .. n |-> IF i > NumClear(map) THEN -1
                          ELSE CHOOSE x \in Sector \ map : below(x) = i - 1]

\* The first run of n clear sectors.  myFind tests every offset of a
\* candidate: unless a run comes first, a candidate near the end fails the
\* assertion in Test, and for n > 1 the search never returns -1.  n = 1 is only
\* asked for when a sector is clear.
Runs(map, n) == {i \in Sector : i + n <= NumSectors /\ i .. i + n - 1 \cap map = {}}
myFind(map, n) == [j \in 1 .. n |-> Min(Runs(map, n)) + j - 1]

-----------------------------------------------------------------------------
(* FileHeader                                                               *)

NoHeader == [kind |-> "hdr", numBytes |-> 0, numSectors |-> 0,
             dataSectors |-> [i \in 0 .. NumDirect - 1 |-> -1], sectorNumber |-> 0]

\* dataSectors with the sectors of seq from entry i on.
Filled(data, i, seq) ==
    [k \in DOMAIN data |-> IF k - i + 1 \in DOMAIN seq THEN seq[k - i + 1] ELSE data[k]]

\* Allocate fails ("full"), stops Nachos ("abort"), or makes a header, a new
\* free map and perhaps an index block.
Allocate(map, fileSize, sector) ==
    LET n == divRoundUp(fileSize, SectorSize)
        \* the direct sectors, the index block and the indirect sectors
        indirect == Found(map, n + 1)
        made(secs, index) ==
            [outcome |-> "made",
             hdr |-> [NoHeader EXCEPT !.numBytes = fileSize, !.numSectors = n,
                                      !.dataSectors = Filled(@, 0, secs),
                                      !.sectorNumber = sector],
             map |-> map \cup (Range(secs) \ {-1}), index |-> index]
    IN  CASE NumClear(map) < n -> [outcome |-> "full"]
          [] n >= NumDirect    -> made(indirect, SubSeq(indirect, NumDirect + 1, n + 1))
          [] n = 0             -> made(<<>>, <<>>)
          [] Runs(map, n) = {} -> [outcome |-> "abort"]
          [] OTHER             -> made(myFind(map, n), <<>>)

\* Entry i of block b, read as an index of indirect sectors: the low byte of
\* the entry, as a signed char.  Data counts as zeroes; -1 is also whatever a
\* block of another kind holds there.
SignedChar(x) == ((x + CharSize \div 2) % CharSize) - CharSize \div 2
IndexOf(b, i) == CASE b.kind = "index" -> SignedChar(b.idx[i + 1])
                   [] b.kind = "data"  -> 0
                   [] OTHER            -> -1

ByteToSector(disk, hdr, offset) ==
    IF offset < (NumDirect - 1) * SectorSize
    THEN hdr.dataSectors[offset \div SectorSize]
    ELSE IndexOf(disk[hdr.dataSectors[NumDirect - 1]],
                 (offset - (NumDirect - 1) * SectorSize) \div SectorSize)

\* The sectors Deallocate clears.
Sectors(disk, hdr) ==
    IF hdr.numSectors < NumDirect
    THEN {hdr.dataSectors[i] : i \in 0 .. hdr.numSectors - 1}
    ELSE Range(hdr.dataSectors)
         \cup {IndexOf(disk[hdr.dataSectors[NumDirect - 1]], i) :
                  i \in 0 .. hdr.numSectors - NumDirect}

\* The header after Extend by size bytes; without enough clear sectors the
\* sizes have changed and dataSectors has not.
Extend(map, hdr, size) ==
    LET n   == divRoundUp(hdr.numBytes + size, SectorSize)
        new == n - hdr.numSectors
    IN  [hdr EXCEPT !.numBytes = @ + size, !.numSectors = n,
                    !.dataSectors = IF NumClear(map) < new THEN @
                                    ELSE Filled(@, hdr.numSectors, Found(map, new))]

\* Mutant: the new sectors are not marked.
ExtendMap_Forgets(map, hdr, size) == map
ExtendMap(map, hdr, size) ==
    LET new == divRoundUp(hdr.numBytes + size, SectorSize) - hdr.numSectors
    IN  IF NumClear(map) < new THEN map ELSE map \cup Range(Found(map, new))

-----------------------------------------------------------------------------
(* Directory                                                                *)

HasRoom(table) == Cardinality(DOMAIN table) < NumDirEntries
Add(table, name, sector) ==
    [n \in DOMAIN table \cup {name} |-> IF n = name THEN sector ELSE table[n]]
Remove(table, name) == Restrict(table, DOMAIN table \ {name})
=============================================================================
