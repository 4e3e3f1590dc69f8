----------------------------- MODULE FileSystem -----------------------------
(***************************************************************************)
(* FileSystem::Create, Open and Remove (filesys/filesys.cc) and OpenFile's *)
(* Read and Write (filesys/openfile.cc) on one disk, by several threads,   *)
(* under the readers-writers lock of module RWLock.                        *)
(*                                                                         *)
(* An operation reads what it needs from the disk, computes, and then      *)
(* writes sector after sector; a thread may lose the CPU at every disk     *)
(* access.  op[t] is where thread t is: after each read it keeps the copy  *)
(* it read, and todo is the list of sector writes it has still to make.    *)
(* Every write goes through SynchDisk::WriteSector, which module SynchDisk *)
(* shows to be atomic; the data sectors of one transfer are written in one *)
(* step, as no property is about data.                                     *)
(*                                                                         *)
(* All files are in the root directory, whose table fits in one sector, as *)
(* does the free map; their headers are in sectors 0 and 1, their contents *)
(* in 2 and 3.                                                             *)
(***************************************************************************)
EXTENDS RWLock, Storage

CONSTANTS Name, Size,    \* file names, and the sizes files are created with
          Chunk,         \* how many bytes one Write hands over
          MaxLength,     \* bound: no Write goes beyond this offset
          MaxCreates     \* bound: how often Create is called

ASSUME FileSystemAssumption == File = Sector

VARIABLES disk,      \* sector -> block
          vis_num,   \* SynchDisk::vis_num, how often each file is open
          handle,    \* the OpenFile of each thread: its own copy of the header
          op,        \* the operation each thread is in
          shared,    \* history: some file was open twice at the same time
          created    \* how often Create was called

history == <<shared, created>>
fsVars == <<disk, vis_num, handle, op, history>>
fileVars == <<rwVars, fsVars>>

None == [kind |-> "none"]
Closed == [kind |-> "closed"]

MapSector == 2
DirSector == 3
System == 0 .. 3

freeMap == disk[MapSector].marked
table == disk[DirSector].table
Data == [kind |-> "data"]
MapBlock(m) == [kind |-> "map", marked |-> m]
DirBlock(d) == [kind |-> "dir", table |-> d]
Write(s, b) == [sectors |-> {s}, block |-> b]

SystemHeader(s, size) ==
    [NoHeader EXCEPT !.numBytes = size, !.numSectors = 1,
                     !.dataSectors = [@ EXCEPT ![0] = s + 2], !.sectorNumber = s]

\* FileSystem(TRUE): the disk is formatted.
Format ==
    [s \in Sector |-> CASE s \in {0, 1}    -> SystemHeader(s, SectorSize)
                        [] s = MapSector -> MapBlock(System)
                        [] s = DirSector -> DirBlock([n \in {} |-> 0])
                        [] OTHER         -> Data]

Init ==
    /\ LockInit
    /\ disk = Format
    /\ vis_num = [s \in Sector |-> 0]
    /\ handle = [t \in Thread |-> Closed]
    /\ op = [t \in Thread |-> None]
    /\ shared = FALSE
    /\ created = 0

Goto(t, o) == op' = [op EXCEPT ![t] = o]

\* The file system "assumes there is no concurrent access": an operation on
\* the directory or the free map starts only when no other one is under way.
\* Reads and writes inside a file go on meanwhile.
Alone(t) == \A u \in Thread \ {t} : op[u].kind \in {"none", "data"}

Idle(t) == Outside(t) /\ op[t] = None

\* Between its metadata writes an operation must not be interrupted.
Quiet == \A t \in Thread : op[t].kind # "flush"

\* Nachos stops, by a failed assertion or by Halt, and is run again: all that
\* was in memory is gone.
Reset(d) ==
    /\ reading' = [t \in Thread |-> NULL] /\ writing' = [t \in Thread |-> NULL]
    /\ vis_num' = [s \in Sector |-> 0]
    /\ handle' = [t \in Thread |-> Closed]
    /\ op' = [t \in Thread |-> None]
    /\ disk' = d
    /\ UNCHANGED history

\* "If Nachos exits in the middle of an operation that modifies the file
\* system, it may corrupt the disk": then the disk is formatted.
Stop == Reset(IF Quiet THEN disk ELSE Format)

\* An access through an entry that holds no sector goes wherever the memory
\* said, or fails an assertion: nothing is claimed about that disk either.
WildAccess == Reset(Format)

\* The thread has the sector writes of todo before it.
Writing(t, todo) ==
    Goto(t, IF todo = <<>> THEN None
            ELSE [kind |-> IF \E i \in DOMAIN todo : todo[i].sectors \cap {MapSector, DirSector} # {}
                           THEN "flush" ELSE "data",
                  todo |-> todo])

\* The next write.  After its last one an operation on an OpenFile calls
\* ReaderOut or WriteDone.
Flush(t) ==
    /\ op[t].kind \in {"flush", "data"}
    /\ LET w == Head(op[t].todo) IN
       IF -1 \in w.sectors THEN WildAccess
       ELSE /\ disk' = [s \in Sector |-> IF s \in w.sectors THEN w.block ELSE disk[s]]
            /\ Writing(t, Tail(op[t].todo))
            /\ IF Outside(t) \/ Tail(op[t].todo) # <<>> THEN UNCHANGED rwVars
               ELSE EndRead(t) \/ EndWrite(t)
            /\ UNCHANGED <<vis_num, handle, history>>

-----------------------------------------------------------------------------
(* FileSystem::Create                                                       *)

CreateLookup(t, n, size) ==
    /\ Idle(t) /\ Alone(t)
    /\ created < MaxCreates /\ created' = created + 1
    /\ n \notin DOMAIN table
    /\ Goto(t, [kind |-> "create", name |-> n, size |-> size, dir |-> table])
    /\ UNCHANGED <<rwVars, disk, vis_num, handle, shared>>

\* Mutant: the directory is written before the header.
CreateWrites_DirFirst(a, dir) ==
    <<Write(DirSector, DirBlock(dir)), Write(a.hdr.sectorNumber, a.hdr),
      Write(MapSector, MapBlock(a.map))>>
CreateWrites(a, dir) ==
    <<Write(a.hdr.sectorNumber, a.hdr), Write(DirSector, DirBlock(dir)),
      Write(MapSector, MapBlock(a.map))>>

\* The free map is read after the directory; a failure leaves the disk alone.
CreateAllocate(t) ==
    /\ op[t].kind = "create"
    /\ LET sector == Found(freeMap, 1)[1]
           a      == Allocate(freeMap \cup {sector}, op[t].size, sector)
           index  == IF a.index = <<>> THEN <<>>
                     ELSE <<Write(a.hdr.dataSectors[NumDirect - 1],
                                  [kind |-> "index", idx |-> a.index])>>
       IN  IF sector = -1 \/ ~HasRoom(op[t].dir) \/ a.outcome = "full"
           THEN Goto(t, None) /\ UNCHANGED <<rwVars, disk, vis_num, handle, history>>
           ELSE IF a.outcome = "abort" THEN Stop
           ELSE /\ Writing(t, index \o CreateWrites(a, Add(op[t].dir, op[t].name, sector)))
                /\ UNCHANGED <<rwVars, disk, vis_num, handle, history>>

(* FileSystem::Open and ~OpenFile                                           *)

OpenLookup(t, n) ==
    /\ Idle(t) /\ Alone(t)
    /\ handle[t] = Closed
    /\ n \in DOMAIN table
    /\ Goto(t, [kind |-> "open", sector |-> table[n]])
    /\ UNCHANGED <<rwVars, disk, vis_num, handle, history>>

OpenHeader(t) ==
    /\ op[t].kind = "open"
    /\ LET h == disk[op[t].sector] IN
       /\ handle' = [handle EXCEPT ![t] = [kind |-> "open", hdr |-> h]]
       /\ vis_num' = [vis_num EXCEPT ![h.sectorNumber] = @ + 1]
       /\ shared' = (shared \/ vis_num[h.sectorNumber] > 0)
    /\ Goto(t, None)
    /\ UNCHANGED <<rwVars, disk, created>>

Close(t) ==
    /\ Idle(t) /\ handle[t] # Closed
    /\ vis_num' = [vis_num EXCEPT ![handle[t].hdr.sectorNumber] = @ - 1]
    /\ handle' = [handle EXCEPT ![t] = Closed]
    /\ UNCHANGED <<rwVars, disk, op, history>>

(* FileSystem::Remove                                                       *)

\* Somebody has the file open.
InUse(sector) == vis_num[sector] # 0

\* Refused while the file is open.
RemoveLookup(t, n) ==
    /\ Idle(t) /\ Alone(t)
    /\ n \in DOMAIN table /\ ~InUse(table[n])
    /\ Goto(t, [kind |-> "remove", name |-> n, dir |-> table])
    /\ UNCHANGED <<rwVars, disk, vis_num, handle, history>>

RemoveFree(t) ==
    /\ op[t].kind = "remove"
    /\ LET sector == op[t].dir[op[t].name]
           freed  == Sectors(disk, disk[sector])
       IN  IF freed \subseteq IF disk[sector].numSectors < NumDirect THEN freeMap ELSE Sector
           THEN /\ Writing(t, <<Write(MapSector, MapBlock(freeMap \ (freed \cup {sector}))),
                              Write(DirSector, DirBlock(Remove(op[t].dir, op[t].name)))>>)
                /\ UNCHANGED <<rwVars, disk, vis_num, handle, history>>
           ELSE Stop

-----------------------------------------------------------------------------
(* OpenFile::Read and Write, between ReaderIn and ReaderOut, WriteBegin and *)
(* WriteDone.  Both end with a write of the header copy they hold.          *)

HeaderWrite(h) == <<Write(h.sectorNumber, h)>>

Covered(d, h, position, n) ==
    LET first == position \div SectorSize
        last  == (position + n - 1) \div SectorSize
    IN  [i \in 1 .. last - first + 1 |-> ByteToSector(d, h, (first + i - 1) * SectorSize)]

\* The writes of WriteAt once the file is long enough.  A partly written
\* sector is read first, and ReadAt writes the header back.
Transfer(h, position, n) ==
    LET data == Covered(disk, h, position, n)
        part == position % SectorSize # 0 \/ (position + n) % SectorSize # 0
    IN  (IF part THEN HeaderWrite(h) ELSE <<>>)
        \o <<[sectors |-> Range(data), block |-> Data]>> \o HeaderWrite(h)

\* ReaderIn, ReadAt of the whole file: an empty file has its sector 0 read.
Read(t) ==
    /\ Idle(t) /\ handle[t] # Closed
    /\ LET h == handle[t].hdr IN
       IF -1 \in Range(Covered(disk, h, 0, Max({h.numBytes, 1}))) THEN WildAccess
       ELSE /\ StartRead(t, h.sectorNumber)
            /\ Writing(t, HeaderWrite(h))
            /\ UNCHANGED <<disk, vis_num, handle, history>>

\* Seek to the start of the file or to its end, WriteBegin, WriteAt.
WriteFrom(t, position, n) ==
    /\ Idle(t) /\ handle[t] # Closed
    /\ position \in {0, handle[t].hdr.numBytes} /\ position + n <= MaxLength
    /\ StartWrite(t, handle[t].hdr.sectorNumber)
    /\ IF position + n > handle[t].hdr.numBytes
       THEN Alone(t) /\ Goto(t, [kind |-> "extend", position |-> position, n |-> n])
       ELSE Writing(t, Transfer(handle[t].hdr, position, n))
    /\ UNCHANGED <<disk, vis_num, handle, history>>

\* Mutant: the OpenFile keeps the header it had.
Grown_Stale(t, new) == handle
Grown(t, new) == [handle EXCEPT ![t].hdr = new]

\* Extend's result is not looked at.
ExtendFile(t) ==
    /\ op[t].kind = "extend"
    /\ LET h    == handle[t].hdr
           more == op[t].position + op[t].n - h.numBytes
           new  == Extend(freeMap, h, more)
       IN  /\ handle' = Grown(t, new)
           /\ Writing(t, HeaderWrite(new)
                         \o <<Write(MapSector, MapBlock(ExtendMap(freeMap, h, more)))>>
                         \o Transfer(new, op[t].position, op[t].n))
    /\ UNCHANGED <<rwVars, disk, vis_num, history>>

\* Halt, with no operation on the metadata under way.
Halt == op # [t \in Thread |-> None] /\ Quiet /\ Stop

Next == Halt \/
    \E t \in Thread :
        \/ \E n \in Name : \/ \E size \in Size : CreateLookup(t, n, size)
                           \/ OpenLookup(t, n) \/ RemoveLookup(t, n)
        \/ CreateAllocate(t) \/ OpenHeader(t) \/ Close(t)
        \/ RemoveFree(t) \/ Flush(t)
        \/ Read(t) \/ ExtendFile(t)
        \/ \E p \in 0 .. MaxLength, n \in Chunk : WriteFrom(t, p, n)

Spec == Init /\ [][Next]_fileVars

-----------------------------------------------------------------------------
(* Properties.                                                              *)

Holes(d, h) == -1 \in Sectors(d, h)
Owned(d, h) == {h.sectorNumber} \cup (Sectors(d, h) \ {-1})
Header(n) == disk[table[n]]
Opened == {t \in Thread : handle[t] # Closed}

FSTypeOK ==
    /\ disk[MapSector].marked \subseteq Sector
    /\ Range(table) \subseteq Sector \ System
    /\ vis_num \in [Sector -> 0 .. Cardinality(Thread)]
    /\ reading \in [Thread -> Sector \cup {NULL}] /\ writing \in [Thread -> Sector \cup {NULL}]
    /\ \A t \in Opened : handle[t].hdr.sectorNumber \in Sector \ System

\* At every moment, between any two sector writes of Create, Remove and Write,
\* a name in the directory leads to a header that knows its own sector: Nachos
\* can stop anywhere and no name is left pointing at garbage.
EntriesHaveHeaders ==
    \A n \in DOMAIN table : Header(n).kind = "hdr" /\ Header(n).sectorNumber = table[n]

\* No sector belongs to two files, nor to a file and the file system itself,
\* whether ownership is read from the disk or from the header copy that an
\* OpenFile holds.
FilesDisjoint ==
    LET named == {n \in DOMAIN table : Header(n).kind = "hdr"}
        owner == {<<table[n], Owned(disk, Header(n))>> : n \in named}
                 \cup {<<handle[t].hdr.sectorNumber, Owned(disk, handle[t].hdr)>> : t \in Opened}
    IN  \A a, b \in owner :
            /\ a[2] \cap System = {}
            /\ a[1] # b[1] => a[2] \cap b[2] = {}

\* Whenever no operation is writing metadata, the free map marks every sector
\* in use; and unless some file was open twice at once, it marks nothing else:
\* Create, Write and Remove neither leak a sector nor free one too many.
FreeMapExact ==
    LET owned == System \cup UNION {Owned(disk, Header(n)) : n \in DOMAIN table}
    IN  Quiet => /\ owned \subseteq freeMap
                 /\ \A t \in Opened : Owned(disk, handle[t].hdr) \subseteq freeMap
                 /\ ~shared => freeMap = owned

\* vis_num counts the OpenFiles of a file, and keeps Remove from deleting it:
\* a file somebody has open is still in the directory.
OpenFilesStay ==
    /\ \A s \in Sector \ System :
          vis_num[s] = Cardinality({t \in Opened : handle[t].hdr.sectorNumber = s})
    /\ \A t \in Opened : handle[t].hdr.sectorNumber \in Range(table)

\* The directory is sound between any two sector writes: names have headers,
\* and files that are open have names.
DirectoryExact == FSTypeOK /\ EntriesHaveHeaders /\ OpenFilesStay

\* The length of a file on disk shrinks only if the file was open twice at
\* once: then ReadAt and WriteAt of one OpenFile write back a header copy from
\* before the other one's extension.
LengthKept ==
    [][\A n \in DOMAIN table \cap DOMAIN table' :
          table'[n] = table[n] /\ Header(n)'.numBytes < Header(n).numBytes => shared]_fileVars

\* A header comes to claim a sector it does not have only when the disk is
\* full: Allocate does not count the index block, and Write ignores the result
\* of Extend.
HolesOnlyWhenFull ==
    [][\A n \in DOMAIN table' :
          /\ Holes(disk', Header(n)')
          /\ ~(n \in DOMAIN table /\ Holes(disk, Header(n)))
          => NumClear(freeMap) <= Header(n)'.numSectors + 1]_fileVars

\* A header on disk loses neither length nor sectors to another operation, but
\* for the two ways above.
HeadersKept == LengthKept /\ HolesOnlyWhenFull

\* filehdr.cc:131: ByteToSector returns "which disk sector is storing a
\* particular byte within the file"; that is never a sector of the free map
\* or of the directory.
ByteToSectorInFile ==
    \A t \in Opened : \A offset \in 0 .. handle[t].hdr.numBytes - 1 :
        ByteToSector(disk, handle[t].hdr, offset) \notin System
=============================================================================
