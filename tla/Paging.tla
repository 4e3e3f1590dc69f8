------------------------------- MODULE Paging -------------------------------
(***************************************************************************)
(* What one user process finds in its memory and its files: demand paging  *)
(* with the file "virtual_memory" behind it (Translate, Bitmap::find and   *)
(* the page fault handler, without a TLB), and the system calls Read,      *)
(* Write and Close on top of both (userprog/exception.cc).                 *)
(*                                                                         *)
(* The process holds one open file; how Open and Create copy a name out of *)
(* user memory is left out.  Every call also advances the program counter, *)
(* for which see Mips.  WriteAt is taken to do what FileSystem shows.      *)
(***************************************************************************)
EXTENDS Integers, Sequences

CONSTANTS PageBytes,      \* PageSize
          Frames,         \* NumPhysPages
          VirtualPages,   \* pages of the process
          StoreAt,        \* bound: addresses the program stores to
          Buffers,        \* bound: <<address, size>> that it passes in a call
          MaxFile         \* bound: the length of the file

VARIABLES memory,    \* frames, page table, bitmap and virtual_memory
          file,      \* the OpenFile: its bytes, seekPosition, open or closed
          r2         \* the result register

pagingVars == <<memory, file, r2>>

PByte == {0, 1}
FrameOf == 0 .. Frames - 1
VAddr == 0 .. VirtualPages * PageBytes - 1
NoPage == -1

Least(a, b) == IF a < b THEN a ELSE b

-----------------------------------------------------------------------------
(* Memory.                                                                  *)

vpn(a) == a \div PageBytes
offset(a) == a % PageBytes

\* The table is searched for the page; its valid bits are not looked at.
Entries(m, p) == {f \in FrameOf : m.virtualPage[f] = p}
Resident(m, p) == Entries(m, p) # {}
FrameAt(m, p) == CHOOSE f \in Entries(m, p) : \A g \in Entries(m, p) : g <= f

\* Bitmap::find, and frame 0 when it fails.
find(m) ==
    IF \E f \in FrameOf : f \notin m.map
    THEN CHOOSE f \in FrameOf \ m.map : \A g \in 0 .. f - 1 : g \in m.map
    ELSE 0

WriteBack(m, f) ==
    [m EXCEPT !.backing = [a \in VAddr |->
        IF vpn(a) = m.virtualPage[f] THEN m.frame[f][offset(a)] ELSE @[a]]]

\* Mutant: the evicted page is lost.
PageFault_NoWriteBack(m, p) ==
    LET pos == find(m)
    IN  [m EXCEPT !.map = @ \cup {pos}, !.virtualPage[pos] = p, !.dirty[pos] = FALSE,
                  !.frame[pos] = [o \in 0 .. PageBytes - 1 |-> m.backing[p * PageBytes + o]]]
PageFault(m, p) ==
    LET pos   == find(m)
        saved == IF FrameOf \subseteq m.map /\ m.dirty[pos] THEN WriteBack(m, pos) ELSE m
    IN  [saved EXCEPT !.map = @ \cup {pos}, !.virtualPage[pos] = p, !.dirty[pos] = FALSE,
                      !.frame[pos] = [o \in 0 .. PageBytes - 1 |-> saved.backing[p * PageBytes + o]]]

\* ReadMem and WriteMem of one byte: after a fault the page is there, and the
\* byte is not transferred.
ReadMemByte(s, a) ==
    IF Resident(s.memory, vpn(a))
    THEN [s EXCEPT !.value = s.memory.frame[FrameAt(s.memory, vpn(a))][offset(a)]]
    ELSE [s EXCEPT !.memory = PageFault(@, vpn(a))]

WriteMemByte(m, a, v) ==
    IF Resident(m, vpn(a))
    THEN [m EXCEPT !.frame[FrameAt(m, vpn(a))][offset(a)] = v,
                   !.dirty[FrameAt(m, vpn(a))] = TRUE]
    ELSE PageFault(m, vpn(a))

-----------------------------------------------------------------------------
(* The process.                                                             *)

PagingInit ==
    /\ memory = [frame |-> [f \in FrameOf |-> [o \in 0 .. PageBytes - 1 |-> 0]],
                 virtualPage |-> [f \in FrameOf |-> NoPage],
                 dirty |-> [f \in FrameOf |-> FALSE],
                 map |-> {}, backing |-> [a \in VAddr |-> a % 2]]
    /\ file = [data |-> <<>>, seekPosition |-> 0, open |-> TRUE]
    /\ r2 = 0

\* A load or store of a page that is not there; the instruction is tried again.
Fault(p) ==
    /\ ~Resident(memory, p)
    /\ memory' = PageFault(memory, p)
    /\ UNCHANGED <<file, r2>>

Store(a, v) ==
    /\ Resident(memory, vpn(a))
    /\ memory' = WriteMemByte(memory, a, v)
    /\ UNCHANGED <<file, r2>>

\* The loop over the buffer; value is the local variable tmp of the handler.
ReadBuffer(buff, size, tmp) ==
    LET after[i \in 0 .. size] ==
            IF i = 0 THEN [memory |-> memory, value |-> tmp, bytes |-> <<>>]
            ELSE LET s == ReadMemByte(after[i - 1], buff + i - 1)
                 IN  [s EXCEPT !.bytes = Append(@, s.value)]
    IN  after[size]

WriteBuffer(buff, bytes) ==
    LET after[i \in 0 .. Len(bytes)] ==
            IF i = 0 THEN memory ELSE WriteMemByte(after[i - 1], buff + i - 1, bytes[i])
    IN  after[Len(bytes)]

\* OpenFile::Write at seekPosition.
FileWrite(bytes) ==
    [file EXCEPT !.data = SubSeq(@, 1, file.seekPosition) \o bytes
                          \o SubSeq(@, file.seekPosition + Len(bytes) + 1, Len(@)),
                 !.seekPosition = @ + Len(bytes)]

\* The first tmp is not initialized.
SC_Write(buff, size) ==
    /\ file.open /\ file.seekPosition + size <= MaxFile
    /\ \E tmp \in PByte :
          LET read == ReadBuffer(buff, size, tmp)
          IN  memory' = read.memory /\ file' = FileWrite(read.bytes)
    /\ UNCHANGED r2

\* Bytes of tmp_buffer behind the end of the file are not initialized; the
\* result is size even so.
Available == Len(file.data) - file.seekPosition

SC_Read(buff, size) ==
    /\ file.open
    /\ \E rest \in [1 .. size -> PByte] :
          LET n == Least(size, Available)
          IN  /\ memory' = WriteBuffer(buff, [i \in 1 .. size |->
                                IF i <= n THEN file.data[file.seekPosition + i] ELSE rest[i]])
              /\ file' = [file EXCEPT !.seekPosition = @ + n]
    /\ r2' = size

SC_Close ==
    /\ file.open
    /\ file' = [file EXCEPT !.open = FALSE]
    /\ UNCHANGED <<memory, r2>>

\* Open makes a new OpenFile for the same file.
Reopen ==
    /\ ~file.open
    /\ file' = [file EXCEPT !.open = TRUE, !.seekPosition = 0]
    /\ UNCHANGED <<memory, r2>>

PagingNext ==
    \/ \E p \in 0 .. VirtualPages - 1 : Fault(p)
    \/ \E a \in StoreAt, v \in PByte : Store(a, v)
    \/ \E b \in Buffers : SC_Write(b[1], b[2]) \/ SC_Read(b[1], b[2])
    \/ SC_Close \/ Reopen

PagingSpec == PagingInit /\ [][PagingNext]_pagingVars

-----------------------------------------------------------------------------
(* Correctness.                                                             *)

\* What the process would load from address a.
View(m, a) ==
    IF Resident(m, vpn(a)) THEN m.frame[FrameAt(m, vpn(a))][offset(a)] ELSE m.backing[a]

\* Paging does not show: whatever pages come and go, an address holds what was
\* last put there, and only a store to it or a Read into it changes it.
MemoryKept ==
    [][memory' # memory => \A a \in VAddr :
          \/ View(memory', a) = View(memory, a)
          \/ \E v \in PByte : Store(a, v) /\ View(memory', a) = v
          \/ \E b \in Buffers : a \in b[1] .. b[1] + b[2] - 1 /\ SC_Read(b[1], b[2])]_pagingVars

\* The positions of a buffer whose byte may be lost: the first byte on each
\* page, when a page of the buffer was not there as the call was made.
MayBeLost(m, buff, size) ==
    IF \A a \in buff .. buff + size - 1 : Resident(m, vpn(a)) THEN {}
    ELSE {i \in 0 .. size - 1 : i = 0 \/ offset(buff + i) = 0}

\* n bytes went between the file and the buffer, one for one.
Transferred(buff, size, n) ==
    /\ file'.seekPosition = file.seekPosition + n
    /\ \A j \in DOMAIN file.data \ (file.seekPosition + 1 .. file.seekPosition + n) :
          file'.data[j] = file.data[j]
    /\ \A i \in (0 .. n - 1) \ MayBeLost(memory, buff, size) :
          file'.data[file.seekPosition + i + 1] = View(memory', buff + i)

\* Write puts into the file, and Read into memory, the bytes of the other, one
\* for one from seekPosition on, and moves seekPosition by as many.  The kernel
\* does not repeat an access that faulted, so the first byte on a page may be
\* lost; no other byte is, even if the buffer's own pages evict each other.
TransferExact ==
    [][<<memory, file>>' # <<memory, file>> => \A b \in Buffers :
          /\ SC_Write(b[1], b[2]) => Transferred(b[1], b[2], b[2])
          /\ SC_Read(b[1], b[2]) => /\ Transferred(b[1], b[2], Least(b[2], Available))
                                    /\ file'.data = file.data]_pagingVars

\* A process finds in its memory and its file what it put there, directly or
\* through the system calls, whatever pages come and go.
MemoryExact == MemoryKept /\ TransferExact
=============================================================================
