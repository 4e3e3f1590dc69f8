------------------------------ MODULE SynchDisk ------------------------------
(***************************************************************************)
(* The synchronous disk (filesys/synchdisk.cc) on the asynchronous one     *)
(* (machine/disk.cc): ReadSector and WriteSector, the sector cache and the *)
(* completion interrupt.                                                   *)
(*                                                                         *)
(* A thread can lose the CPU only when a lock or semaphore routine turns   *)
(* interrupts back on, so the code between two such calls is one step:     *)
(* Acquire, the request, P, Release and, in WriteSector, the invalidation  *)
(* of the cache after Release.                                             *)
(*                                                                         *)
(* A sector's contents are numbered in the order in which they reach the   *)
(* disk.  The ages cnt that choose a victim when no slot is valid start    *)
(* uninitialized; the victim is then any slot.                             *)
(***************************************************************************)
EXTENDS Monitor, FiniteSets

CONSTANTS
  Sector,
  cache_size,
  lock, semaphore,  \* SynchDisk::lock, SynchDisk::semaphore
  MaxWrites         \* bound: writes per sector

ASSUME SynchDiskAssumption ==
  /\ cache_size \in Nat \ {0}
  /\ Lock = {lock} /\ Semaphore = {semaphore} /\ InitValue[semaphore] = 0
  /\ MaxWrites \in Nat

VARIABLES
  disk,       \* contents of each sector of the UNIX file
  active,     \* Disk::active
  DiskInt,    \* the number of DiskDone interrupts scheduled
  cache,      \* SynchDisk::cache
  pc,         \* where each thread is in ReadSector or WriteSector
  call,       \* the call it is in; floor is seen[sector] when the call began
  seen        \* per sector, the latest contents some finished call read or wrote

diskVars == <<disk, active, DiskInt, cache>>
callVars == <<pc, call, seen>>
allVars  == <<monitorVars, diskVars, callVars>>

Slot == 0 .. cache_size - 1

CallRecord == [op : {"ReadSector", "WriteSector"}, sector : Sector, data : Nat,
               floor : Nat]
NoCall == [op |-> "none"]

TypeOK ==
  /\ MonitorTypeOK
  /\ disk \in [Sector -> Nat]
  /\ active \in BOOLEAN
  /\ DiskInt \in Nat
  /\ cache \in [Slot -> [valid : BOOLEAN, sector : Sector, data : Nat]]
  /\ pc \in [Thread -> {"idle", "Acquire", "request", "P", "Release", "invalidate"}]
  /\ call \in [Thread -> CallRecord \cup {NoCall}]
  /\ seen \in [Sector -> Nat]

Init ==
  /\ MonitorInit
  /\ disk = [s \in Sector |-> 0]
  /\ active = FALSE
  /\ DiskInt = 0
  /\ cache \in [Slot -> {[valid |-> FALSE, sector |-> s, data |-> 0] : s \in Sector}]
  /\ pc = [t \in Thread |-> "idle"]
  /\ call = [t \in Thread |-> NoCall]
  /\ seen = [s \in Sector |-> 0]

\* Mutant: no Acquire.
AcquireLock_Skipped(t) ==
  /\ pc[t] = "Acquire"
  /\ pc' = [pc EXCEPT ![t] = "request"]
  /\ UNCHANGED <<call, seen, diskVars, monitorVars>>

Goto(t, label) == pc' = [pc EXCEPT ![t] = label]

Call(t, o, s) ==
  /\ pc[t] = "idle"
  /\ Goto(t, "Acquire")
  /\ call' = [call EXCEPT ![t] = [op |-> o, sector |-> s, data |-> 0,
                                  floor |-> seen[s]]]
  /\ UNCHANGED <<seen, diskVars, monitorVars>>

AcquireLock(t) ==
  /\ pc[t] = "Acquire"
  /\ Acquire(t, lock)
  /\ Goto(t, "request")
  /\ UNCHANGED <<call, seen, diskVars>>
-----------------------------------------------------------------------------
(* The raw disk.                                                           *)

\* ReadRequest and WriteRequest transfer the sector at once and schedule the
\* interrupt.  (Their assertion !active is DiskFree below.)
Request ==
  /\ active' = TRUE
  /\ DiskInt' = DiskInt + 1

\* Mutant: the handler does not signal.
HandleInterrupt_NoV == active' = FALSE /\ UNCHANGED monitorVars

HandleInterrupt == active' = FALSE /\ V(semaphore)

DiskDone ==
  /\ DiskInt > 0
  /\ DiskInt' = DiskInt - 1
  /\ HandleInterrupt
  /\ UNCHANGED <<disk, cache, callVars>>
-----------------------------------------------------------------------------
(* ReadSector and WriteSector.                                             *)

Valid == {i \in Slot : cache[i].valid}

Hits(s) == {i \in Valid : cache[i].sector = s}

\* The first valid slot is the one replaced; without one, the oldest.
Victim == IF Valid = {} THEN Slot ELSE {i \in Valid : \A j \in Valid : i <= j}

ReadMiss(t) ==
  /\ pc[t] = "request" /\ call[t].op = "ReadSector"
  /\ Hits(call[t].sector) = {}
  /\ Request
  /\ call' = [call EXCEPT ![t].data = disk[call[t].sector]]
  /\ \E i \in Victim :
       cache' = [cache EXCEPT ![i] = [valid  |-> TRUE, sector |-> call[t].sector,
                                      data |-> disk[call[t].sector]]]
  /\ Goto(t, "P")
  /\ UNCHANGED <<disk, seen, monitorVars>>

ReadHit(t) ==
  /\ pc[t] = "request" /\ call[t].op = "ReadSector"
  /\ \E i \in Hits(call[t].sector) :
       /\ \A j \in Hits(call[t].sector) : i <= j
       /\ call' = [call EXCEPT ![t].data = cache[i].data]
  /\ HandleInterrupt
  /\ Goto(t, "P")
  /\ UNCHANGED <<disk, DiskInt, cache, seen>>

Write(t) ==
  /\ pc[t] = "request" /\ call[t].op = "WriteSector"
  /\ disk' = [disk EXCEPT ![call[t].sector] = @ + 1]
  /\ call' = [call EXCEPT ![t].data = disk[call[t].sector] + 1]
  /\ Request
  /\ Goto(t, "P")
  /\ UNCHANGED <<cache, seen, monitorVars>>

WaitForInterrupt(t) ==
  /\ pc[t] = "P"
  /\ P(t, semaphore)
  /\ Goto(t, "Release")
  /\ UNCHANGED <<call, seen, diskVars>>

Later(a, b) == IF a < b THEN b ELSE a

Return(t) ==
  /\ Goto(t, "idle")
  /\ call' = [call EXCEPT ![t] = NoCall]
  /\ seen' = [seen EXCEPT ![call[t].sector] = Later(@, call[t].data)]

ReleaseLock(t) ==
  /\ pc[t] = "Release"
  /\ Release(t, lock)
  /\ \/ call[t].op = "ReadSector" /\ Return(t)
     \/ call[t].op = "WriteSector" /\ Goto(t, "invalidate")
                                     /\ UNCHANGED <<call, seen>>
  /\ UNCHANGED <<diskVars>>

\* Mutant: WriteSector leaves the cache alone.
Invalidate_Never(t) ==
  /\ pc[t] = "invalidate"
  /\ Return(t)
  /\ UNCHANGED <<diskVars, monitorVars>>

\* The end of WriteSector, after the lock has been released.
Invalidate(t) ==
  /\ pc[t] = "invalidate"
  /\ cache' = [i \in Slot |-> IF cache[i].sector = call[t].sector
                              THEN [cache[i] EXCEPT !.valid = FALSE]
                              ELSE cache[i]]
  /\ Return(t)
  /\ UNCHANGED <<disk, active, DiskInt, monitorVars>>
-----------------------------------------------------------------------------

ThreadStep(t) ==
  \/ AcquireLock(t) \/ ReadMiss(t) \/ ReadHit(t) \/ Write(t)
  \/ WaitForInterrupt(t) \/ ReleaseLock(t) \/ Invalidate(t)

\* The bound: writes done and writes on their way to the disk.
WritesLeft(s) ==
  disk[s] + Cardinality({t \in Thread : /\ call[t].op = "WriteSector" /\ call[t].sector = s
                                        /\ pc[t] \in {"Acquire", "request"}})
    < MaxWrites

Next ==
  \/ DiskDone
  \/ \E t \in Thread : ThreadStep(t)
  \/ \E t \in Thread, s \in Sector :
       \/ Call(t, "ReadSector", s)
       \/ WritesLeft(s) /\ Call(t, "WriteSector", s)

Spec == Init /\ [][Next]_allVars

\* A thread that can run does, and the disk answers (CheckIfDue fires every
\* scheduled interrupt).  A thread waiting for the lock is promised nothing:
\* others may take it first every time.
FairSpec ==
  /\ Spec
  /\ WF_allVars(DiskDone)
  /\ \A t \in Thread :
       WF_allVars(ReadMiss(t) \/ ReadHit(t) \/ Write(t) \/ WaitForInterrupt(t)
                  \/ ReleaseLock(t) \/ Invalidate(t))
-----------------------------------------------------------------------------
(* Properties.                                                             *)

\* The assertion !active of Disk::ReadRequest and WriteRequest: a thread about
\* to send a request finds the disk idle.  (A cache hit clears active itself,
\* by calling HandleInterrupt without a request.)
DiskFree == \A t \in Thread : pc[t] = "request" => ~active /\ DiskInt = 0

\* The raw disk serves one request at a time, and every completion belongs to
\* the request that is waiting for it: no V is left over that would let a later
\* request return before its own interrupt.
DiskExact ==
  /\ TypeOK
  /\ DiskFree
  /\ value[semaphore] + DiskInt = Cardinality({t \in Thread : pc[t] = "P"})

\* Reads are linearizable although WriteSector invalidates the cache only
\* after it has released the lock: a read never returns contents older than
\* what a call that had finished before the read began has read or written.
\* A miss replaces the first valid slot, so the cache never holds more than
\* one sector, whatever cache_size is.
ReadsLinearizable ==
  /\ \A t \in Thread :
       call[t].op = "ReadSector" /\ pc[t] \in {"P", "Release"} => call[t].data >= call[t].floor
  /\ Cardinality(Valid) <= 1

\* Whoever holds the disk lock gives it back: no request waits for ever.
LockReleased == holder[lock] # NULL ~> holder[lock] = NULL
==============================================================================
