-------------------------- MODULE SynchDiskProofs --------------------------
(***************************************************************************)
(* Proofs about module SynchDisk, for any set of threads, any set of       *)
(* sectors and any cache size.                                             *)
(***************************************************************************)
EXTENDS SynchDisk, FiniteSetTheorems, TLAPS

USE MonitorAssumption, SynchDiskAssumption

Holding(t) == pc[t] \in {"request", "P", "Release"}

\* The lock is held from Acquire to Release.
LockInv == \A t \in Thread : holder[lock] = t <=> Holding(t)

\* A thread between its call and its return has a call record.
CallInv ==
  \A t \in Thread :
    /\ pc[t] # "idle" => call[t] \in CallRecord
    /\ pc[t] = "invalidate" => call[t].op = "WriteSector"

\* One signal, given or scheduled, while a thread waits for it; none otherwise.
SignalInv ==
  /\ (\E t \in Thread : pc[t] = "P") => value[semaphore] + DiskInt = 1
  /\ (\A t \in Thread : pc[t] # "P") => value[semaphore] + DiskInt = 0
  /\ DiskInt = 0 => ~active

\* What is cached is no older than what some finished call has seen.
CacheInv ==
  /\ \A i, j \in Valid : i = j
  /\ \A i \in Valid : /\ seen[cache[i].sector] <= cache[i].data
                       /\ cache[i].data <= disk[cache[i].sector]
  /\ \A s \in Sector : seen[s] <= disk[s]

\* A read under way has contents between its floor and the disk, and the cache
\* holds nothing older: so its return may raise seen.
ReadInv ==
  \A t \in Thread :
    /\ pc[t] # "idle" => call[t].floor <= seen[call[t].sector]
    /\ pc[t] \in {"P", "Release", "invalidate"} => call[t].data <= disk[call[t].sector]
    /\ pc[t] \in {"P", "Release"} /\ call[t].op = "ReadSector" =>
         /\ call[t].floor <= call[t].data
         /\ \A i \in Valid : cache[i].sector = call[t].sector => call[t].data <= cache[i].data

SynchDiskInv == TypeOK /\ LockInv /\ CallInv /\ SignalInv /\ CacheInv /\ ReadInv

\* Nobody is in a call, nothing is cached and no interrupt is scheduled.
LEMMA InitSynchDiskInv == Init => SynchDiskInv
<1> SUFFICES ASSUME Init PROVE SynchDiskInv
  OBVIOUS
<1>1. TypeOK
  <2>1. MonitorTypeOK
    BY DEF Init, MonitorInit, MonitorTypeOK
  <2>2. cache \in [Slot -> [valid : BOOLEAN, sector : Sector, data : Nat]]
    <3>1. FALSE \in BOOLEAN /\ 0 \in Nat
      OBVIOUS
    <3>2. \A s \in Sector : [valid |-> FALSE, sector |-> s, data |-> 0]
                             \in [valid : BOOLEAN, sector : Sector, data : Nat]
      BY <3>1, Zenon
    <3>3. cache = [i \in Slot |-> cache[i]]
      BY Zenon DEF Init
    <3>4. \A i \in Slot : cache[i] \in [valid : BOOLEAN, sector : Sector, data : Nat]
      <4> TAKE i \in Slot
      <4>1. cache[i] \in {[valid |-> FALSE, sector |-> s, data |-> 0] : s \in Sector}
        BY Zenon DEF Init
      <4> QED
        BY <3>2, <4>1, Zenon
    <3> QED
      BY <3>3, <3>4, Zenon
  <2>3. active \in BOOLEAN
    BY Zenon DEF Init
  <2> QED
    BY <2>1, <2>2, <2>3 DEF Init, TypeOK
<1>2. Valid = {}
  BY DEF Init, Valid
<1>3. LockInv /\ CallInv
  BY DEF Init, MonitorInit, LockInv, CallInv, Holding
<1>4. SignalInv
  BY DEF Init, MonitorInit, SignalInv
<1>5. CacheInv /\ ReadInv
  BY <1>2 DEF Init, CacheInv, ReadInv
<1> QED
  BY <1>1, <1>3, <1>4, <1>5 DEF SynchDiskInv

\* ReadSector or WriteSector is called: the floor of the call is what has been
\* seen of the sector.
LEMMA CallKeepsInv ==
  ASSUME SynchDiskInv, NEW t \in Thread, NEW s \in Sector,
         NEW o \in {"ReadSector", "WriteSector"}, Call(t, o, s)
  PROVE  SynchDiskInv'
<1> USE DEF SynchDiskInv
<1> DEFINE c == [op |-> o, sector |-> s, data |-> 0, floor |-> seen[s]]
<1>1. /\ pc[t] = "idle"
      /\ pc' = [pc EXCEPT ![t] = "Acquire"]
      /\ call' = [call EXCEPT ![t] = c]
      /\ UNCHANGED <<seen, diskVars, monitorVars>>
  BY DEF Call, Goto
<1>2. c \in CallRecord /\ c.sector = s /\ c.floor = seen[s]
  BY DEF CallRecord, TypeOK
<1> HIDE DEF c
<1>3. TypeOK'
  BY <1>1, <1>2 DEF TypeOK, MonitorTypeOK, diskVars, monitorVars
<1>4. LockInv' /\ CallInv'
  BY <1>1, <1>2 DEF LockInv, CallInv, Holding, TypeOK, monitorVars
<1>5. SignalInv'
  BY <1>1 DEF SignalInv, TypeOK, monitorVars, diskVars
<1>6. CacheInv'
  BY <1>1 DEF CacheInv, Valid, diskVars
<1>7. ReadInv'
  BY <1>1, <1>2 DEF ReadInv, Valid, TypeOK, diskVars
<1> QED
  BY <1>3, <1>4, <1>5, <1>6, <1>7

\* Lock::Acquire: nobody was between Acquire and Release.
LEMMA AcquireLockKeepsInv ==
  ASSUME SynchDiskInv, NEW t \in Thread, AcquireLock(t)
  PROVE  SynchDiskInv'
<1> USE DEF SynchDiskInv
<1>1. /\ pc[t] = "Acquire"
      /\ pc' = [pc EXCEPT ![t] = "request"]
      /\ holder[lock] = NULL
      /\ holder' = [holder EXCEPT ![lock] = t]
      /\ UNCHANGED <<call, seen, diskVars, value, waiting, waking>>
  BY DEF AcquireLock, Goto, Acquire
<1>2. TypeOK'
  BY <1>1 DEF TypeOK, MonitorTypeOK, diskVars
<1>3. LockInv' /\ CallInv'
  BY <1>1 DEF LockInv, CallInv, Holding, TypeOK, MonitorTypeOK
<1>4. SignalInv'
  BY <1>1 DEF SignalInv, TypeOK, diskVars
<1>5. CacheInv' /\ ReadInv'
  BY <1>1 DEF CacheInv, ReadInv, Valid, TypeOK, diskVars
<1> QED
  BY <1>2, <1>3, <1>4, <1>5

\* The completion interrupt moves the signal from the device to the semaphore.
LEMMA DiskDoneKeepsInv ==
  ASSUME SynchDiskInv, DiskDone
  PROVE  SynchDiskInv'
<1> USE DEF SynchDiskInv
<1>1. /\ DiskInt > 0
      /\ DiskInt' = DiskInt - 1
      /\ active' = FALSE
      /\ value' = [value EXCEPT ![semaphore] = @ + 1]
      /\ UNCHANGED <<holder, waiting, waking, disk, cache, callVars>>
  BY DEF DiskDone, HandleInterrupt, V
<1>2. TypeOK'
  <2>1. (active \in BOOLEAN)'
    BY <1>1, Zenon
  <2> QED
    BY <1>1, <2>1 DEF TypeOK, MonitorTypeOK, callVars
<1>3. LockInv' /\ CallInv'
  BY <1>1 DEF LockInv, CallInv, Holding, callVars
<1>4. SignalInv'
  BY <1>1 DEF SignalInv, TypeOK, MonitorTypeOK, callVars
<1>5. CacheInv' /\ ReadInv'
  BY <1>1 DEF CacheInv, ReadInv, Valid, callVars
<1> QED
  BY <1>2, <1>3, <1>4, <1>5

\* A thread with the lock that has sent no request is the only one in the
\* critical section, and finds no signal.
LEMMA AloneAtRequest ==
  ASSUME SynchDiskInv, NEW t \in Thread, pc[t] = "request"
  PROVE  /\ \A u \in Thread : u # t => ~Holding(u)
         /\ value[semaphore] = 0 /\ DiskInt = 0 /\ ~active
<1> USE DEF SynchDiskInv
<1>1. \A u \in Thread : u # t => ~Holding(u)
  BY DEF LockInv, Holding
<1>2. \A u \in Thread : pc[u] # "P"
  BY <1>1 DEF Holding
<1>3. value[semaphore] \in Nat /\ DiskInt \in Nat
  BY DEF TypeOK, MonitorTypeOK
<1>4. value[semaphore] = 0 /\ DiskInt = 0
  BY <1>2, <1>3 DEF SignalInv
<1> QED
  BY <1>1, <1>4 DEF SignalInv

\* What an assignment to the data of a call changes.
LEMMA DataAssigned ==
  ASSUME SynchDiskInv, NEW t \in Thread, NEW d \in Nat, pc[t] # "idle",
         call' = [call EXCEPT ![t].data = d]
  PROVE  /\ call' \in [Thread -> CallRecord \cup {NoCall}]
         /\ call'[t] \in CallRecord
         /\ call'[t].op = call[t].op /\ call'[t].sector = call[t].sector
         /\ call'[t].floor = call[t].floor /\ call'[t].data = d
         /\ \A u \in Thread : u # t => call'[u] = call[u]
<1>1. call[t] \in CallRecord
  BY DEF SynchDiskInv, CallInv
<1>2. call \in [Thread -> CallRecord \cup {NoCall}]
  BY DEF SynchDiskInv, TypeOK
<1>3. /\ call'[t] = [call[t] EXCEPT !.data = d]
      /\ \A u \in Thread : u # t => call'[u] = call[u]
      /\ DOMAIN call' = Thread
  BY <1>2
<1>4. /\ call'[t] \in CallRecord
      /\ call'[t].op = call[t].op /\ call'[t].sector = call[t].sector
      /\ call'[t].floor = call[t].floor /\ call'[t].data = d
  BY <1>1, <1>3 DEF CallRecord
<1>5. call' = [call EXCEPT ![t] = call'[t]]
  BY <1>2, <1>3
<1>6. call' \in [Thread -> CallRecord \cup {NoCall}]
  BY <1>2, <1>4, <1>5
<1> QED
  BY <1>3, <1>4, <1>6

\* A read that finds nothing in the cache: the contents of the disk go to the
\* caller and to the one slot that is valid afterwards.
LEMMA ReadMissKeepsInv ==
  ASSUME SynchDiskInv, NEW t \in Thread, ReadMiss(t)
  PROVE  SynchDiskInv'
<1> USE DEF SynchDiskInv
<1> DEFINE s == call[t].sector
           e == [valid |-> TRUE, sector |-> s, data |-> disk[s]]
<1>1. /\ pc[t] = "request" /\ call[t].op = "ReadSector"
      /\ DiskInt' = DiskInt + 1
      /\ active' = TRUE
      /\ call' = [call EXCEPT ![t].data = disk[s]]
      /\ pc' = [pc EXCEPT ![t] = "P"]
      /\ UNCHANGED <<disk, seen, monitorVars>>
  BY DEF ReadMiss, Request, Goto
<1>2. PICK i \in Victim : cache' = [cache EXCEPT ![i] = e]
  BY Zenon DEF ReadMiss
<1>3. s \in Sector /\ disk[s] \in Nat
  BY <1>1 DEF CallInv, CallRecord, TypeOK
<1>4. /\ call' \in [Thread -> CallRecord \cup {NoCall}]
      /\ call'[t] \in CallRecord
      /\ call'[t].op = "ReadSector" /\ call'[t].sector = s
      /\ call'[t].floor = call[t].floor /\ call'[t].data = disk[s]
      /\ \A u \in Thread : u # t => call'[u] = call[u]
  BY Zenon, <1>1, <1>3, DataAssigned
<1>5. i \in Slot /\ (Valid = {} \/ Valid = {i})
  BY DEF Victim, Valid, CacheInv
<1>6. e \in [valid : BOOLEAN, sector : Sector, data : Nat]
  BY <1>3
<1>7. /\ e.valid /\ e.sector = s /\ e.data = disk[s]
  OBVIOUS
<1> HIDE DEF e
<1>8. cache'[i] = e /\ \A j \in Slot : j # i => cache'[j] = cache[j]
  BY <1>2, <1>5 DEF TypeOK
<1>9. Valid' = {i}
  BY <1>5, <1>7, <1>8 DEF Valid
<1>10. TypeOK'
  <2>1. (active \in BOOLEAN)'
    BY <1>1, Zenon
  <2>2. cache' \in [Slot -> [valid : BOOLEAN, sector : Sector, data : Nat]]
    BY Zenon, <1>2, <1>6 DEF TypeOK
  <2> QED
    BY <1>1, <1>4, <2>1, <2>2 DEF TypeOK, MonitorTypeOK, monitorVars
<1>11. LockInv' /\ CallInv'
  BY <1>1, <1>4 DEF LockInv, CallInv, Holding, TypeOK, monitorVars
<1>12. SignalInv'
  BY <1>1, AloneAtRequest DEF SignalInv, TypeOK, Holding, monitorVars
<1>13. CacheInv'
  BY <1>1, <1>3, <1>7, <1>8, <1>9 DEF CacheInv
<1>14. ReadInv'
  <2>1. \A u \in Thread : u # t => pc'[u] = pc[u] /\ ~Holding(u)
    BY <1>1, AloneAtRequest DEF TypeOK
  <2>2. call[t].floor <= seen[s] /\ seen[s] <= disk[s]
    BY <1>1, <1>3 DEF ReadInv, CacheInv
  <2>3. call[t].floor \in Nat /\ seen[s] \in Nat
    BY <1>1, <1>3 DEF CallInv, CallRecord, TypeOK
  <2>4. call[t].floor <= disk[s] /\ disk[s] <= disk[s]
    BY <1>3, <2>2, <2>3
  <2> QED
    BY <1>1, <1>4, <1>7, <1>8, <1>9, <2>1, <2>2, <2>4 DEF ReadInv, Holding
<1> QED
  BY <1>10, <1>11, <1>12, <1>13, <1>14

\* A read that finds the sector in the cache: the entry is no older than what
\* has been seen, and the handler gives the one signal itself.
LEMMA ReadHitKeepsInv ==
  ASSUME SynchDiskInv, NEW t \in Thread, ReadHit(t)
  PROVE  SynchDiskInv'
<1> USE DEF SynchDiskInv
<1> DEFINE s == call[t].sector
<1>1. /\ pc[t] = "request" /\ call[t].op = "ReadSector"
      /\ active' = FALSE
      /\ value' = [value EXCEPT ![semaphore] = @ + 1]
      /\ pc' = [pc EXCEPT ![t] = "P"]
      /\ UNCHANGED <<holder, waiting, waking, disk, DiskInt, cache, seen>>
  BY DEF ReadHit, HandleInterrupt, V, Goto
<1>2. PICK i \in Hits(s) : call' = [call EXCEPT ![t].data = cache[i].data]
  BY Zenon DEF ReadHit
<1>3. i \in Slot /\ i \in Valid /\ cache[i].sector = s
  BY DEF Hits, Valid
<1>4. s \in Sector /\ cache[i].data \in Nat
  BY <1>1, <1>3 DEF CallInv, CallRecord, TypeOK
<1>5. /\ call' \in [Thread -> CallRecord \cup {NoCall}]
      /\ call'[t] \in CallRecord
      /\ call'[t].op = "ReadSector" /\ call'[t].sector = s
      /\ call'[t].floor = call[t].floor /\ call'[t].data = cache[i].data
      /\ \A u \in Thread : u # t => call'[u] = call[u]
  BY Zenon, <1>1, <1>2, <1>4, DataAssigned
<1>6. TypeOK'
  <2>1. (active \in BOOLEAN)'
    BY <1>1, Zenon
  <2>2. MonitorTypeOK'
    BY <1>1 DEF TypeOK, MonitorTypeOK
  <2> QED
    BY Zenon, <1>1, <1>5, <2>1, <2>2 DEF TypeOK
<1>7. LockInv' /\ CallInv'
  BY <1>1, <1>5 DEF LockInv, CallInv, Holding, TypeOK
<1>8. SignalInv'
  BY <1>1, AloneAtRequest DEF SignalInv, TypeOK, MonitorTypeOK, Holding
<1>9. CacheInv'
  BY <1>1 DEF CacheInv, Valid
<1>10. ReadInv'
  <2>1. \A u \in Thread : u # t => pc'[u] = pc[u] /\ ~Holding(u)
    BY <1>1, AloneAtRequest DEF TypeOK
  <2>2. /\ call[t].floor <= seen[s] /\ seen[s] <= cache[i].data
        /\ cache[i].data <= disk[s]
    BY <1>1, <1>3 DEF ReadInv, CacheInv
  <2>3. call[t].floor \in Nat /\ seen[s] \in Nat
    BY <1>1, <1>4 DEF CallInv, CallRecord, TypeOK
  <2>4. call[t].floor <= cache[i].data /\ cache[i].data <= cache[i].data
    BY <1>4, <2>2, <2>3
  <2>5. Valid' = Valid /\ \A j \in Valid : j = i
    BY <1>1, <1>3 DEF Valid, CacheInv
  <2> QED
    BY <1>1, <1>5, <2>1, <2>2, <2>4, <2>5 DEF ReadInv, Holding
<1> QED
  BY <1>6, <1>7, <1>8, <1>9, <1>10

\* A write reaches the disk: whatever was no newer than the disk still is.
LEMMA WriteKeepsInv ==
  ASSUME SynchDiskInv, NEW t \in Thread, Write(t)
  PROVE  SynchDiskInv'
<1> USE DEF SynchDiskInv
<1> DEFINE s == call[t].sector
<1>1. /\ pc[t] = "request" /\ call[t].op = "WriteSector"
      /\ disk' = [disk EXCEPT ![s] = @ + 1]
      /\ call' = [call EXCEPT ![t].data = disk[s] + 1]
      /\ DiskInt' = DiskInt + 1
      /\ active' = TRUE
      /\ pc' = [pc EXCEPT ![t] = "P"]
      /\ UNCHANGED <<cache, seen, monitorVars>>
  BY DEF Write, Request, Goto
<1>2. s \in Sector /\ disk[s] \in Nat /\ disk[s] + 1 \in Nat
  BY <1>1 DEF CallInv, CallRecord, TypeOK
<1>3. /\ call' \in [Thread -> CallRecord \cup {NoCall}]
      /\ call'[t] \in CallRecord
      /\ call'[t].op = "WriteSector" /\ call'[t].sector = s
      /\ call'[t].floor = call[t].floor /\ call'[t].data = disk[s] + 1
      /\ \A u \in Thread : u # t => call'[u] = call[u]
  BY Zenon, <1>1, <1>2, DataAssigned
<1>4. /\ disk' \in [Sector -> Nat]
      /\ disk'[s] = disk[s] + 1
      /\ \A r \in Sector : disk[r] <= disk'[r]
  BY <1>1, <1>2 DEF TypeOK
<1>5. TypeOK'
  <2>1. (active \in BOOLEAN)'
    BY <1>1, Zenon
  <2> QED
    BY <1>1, <1>3, <1>4, <2>1 DEF TypeOK, MonitorTypeOK, monitorVars
<1>6. LockInv' /\ CallInv'
  BY <1>1, <1>3 DEF LockInv, CallInv, Holding, TypeOK, monitorVars
<1>7. SignalInv'
  BY <1>1, AloneAtRequest DEF SignalInv, TypeOK, Holding, monitorVars
<1>8. CacheInv'
  BY <1>1, <1>4 DEF CacheInv, Valid, TypeOK
<1>9. ReadInv'
  <2>1. \A u \in Thread : u # t => pc'[u] = pc[u] /\ ~Holding(u)
    BY <1>1, AloneAtRequest DEF TypeOK
  <2>2. \A u \in Thread : pc[u] # "idle" =>
          call[u].sector \in Sector /\ call[u].data \in Nat
    BY DEF CallInv, CallRecord
  <2>3. \A u \in Thread \ {t} : pc[u] = "invalidate" =>
          call[u].data <= disk'[call[u].sector]
    BY <1>4, <2>2 DEF ReadInv, TypeOK
  <2>4. call'[t].data <= disk'[s]
    BY <1>2, <1>3, <1>4
  <2> QED
    BY <1>1, <1>3, <2>1, <2>3, <2>4 DEF ReadInv, Holding, TypeOK
<1> QED
  BY <1>5, <1>6, <1>7, <1>8, <1>9

\* Semaphore::P takes the one signal, which was this thread's.
LEMMA WaitForInterruptKeepsInv ==
  ASSUME SynchDiskInv, NEW t \in Thread, WaitForInterrupt(t)
  PROVE  SynchDiskInv'
<1> USE DEF SynchDiskInv
<1>1. /\ pc[t] = "P"
      /\ value[semaphore] > 0
      /\ value' = [value EXCEPT ![semaphore] = @ - 1]
      /\ pc' = [pc EXCEPT ![t] = "Release"]
      /\ UNCHANGED <<call, seen, diskVars, holder, waiting, waking>>
  BY DEF WaitForInterrupt, P, Goto
<1>2. TypeOK'
  BY <1>1 DEF TypeOK, MonitorTypeOK, diskVars
<1>3. LockInv' /\ CallInv'
  BY <1>1 DEF LockInv, CallInv, Holding, TypeOK
<1>4. SignalInv'
  <2>1. \A u \in Thread : pc'[u] # "P"
    BY <1>1 DEF LockInv, Holding, TypeOK
  <2>2. value[semaphore] + DiskInt = 1
    BY <1>1 DEF SignalInv
  <2> QED
    BY <1>1, <2>1, <2>2 DEF SignalInv, TypeOK, MonitorTypeOK, diskVars
<1>5. CacheInv' /\ ReadInv'
  BY <1>1 DEF CacheInv, ReadInv, Valid, TypeOK, diskVars
<1> QED
  BY <1>2, <1>3, <1>4, <1>5

\* Where a call returns, seen is raised to its contents, and to nothing newer
\* than the disk.
LEMMA ReturnFacts ==
  ASSUME SynchDiskInv, NEW t \in Thread, pc[t] \in {"Release", "invalidate"}, Return(t)
  PROVE  /\ pc' = [pc EXCEPT ![t] = "idle"]
         /\ call' \in [Thread -> CallRecord \cup {NoCall}]
         /\ \A u \in Thread : u # t => call'[u] = call[u]
         /\ seen' \in [Sector -> Nat]
         /\ \A r \in Sector : seen[r] <= seen'[r] /\ seen'[r] <= disk[r]
         /\ \A r \in Sector : \/ seen'[r] = seen[r]
                              \/ r = call[t].sector /\ seen'[r] = call[t].data
<1> USE DEF SynchDiskInv
<1>1. /\ pc' = [pc EXCEPT ![t] = "idle"]
      /\ call' = [call EXCEPT ![t] = NoCall]
      /\ seen' = [seen EXCEPT ![call[t].sector] = Later(@, call[t].data)]
  BY DEF Return, Goto
<1>2. /\ call[t].sector \in Sector /\ call[t].data \in Nat
      /\ call[t].data <= disk[call[t].sector]
  BY DEF CallInv, CallRecord, ReadInv
<1>3. /\ call' \in [Thread -> CallRecord \cup {NoCall}]
      /\ \A u \in Thread : u # t => call'[u] = call[u]
  BY <1>1 DEF TypeOK
<1>4. seen' \in [Sector -> Nat]
  BY <1>1, <1>2 DEF TypeOK, Later
<1>5. \A r \in Sector : seen[r] <= seen'[r] /\ seen'[r] <= disk[r]
  BY <1>1, <1>2 DEF TypeOK, Later, CacheInv
<1>6. \A r \in Sector : \/ seen'[r] = seen[r]
                        \/ r = call[t].sector /\ seen'[r] = call[t].data
  BY <1>1, <1>2 DEF TypeOK, Later
<1> QED
  BY <1>1, <1>3, <1>4, <1>5, <1>6

\* Calls under way stay correct when another one returns and the cache loses
\* entries at most.
LEMMA ReturnKeepsReads ==
  ASSUME SynchDiskInv, NEW t \in Thread, pc[t] \in {"Release", "invalidate"}, Return(t),
         UNCHANGED disk, Valid' \subseteq Valid,
         \A i \in Valid' : cache'[i] = cache[i]
  PROVE  ReadInv'
<1> USE DEF SynchDiskInv
<1>1. /\ pc' = [pc EXCEPT ![t] = "idle"]
      /\ \A u \in Thread : u # t => call'[u] = call[u]
      /\ seen' \in [Sector -> Nat]
      /\ \A r \in Sector : seen[r] <= seen'[r]
  BY ReturnFacts
<1>2. pc'[t] = "idle" /\ \A u \in Thread : u # t => pc'[u] = pc[u]
  BY <1>1 DEF TypeOK
<1>3. \A u \in Thread : pc[u] # "idle" =>
        /\ call[u].sector \in Sector /\ call[u].floor \in Nat
        /\ call[u].floor <= seen[call[u].sector]
  BY DEF CallInv, CallRecord, ReadInv
<1>4. \A u \in Thread : pc[u] # "idle" => call[u].floor <= seen'[call[u].sector]
  BY <1>1, <1>3 DEF TypeOK
<1> QED
  BY <1>1, <1>2, <1>4 DEF ReadInv

\* Lock::Release.  A read returns here: the cache holds nothing older than what
\* the read makes seen.
LEMMA ReleaseLockKeepsInv ==
  ASSUME SynchDiskInv, NEW t \in Thread, ReleaseLock(t)
  PROVE  SynchDiskInv'
<1> USE DEF SynchDiskInv
<1>1. /\ pc[t] = "Release"
      /\ holder[lock] = t
      /\ holder' = [holder EXCEPT ![lock] = NULL]
      /\ UNCHANGED <<disk, active, DiskInt, cache, value, waiting, waking>>
  BY DEF ReleaseLock, Release, diskVars
<1>2. Valid' = Valid /\ (MonitorTypeOK)'
  BY <1>1 DEF Valid, TypeOK, MonitorTypeOK
<1>3. CASE call[t].op = "ReadSector" /\ Return(t)
  <2>1. /\ pc' = [pc EXCEPT ![t] = "idle"]
        /\ call' \in [Thread -> CallRecord \cup {NoCall}]
        /\ \A u \in Thread : u # t => call'[u] = call[u]
        /\ seen' \in [Sector -> Nat]
        /\ \A r \in Sector : seen'[r] <= disk[r]
        /\ \A r \in Sector : \/ seen'[r] = seen[r]
                             \/ r = call[t].sector /\ seen'[r] = call[t].data
    BY <1>1, <1>3, ReturnFacts
  <2>2. TypeOK'
    BY <1>1, <1>2, <2>1 DEF TypeOK
  <2>3. LockInv' /\ CallInv'
    BY <1>1, <2>1 DEF LockInv, CallInv, Holding, TypeOK, MonitorTypeOK
  <2>4. SignalInv'
    BY <1>1, <2>1 DEF SignalInv, TypeOK
  <2>5. CacheInv'
    <3>1. \A i \in Valid : cache[i].sector \in Sector
      BY DEF Valid, TypeOK
    <3>2. \A i \in Valid : seen'[cache[i].sector] <= cache[i].data
      BY <1>1, <1>3, <2>1, <3>1 DEF CacheInv, ReadInv
    <3> QED
      BY <1>1, <1>2, <2>1, <3>2 DEF CacheInv
  <2>6. ReadInv'
    BY <1>1, <1>2, <1>3, ReturnKeepsReads
  <2> QED
    BY <2>2, <2>3, <2>4, <2>5, <2>6
<1>4. CASE /\ call[t].op = "WriteSector" /\ Goto(t, "invalidate")
           /\ UNCHANGED <<call, seen>>
  <2> USE DEF Goto
  <2>1. TypeOK'
    BY <1>1, <1>2, <1>4 DEF TypeOK
  <2>2. LockInv' /\ CallInv'
    BY <1>1, <1>4 DEF LockInv, CallInv, Holding, TypeOK, MonitorTypeOK
  <2>3. SignalInv'
    BY <1>1, <1>4 DEF SignalInv, TypeOK
  <2>4. CacheInv' /\ ReadInv'
    BY <1>1, <1>2, <1>4 DEF CacheInv, ReadInv, TypeOK
  <2> QED
    BY <2>1, <2>2, <2>3, <2>4
<1> QED
  BY <1>3, <1>4 DEF ReleaseLock

\* The end of WriteSector: no entry for the sector is left that could be older
\* than what the write makes seen.
LEMMA InvalidateKeepsInv ==
  ASSUME SynchDiskInv, NEW t \in Thread, Invalidate(t)
  PROVE  SynchDiskInv'
<1> USE DEF SynchDiskInv
<1>1. /\ pc[t] = "invalidate" /\ Return(t)
      /\ cache' = [i \in Slot |-> IF cache[i].sector = call[t].sector
                                  THEN [cache[i] EXCEPT !.valid = FALSE]
                                  ELSE cache[i]]
      /\ UNCHANGED <<disk, active, DiskInt, monitorVars>>
  BY DEF Invalidate
<1>2. /\ pc' = [pc EXCEPT ![t] = "idle"]
      /\ call' \in [Thread -> CallRecord \cup {NoCall}]
      /\ \A u \in Thread : u # t => call'[u] = call[u]
      /\ seen' \in [Sector -> Nat]
      /\ \A r \in Sector : seen'[r] <= disk[r]
      /\ \A r \in Sector : \/ seen'[r] = seen[r]
                           \/ r = call[t].sector /\ seen'[r] = call[t].data
  BY <1>1, ReturnFacts
<1>3. \A i \in Slot : cache[i] \in [valid : BOOLEAN, sector : Sector, data : Nat]
  BY DEF TypeOK
<1>4. \A i \in Slot : cache'[i] \in [valid : BOOLEAN, sector : Sector, data : Nat]
  BY Zenon, <1>1, <1>3
<1>5. \A i \in Valid' : i \in Valid /\ cache'[i] = cache[i]
                        /\ cache[i].sector \in Sector /\ cache[i].sector # call[t].sector
  BY <1>1, <1>3 DEF Valid
<1>6. TypeOK'
  <2>1. cache' \in [Slot -> [valid : BOOLEAN, sector : Sector, data : Nat]]
    BY <1>1, <1>4
  <2> QED
    BY <1>1, <1>2, <2>1 DEF TypeOK, MonitorTypeOK, monitorVars
<1>7. LockInv' /\ CallInv'
  BY <1>1, <1>2 DEF LockInv, CallInv, Holding, TypeOK, monitorVars
<1>8. SignalInv'
  BY <1>1, <1>2 DEF SignalInv, TypeOK, monitorVars
<1>9. CacheInv'
  <2>1. \A i \in Valid' : seen'[cache[i].sector] = seen[cache[i].sector]
    BY <1>2, <1>5
  <2>2. \A i \in Valid' : /\ seen'[cache'[i].sector] <= cache'[i].data
                         /\ cache'[i].data <= disk'[cache'[i].sector]
    <3>1. disk' = disk
      BY <1>1
    <3> QED
      BY <1>5, <2>1, <3>1 DEF CacheInv
  <2>3. \A i, j \in Valid' : i = j
    BY <1>5 DEF CacheInv
  <2> QED
    BY Zenon, <1>1, <1>2, <2>2, <2>3 DEF CacheInv
<1>10. ReadInv'
  BY Zenon, <1>1, <1>5, ReturnKeepsReads
<1> QED
  BY <1>6, <1>7, <1>8, <1>9, <1>10

\* The inductive invariant of the synchronous disk holds in every reachable
\* state, for any number of threads and sectors and any cache size.
THEOREM SynchDiskCorrect == Spec => []SynchDiskInv
<1>1. SynchDiskInv /\ [Next]_allVars => SynchDiskInv'
  <2> SUFFICES ASSUME SynchDiskInv, [Next]_allVars
               PROVE  SynchDiskInv'
    OBVIOUS
  <2>1. CASE DiskDone
    BY <2>1, DiskDoneKeepsInv
  <2>2. ASSUME NEW t \in Thread, ThreadStep(t)
        PROVE  SynchDiskInv'
    BY <2>2, AcquireLockKeepsInv, ReadMissKeepsInv, ReadHitKeepsInv, WriteKeepsInv,
       WaitForInterruptKeepsInv, ReleaseLockKeepsInv, InvalidateKeepsInv DEF ThreadStep
  <2>3. ASSUME NEW t \in Thread, NEW s \in Sector,
               Call(t, "ReadSector", s) \/ Call(t, "WriteSector", s)
        PROVE  SynchDiskInv'
    BY <2>3, CallKeepsInv
  <2>4. CASE UNCHANGED allVars
    <3> USE <2>4 DEF allVars, monitorVars, diskVars, callVars
    <3>1. TypeOK'
      BY DEF SynchDiskInv, TypeOK, MonitorTypeOK
    <3>2. LockInv' /\ CallInv' /\ SignalInv'
      BY DEF SynchDiskInv, LockInv, CallInv, SignalInv, Holding
    <3>3. CacheInv' /\ ReadInv'
      BY DEF SynchDiskInv, CacheInv, ReadInv, Valid
    <3> QED
      BY <3>1, <3>2, <3>3 DEF SynchDiskInv
  <2> QED
    BY <2>1, <2>2, <2>3, <2>4 DEF Next
<1> QED
  BY <1>1, InitSynchDiskInv, PTL DEF Spec

\* A set whose members are all equal has at most one.
LEMMA AtMostOne ==
  ASSUME NEW S, \A x, y \in S : x = y
  PROVE  Cardinality(S) = IF S = {} THEN 0 ELSE 1
<1>1. CASE S = {}
  BY <1>1, FS_EmptySet
<1>2. CASE S # {}
  <2>1. PICK x \in S : TRUE
    BY <1>2
  <2>2. S = {x}
    BY <2>1
  <2> QED
    BY Zenon, <1>2, <2>2, FS_Singleton
<1> QED
  BY <1>1, <1>2

\* The raw disk serves one request at a time, and each completion is for the
\* request that waits: the assertion !active of Disk::ReadRequest and
\* WriteRequest never fails, and no request returns on another's interrupt.
THEOREM DiskIsExact == Spec => []DiskExact
<1>1. SynchDiskInv => DiskExact
  <2> SUFFICES ASSUME SynchDiskInv PROVE DiskExact
    OBVIOUS
  <2>1. DiskFree
    BY AloneAtRequest DEF DiskFree
  <2> DEFINE W == {t \in Thread : pc[t] = "P"}
  <2>2. \A t, u \in W : t = u
    BY DEF SynchDiskInv, LockInv, Holding
  <2>3. Cardinality(W) = IF W = {} THEN 0 ELSE 1
    BY <2>2, AtMostOne
  <2>4. value[semaphore] + DiskInt = IF W = {} THEN 0 ELSE 1
    BY DEF SynchDiskInv, SignalInv
  <2> QED
    BY <2>1, <2>3, <2>4 DEF DiskExact, SynchDiskInv
<1> QED
  BY <1>1, SynchDiskCorrect, PTL

\* No read returns contents older than a call that had finished before it began,
\* although WriteSector invalidates the cache after releasing the lock; and the
\* cache never holds more than one sector, whatever its size.
THEOREM ReadsAreLinearizable == Spec => []ReadsLinearizable
<1>1. SynchDiskInv => ReadsLinearizable
  <2> SUFFICES ASSUME SynchDiskInv PROVE ReadsLinearizable
    OBVIOUS
  <2>1. ASSUME NEW t \in Thread, call[t].op = "ReadSector", pc[t] \in {"P", "Release"}
        PROVE  call[t].data >= call[t].floor
    BY <2>1 DEF SynchDiskInv, ReadInv, CallInv, CallRecord
  <2>2. Cardinality(Valid) = IF Valid = {} THEN 0 ELSE 1
    BY AtMostOne DEF SynchDiskInv, CacheInv
  <2> QED
    BY <2>1, <2>2 DEF ReadsLinearizable
<1> QED
  BY <1>1, SynchDiskCorrect, PTL
============================================================================
