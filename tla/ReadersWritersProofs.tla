------------------------ MODULE ReadersWritersProofs ------------------------
(***************************************************************************)
(* Proofs about module ReadersWriters, for any finite set of threads and   *)
(* any set of files.                                                       *)
(***************************************************************************)
EXTENDS ReadersWriters, FiniteSetTheorems, TLAPS

USE MonitorAssumption, ReadersWritersAssumption

Label == {"idle", "In.Acquire", "In.count", "In.P", "In.Release", "reading",
          "Out.Acquire", "Out.count", "Out.Release", "WriteBegin", "writing"}

Locked   == {"In.count", "In.P", "In.Release", "Out.count", "Out.Release"}
Admitted == {"In.Release", "reading", "Out.Acquire", "Out.count"}

Counted(f) == At(f, Admitted \cup {"In.P"})
Taken(f)   == At(f, Admitted)
Writers(f) == At(f, {"writing"})

TypeInv == MonitorTypeOK /\ RWTypeOK /\ pc \in [Thread -> Label]

\* A thread in a call has a file.
FileInv == \A t \in Thread : file[t] = NULL <=> pc[t] = "idle"

\* One thread at a time counts readers.
HolderInv == \A t \in Thread : holder[readerLock] = t <=> pc[t] \in Locked

NumberInv == \A f \in File : reader_num[f] = Cardinality(Counted(f))

MutexInv ==
  \A f \in File : value[f] = IF Taken(f) # {} \/ Writers(f) # {} THEN 0 ELSE 1

\* A writer is alone.
WriterInv ==
  \A f \in File : \A t \in Writers(f) : \A u \in Taken(f) \cup Writers(f) : u = t

\* A reader that waits for mutex[f] is the only one counted.
FirstInv == \A t \in Thread : pc[t] = "In.P" => Counted(file[t]) = {t}

RWInv == /\ TypeInv /\ FileInv /\ HolderInv /\ NumberInv /\ MutexInv
         /\ WriterInv /\ FirstInv

\* The sets of threads that the invariant counts are finite.
LEMMA CountedFinite ==
  ASSUME NEW f
  PROVE  IsFiniteSet(Counted(f))
BY FS_Subset DEF Counted, At

\* A step that neither enters nor leaves a set the invariant speaks of.
LEMMA QuietStep ==
  ASSUME RWInv, NEW t \in Thread, NEW b \in Label, pc' = [pc EXCEPT ![t] = b],
         \A u \in Thread : u # t => file'[u] = file[u],
         UNCHANGED <<reader_num, value>>,
         \/ pc[t] \in Admitted /\ b \in Admitted /\ file'[t] = file[t]
         \/ /\ pc[t] \notin Admitted \cup {"In.P", "writing"}
            /\ b \notin Admitted \cup {"In.P", "writing"}
  PROVE  NumberInv' /\ MutexInv' /\ WriterInv' /\ FirstInv'
<1>1. pc'[t] = b /\ \A u \in Thread : u # t => pc'[u] = pc[u]
  BY DEF RWInv, TypeInv
<1>2. \A f : Counted(f)' = Counted(f) /\ Taken(f)' = Taken(f) /\ Writers(f)' = Writers(f)
  BY <1>1 DEF Counted, Taken, Writers, At, Admitted
<1>3. NumberInv'
  BY <1>2 DEF RWInv, NumberInv
<1>4. MutexInv'
  BY <1>2 DEF RWInv, MutexInv
<1>5. WriterInv'
  BY <1>2 DEF RWInv, WriterInv
<1>6. \A u \in Thread : pc'[u] = "In.P" => pc[u] = "In.P" /\ file'[u] = file[u]
  BY <1>1 DEF Admitted
<1>7. FirstInv'
  BY <1>2, <1>6 DEF RWInv, FirstInv
<1> QED
  BY <1>3, <1>4, <1>5, <1>7

\* Nobody has called OpenFile yet.
LEMMA InitRWInv ==
  ASSUME MonitorInit, RWInit, pc = [t \in Thread |-> "idle"]
  PROVE  RWInv
<1>1. TypeInv
  BY DEF MonitorInit, RWInit, TypeInv, MonitorTypeOK, RWTypeOK, Label, File
<1>2. \A f : Counted(f) = {} /\ Taken(f) = {} /\ Writers(f) = {}
  BY DEF Counted, Taken, Writers, At, Admitted
<1>3. FileInv /\ HolderInv
  BY DEF MonitorInit, RWInit, FileInv, HolderInv, Locked
<1>4. NumberInv
  BY <1>2, FS_EmptySet DEF RWInit, NumberInv
<1>5. MutexInv /\ WriterInv
  BY <1>2 DEF MonitorInit, MutexInv, WriterInv, File
<1>6. FirstInv
  BY DEF FirstInv
<1> QED
  BY <1>1, <1>3, <1>4, <1>5, <1>6 DEF RWInv

\* OpenFile::Read or Write is called.
LEMMA CallFileKeepsInv ==
  ASSUME RWInv, NEW t \in Thread, NEW f \in File, CallFile(t, f)
  PROVE  RWInv'
<1>1. PICK b \in {"In.Acquire", "WriteBegin"} :
        /\ pc[t] = "idle" /\ pc' = [pc EXCEPT ![t] = b]
        /\ file' = [file EXCEPT ![t] = f]
        /\ UNCHANGED <<value, holder, waiting, waking, reader_num>>
  BY DEF CallFile, Step, monitorVars
<1>2. TypeInv'
  BY <1>1 DEF RWInv, TypeInv, MonitorTypeOK, RWTypeOK, Label
<1>3. FileInv' /\ HolderInv'
  BY <1>1 DEF RWInv, TypeInv, RWTypeOK, FileInv, HolderInv, Locked
<1>4. NumberInv' /\ MutexInv' /\ WriterInv' /\ FirstInv'
  <2>1. b \in Label /\ \A u \in Thread : u # t => file'[u] = file[u]
    BY <1>1 DEF Label, RWInv, TypeInv, RWTypeOK
  <2>2. /\ pc[t] \notin Admitted \cup {"In.P", "writing"}
        /\ b \notin Admitted \cup {"In.P", "writing"}
    BY <1>1 DEF Admitted
  <2> QED
    BY Zenon, <1>1, <2>1, <2>2, QuietStep
<1> QED
  BY <1>2, <1>3, <1>4 DEF RWInv

\* Acquire of readerLock: nobody else was counting.
LEMMA LockReadersKeepsInv ==
  ASSUME RWInv, NEW t \in Thread, LockReaders(t)
  PROVE  RWInv'
<1>1. PICK b \in {"In.count", "Out.count"} :
        /\ pc' = [pc EXCEPT ![t] = b]
        /\ \/ pc[t] = "In.Acquire" /\ b = "In.count"
           \/ pc[t] = "Out.Acquire" /\ b = "Out.count"
        /\ holder[readerLock] = NULL
        /\ holder' = [holder EXCEPT ![readerLock] = t]
        /\ UNCHANGED <<value, waiting, waking, reader_num, file>>
  BY DEF LockReaders, Step, Acquire
<1>2. TypeInv'
  BY <1>1 DEF RWInv, TypeInv, MonitorTypeOK, RWTypeOK, Label
<1>3. FileInv' /\ HolderInv'
  BY <1>1 DEF RWInv, TypeInv, MonitorTypeOK, FileInv, HolderInv, Locked
<1>4. NumberInv' /\ MutexInv' /\ WriterInv' /\ FirstInv'
  <2>1. b \in Label
    BY DEF Label
  <2>2. \/ pc[t] \in Admitted /\ b \in Admitted
        \/ /\ pc[t] \notin Admitted \cup {"In.P", "writing"}
           /\ b \notin Admitted \cup {"In.P", "writing"}
    BY <1>1 DEF Admitted
  <2> QED
    BY Zenon, <1>1, <2>1, <2>2, QuietStep
<1> QED
  BY <1>2, <1>3, <1>4 DEF RWInv

\* Release of readerLock, at the end of ReaderIn or of ReaderOut.
LEMMA UnlockReadersKeepsInv ==
  ASSUME RWInv, NEW t \in Thread, UnlockReaders(t)
  PROVE  RWInv'
<1>1. PICK b \in {"reading", "idle"} :
        /\ pc' = [pc EXCEPT ![t] = b]
        /\ \/ pc[t] = "In.Release" /\ b = "reading" /\ file' = file
           \/ pc[t] = "Out.Release" /\ b = "idle" /\ file' = [file EXCEPT ![t] = NULL]
        /\ holder' = [holder EXCEPT ![readerLock] = NULL]
        /\ UNCHANGED <<value, waiting, waking, reader_num>>
  BY DEF UnlockReaders, Step, Release
<1>2. TypeInv'
  BY Zenon, <1>1 DEF RWInv, TypeInv, MonitorTypeOK, RWTypeOK, Label
<1>3. FileInv' /\ HolderInv'
  BY <1>1 DEF RWInv, TypeInv, MonitorTypeOK, RWTypeOK, FileInv, HolderInv, Locked
<1>4. NumberInv' /\ MutexInv' /\ WriterInv' /\ FirstInv'
  <2>1. b \in Label /\ \A u \in Thread : u # t => file'[u] = file[u]
    BY <1>1 DEF Label, RWInv, TypeInv, RWTypeOK
  <2>2. \/ pc[t] \in Admitted /\ b \in Admitted /\ file'[t] = file[t]
        \/ /\ pc[t] \notin Admitted \cup {"In.P", "writing"}
           /\ b \notin Admitted \cup {"In.P", "writing"}
    BY <1>1 DEF Admitted
  <2> QED
    BY Zenon, <1>1, <2>1, <2>2, QuietStep
<1> QED
  BY <1>2, <1>3, <1>4 DEF RWInv

\* ReaderOut is called.
LEMMA ReaderOutKeepsInv ==
  ASSUME RWInv, NEW t \in Thread, ReaderOut(t)
  PROVE  RWInv'
<1>1. /\ pc[t] = "reading" /\ pc' = [pc EXCEPT ![t] = "Out.Acquire"]
      /\ UNCHANGED <<value, holder, waiting, waking, reader_num, file>>
  BY DEF ReaderOut, Step, monitorVars
<1>2. TypeInv'
  BY <1>1 DEF RWInv, TypeInv, MonitorTypeOK, RWTypeOK, Label
<1>3. FileInv' /\ HolderInv'
  BY <1>1 DEF RWInv, TypeInv, FileInv, HolderInv, Locked
<1>4. "Out.Acquire" \in Label /\ "Out.Acquire" \in Admitted /\ pc[t] \in Admitted
  BY <1>1 DEF Label, Admitted
<1>5. NumberInv' /\ MutexInv' /\ WriterInv' /\ FirstInv'
  BY Zenon, <1>1, <1>4, QuietStep
<1> QED
  BY <1>2, <1>3, <1>5 DEF RWInv

\* While a thread counts, no reader waits for mutex[f]: all counted readers have
\* been admitted.
LEMMA CountedAreTaken ==
  ASSUME RWInv, NEW t \in Thread, pc[t] \in {"In.count", "Out.count"}
  PROVE  \A f : Counted(f) = Taken(f)
<1>1. \A u \in Thread : pc[u] # "In.P"
  BY DEF RWInv, HolderInv, Locked
<1> QED
  BY <1>1 DEF Counted, Taken, At

\* reader_num is incremented.  The first reader goes on to wait for mutex[f];
\* another one finds it taken by readers.
LEMMA CountInKeepsInv ==
  ASSUME RWInv, NEW t \in Thread, CountIn(t)
  PROVE  RWInv'
<1>0. PICK g : g = file[t]
  OBVIOUS
<1> DEFINE n == reader_num[g] + 1
<1>1. PICK b \in {"In.P", "In.Release"} :
        /\ pc[t] = "In.count" /\ pc' = [pc EXCEPT ![t] = b]
        /\ b = "In.P" <=> n = 1
        /\ reader_num' = [reader_num EXCEPT ![g] = n]
        /\ UNCHANGED <<value, holder, waiting, waking, file>>
  BY <1>0 DEF CountIn, Step, First, monitorVars
<1>2. g \in File /\ reader_num[g] \in Nat /\ b \in Label
  BY <1>0, <1>1 DEF RWInv, FileInv, TypeInv, RWTypeOK, Label
<1>3. TypeInv'
  BY <1>1, <1>2 DEF RWInv, TypeInv, MonitorTypeOK, RWTypeOK, Label
<1>4. FileInv' /\ HolderInv'
  BY <1>1 DEF RWInv, TypeInv, FileInv, HolderInv, Locked
<1>5. \A f : Counted(f) = Taken(f) /\ t \notin Counted(f) /\ t \notin Writers(f)
  BY <1>1, CountedAreTaken DEF Taken, Writers, At, Admitted
<1>6. /\ Counted(g)' = Counted(g) \cup {t}
      /\ \A f : f # g => Counted(f)' = Counted(f)
      /\ \A f : Writers(f)' = Writers(f)
      /\ Taken(g)' = IF b = "In.P" THEN Taken(g) ELSE Taken(g) \cup {t}
      /\ \A f : f # g => Taken(f)' = Taken(f)
  <2>1. pc'[t] = b /\ \A u \in Thread : u # t => pc'[u] = pc[u]
    BY <1>1 DEF RWInv, TypeInv
  <2> QED
    BY <1>0, <1>1, <2>1 DEF Counted, Taken, Writers, At, Admitted
<1>7. Cardinality(Counted(g)) = reader_num[g]
  BY <1>2 DEF RWInv, NumberInv
<1>8. Cardinality(Counted(g) \cup {t}) = n
  BY Zenon, <1>5, <1>7, CountedFinite, FS_AddElement
<1>9. b = "In.P" <=> Counted(g) = {}
  BY <1>1, <1>2, <1>7, CountedFinite, FS_EmptySet
<1>10. NumberInv'
  <2>1. \A f \in File : f # g => reader_num'[f] = reader_num[f]
    BY <1>1, <1>2 DEF RWInv, TypeInv, RWTypeOK
  <2>2. reader_num'[g] = n
    BY <1>1, <1>2 DEF RWInv, TypeInv, RWTypeOK
  <2> QED
    BY <1>6, <1>8, <2>1, <2>2 DEF RWInv, NumberInv
<1>11. MutexInv' /\ WriterInv'
  <2>1. CASE b = "In.P"
    <3>1. \A f : Taken(f)' = Taken(f)
      BY <1>6, <2>1
    <3> QED
      BY <1>1, <1>6, <3>1 DEF RWInv, MutexInv, WriterInv
  <2>2. CASE b # "In.P"
    <3>1. Taken(g) # {} /\ Taken(g)' # {} /\ value[g] = 0
      BY <1>2, <1>5, <1>6, <1>9, <2>2 DEF RWInv, MutexInv
    <3>2. Writers(g) = {}
      BY <1>2, <1>5, <3>1 DEF RWInv, WriterInv, Taken, Writers, At, Admitted
    <3>3. MutexInv'
      BY <1>1, <1>6, <3>1 DEF RWInv, MutexInv
    <3>4. WriterInv'
      BY <1>6, <3>2 DEF RWInv, WriterInv
    <3> QED
      BY <3>3, <3>4
  <2> QED
    BY <2>1, <2>2
<1>12. FirstInv'
  <2>1. \A u \in Thread : pc'[u] = "In.P" => u = t /\ b = "In.P"
    BY <1>1 DEF RWInv, TypeInv, HolderInv, Locked
  <2>2. b = "In.P" => Counted(g)' = {t}
    BY <1>6, <1>9
  <2> QED
    BY <1>0, <1>1, <2>1, <2>2 DEF FirstInv
<1> QED
  BY <1>3, <1>4, <1>10, <1>11, <1>12 DEF RWInv

\* The first reader gets mutex[f]: there is no writer, and it is the only reader.
LEMMA FirstReaderKeepsInv ==
  ASSUME RWInv, NEW t \in Thread, FirstReader(t)
  PROVE  RWInv'
<1>0. PICK g : g = file[t]
  OBVIOUS
<1>1. /\ pc[t] = "In.P" /\ pc' = [pc EXCEPT ![t] = "In.Release"]
      /\ value[g] > 0
      /\ value' = [value EXCEPT ![g] = @ - 1]
      /\ UNCHANGED <<holder, waiting, waking, reader_num, file>>
  BY <1>0 DEF FirstReader, Step, P
<1>2. g \in File /\ value[g] \in Nat
  BY <1>0, <1>1 DEF RWInv, FileInv, TypeInv, RWTypeOK, MonitorTypeOK, File
<1>3. TypeInv'
  BY <1>1, <1>2 DEF RWInv, TypeInv, MonitorTypeOK, RWTypeOK, Label, File
<1>4. FileInv' /\ HolderInv'
  BY <1>1 DEF RWInv, TypeInv, FileInv, HolderInv, Locked
<1>5. Taken(g) = {} /\ Writers(g) = {} /\ value[g] = 1
  BY <1>1, <1>2 DEF RWInv, MutexInv
<1>6. /\ \A f : Counted(f)' = Counted(f)
      /\ \A f : Writers(f)' = Writers(f)
      /\ Taken(g)' = Taken(g) \cup {t}
      /\ \A f : f # g => Taken(f)' = Taken(f)
  <2>1. pc'[t] = "In.Release" /\ \A u \in Thread : u # t => pc'[u] = pc[u]
    BY <1>1 DEF RWInv, TypeInv
  <2> QED
    BY <1>0, <1>1, <2>1 DEF Counted, Taken, Writers, At, Admitted
<1>7. NumberInv'
  BY <1>1, <1>6 DEF RWInv, NumberInv
<1>8. MutexInv'
  <2>1. value'[g] = 0 /\ \A f \in File : f # g => value'[f] = value[f]
    BY <1>1, <1>2, <1>5 DEF RWInv, TypeInv, MonitorTypeOK, File
  <2> QED
    BY <1>6, <2>1 DEF RWInv, MutexInv
<1>9. WriterInv'
  BY <1>5, <1>6 DEF RWInv, WriterInv
<1>10. FirstInv'
  BY <1>1, <1>6 DEF RWInv, TypeInv, FirstInv
<1> QED
  BY <1>3, <1>4, <1>7, <1>8, <1>9, <1>10 DEF RWInv

\* reader_num is decremented.  The last reader gives mutex[f] back; otherwise
\* the remaining ones keep it.
LEMMA CountOutKeepsInv ==
  ASSUME RWInv, NEW t \in Thread, CountOut(t)
  PROVE  RWInv'
<1>0. PICK g : g = file[t]
  OBVIOUS
<1> DEFINE n == reader_num[g] - 1
<1>1. /\ pc[t] = "Out.count" /\ pc' = [pc EXCEPT ![t] = "Out.Release"]
      /\ reader_num' = [reader_num EXCEPT ![g] = n]
      /\ n = 0 => value' = [value EXCEPT ![g] = @ + 1]
      /\ n # 0 => value' = value
      /\ UNCHANGED <<holder, waiting, waking, file>>
  BY <1>0 DEF CountOut, Step, Last, V, monitorVars
<1>2. g \in File /\ reader_num[g] \in Nat /\ value[g] \in Nat
  BY <1>0, <1>1 DEF RWInv, FileInv, TypeInv, RWTypeOK, MonitorTypeOK, File
<1>3. t \in Counted(g) /\ \A f : Counted(f) = Taken(f)
  BY <1>0, <1>1, CountedAreTaken DEF Taken, At, Admitted
<1>4. /\ Counted(g)' = Counted(g) \ {t}
      /\ Taken(g)' = Counted(g) \ {t}
      /\ \A f : f # g => Counted(f)' = Counted(f) /\ Taken(f)' = Taken(f)
      /\ \A f : Writers(f)' = Writers(f)
  <2>1. pc'[t] = "Out.Release" /\ \A u \in Thread : u # t => pc'[u] = pc[u]
    BY <1>1 DEF RWInv, TypeInv
  <2>2. \A u \in Thread : pc[u] # "In.P"
    BY <1>1 DEF RWInv, HolderInv, Locked
  <2> QED
    BY <1>0, <1>1, <2>1, <2>2 DEF Counted, Taken, Writers, At, Admitted
<1>5. Cardinality(Counted(g)) = reader_num[g]
  BY <1>2 DEF RWInv, NumberInv
<1>6. /\ Cardinality(Counted(g) \ {t}) = n
      /\ IsFiniteSet(Counted(g) \ {t})
  BY <1>3, <1>5, CountedFinite, FS_RemoveElement
<1>7. n \in Nat /\ (n = 0 <=> Counted(g) \ {t} = {})
  BY Zenon, <1>6, FS_EmptySet, FS_CardinalityType
<1>8. TypeInv'
  <2>1. reader_num' \in [File -> Nat] /\ value' \in [Semaphore -> Nat]
    BY <1>1, <1>2, <1>7 DEF RWInv, TypeInv, MonitorTypeOK, RWTypeOK, File
  <2> QED
    BY <1>1, <2>1 DEF RWInv, TypeInv, MonitorTypeOK, RWTypeOK, Label
<1>9. FileInv' /\ HolderInv'
  BY <1>1 DEF RWInv, TypeInv, FileInv, HolderInv, Locked
<1>10. NumberInv'
  <2>1. reader_num'[g] = n /\ \A f \in File : f # g => reader_num'[f] = reader_num[f]
    BY <1>1, <1>2 DEF RWInv, TypeInv, RWTypeOK
  <2> QED
    BY <1>4, <1>6, <2>1 DEF RWInv, NumberInv
<1>11. value[g] = 0 /\ Writers(g) = {}
  <2>1. value[g] = 0
    BY <1>2, <1>3 DEF RWInv, MutexInv
  <2>2. t \notin Writers(g)
    BY <1>1 DEF Writers, At
  <2> QED
    BY <1>2, <1>3, <2>1, <2>2 DEF RWInv, WriterInv
<1>12. MutexInv'
  <2>1. \A f \in File : f # g => value'[f] = value[f]
    BY <1>1, <1>2 DEF RWInv, TypeInv, MonitorTypeOK, File
  <2>2. value'[g] = IF n = 0 THEN 1 ELSE 0
    BY <1>1, <1>2, <1>11 DEF RWInv, TypeInv, MonitorTypeOK, File
  <2> QED
    BY <1>4, <1>7, <1>11, <2>1, <2>2 DEF RWInv, MutexInv
<1>13. WriterInv'
  BY <1>4, <1>11 DEF RWInv, WriterInv
<1>14. FirstInv'
  BY <1>1 DEF RWInv, TypeInv, HolderInv, Locked, FirstInv
<1> QED
  BY <1>8, <1>9, <1>10, <1>12, <1>13, <1>14 DEF RWInv

\* A writer gets mutex[f]: nobody reads or writes the file.
LEMMA WriteBeginKeepsInv ==
  ASSUME RWInv, NEW t \in Thread, WriteBegin(t)
  PROVE  RWInv'
<1>0. PICK g : g = file[t]
  OBVIOUS
<1>1. /\ pc[t] = "WriteBegin" /\ pc' = [pc EXCEPT ![t] = "writing"]
      /\ value[g] > 0
      /\ value' = [value EXCEPT ![g] = @ - 1]
      /\ UNCHANGED <<holder, waiting, waking, reader_num, file>>
  BY <1>0 DEF WriteBegin, Step, P
<1>2. g \in File /\ value[g] \in Nat
  BY <1>0, <1>1 DEF RWInv, FileInv, TypeInv, RWTypeOK, MonitorTypeOK, File
<1>3. TypeInv'
  BY <1>1, <1>2 DEF RWInv, TypeInv, MonitorTypeOK, RWTypeOK, Label, File
<1>4. FileInv' /\ HolderInv'
  BY <1>1 DEF RWInv, TypeInv, FileInv, HolderInv, Locked
<1>5. Taken(g) = {} /\ Writers(g) = {} /\ value[g] = 1
  BY <1>1, <1>2 DEF RWInv, MutexInv
<1>6. /\ \A f : Counted(f)' = Counted(f) /\ Taken(f)' = Taken(f)
      /\ Writers(g)' = Writers(g) \cup {t}
      /\ \A f : f # g => Writers(f)' = Writers(f)
  <2>1. pc'[t] = "writing" /\ \A u \in Thread : u # t => pc'[u] = pc[u]
    BY <1>1 DEF RWInv, TypeInv
  <2> QED
    BY <1>0, <1>1, <2>1 DEF Counted, Taken, Writers, At, Admitted
<1>7. NumberInv'
  BY <1>1, <1>6 DEF RWInv, NumberInv
<1>8. MutexInv'
  <2>1. value'[g] = 0 /\ \A f \in File : f # g => value'[f] = value[f]
    BY <1>1, <1>2, <1>5 DEF RWInv, TypeInv, MonitorTypeOK, File
  <2> QED
    BY <1>6, <2>1 DEF RWInv, MutexInv
<1>9. WriterInv'
  BY <1>5, <1>6 DEF RWInv, WriterInv
<1>10. FirstInv'
  BY <1>1, <1>6 DEF RWInv, TypeInv, FirstInv
<1> QED
  BY <1>3, <1>4, <1>7, <1>8, <1>9, <1>10 DEF RWInv

\* WriteDone gives mutex[f] back.
LEMMA WriteDoneKeepsInv ==
  ASSUME RWInv, NEW t \in Thread, WriteDone(t)
  PROVE  RWInv'
<1>0. PICK g : g = file[t]
  OBVIOUS
<1>1. /\ pc[t] = "writing" /\ pc' = [pc EXCEPT ![t] = "idle"]
      /\ value' = [value EXCEPT ![g] = @ + 1]
      /\ file' = [file EXCEPT ![t] = NULL]
      /\ UNCHANGED <<holder, waiting, waking, reader_num>>
  BY <1>0 DEF WriteDone, Step, V
<1>2. g \in File /\ value[g] \in Nat
  BY <1>0, <1>1 DEF RWInv, FileInv, TypeInv, RWTypeOK, MonitorTypeOK, File
<1>3. TypeInv'
  BY <1>1, <1>2 DEF RWInv, TypeInv, MonitorTypeOK, RWTypeOK, Label, File
<1>4. FileInv' /\ HolderInv'
  BY <1>1 DEF RWInv, TypeInv, RWTypeOK, FileInv, HolderInv, Locked
<1>5. t \in Writers(g)
  BY <1>0, <1>1 DEF Writers, At
<1>6. Taken(g) = {} /\ Writers(g) = {t} /\ value[g] = 0
  <2>1. t \notin Taken(g)
    BY <1>1 DEF Taken, At, Admitted
  <2> QED
    BY <1>2, <1>5, <2>1 DEF RWInv, WriterInv, MutexInv
<1>7. /\ \A f : Counted(f)' = Counted(f) /\ Taken(f)' = Taken(f)
      /\ Writers(g)' = Writers(g) \ {t}
      /\ \A f : f # g => Writers(f)' = Writers(f)
  <2>1. /\ pc'[t] = "idle"
        /\ \A u \in Thread : u # t => pc'[u] = pc[u] /\ file'[u] = file[u]
    BY <1>1 DEF RWInv, TypeInv, RWTypeOK
  <2> QED
    BY <1>0, <1>1, <2>1 DEF Counted, Taken, Writers, At, Admitted
<1>8. NumberInv'
  BY <1>1, <1>7 DEF RWInv, NumberInv
<1>9. MutexInv'
  <2>1. value'[g] = 1 /\ \A f \in File : f # g => value'[f] = value[f]
    BY <1>1, <1>2, <1>6 DEF RWInv, TypeInv, MonitorTypeOK, File
  <2>2. Taken(g)' = {} /\ Writers(g)' = {}
    BY <1>6, <1>7
  <2> QED
    BY <1>7, <2>1, <2>2 DEF RWInv, MutexInv
<1>10. WriterInv'
  BY <1>6, <1>7 DEF RWInv, WriterInv
<1>11. FirstInv'
  <2>1. \A u \in Thread : pc'[u] = "In.P" => pc[u] = "In.P" /\ file'[u] = file[u]
    BY <1>1 DEF RWInv, TypeInv, RWTypeOK
  <2> QED
    BY <1>7, <2>1 DEF RWInv, FirstInv
<1> QED
  BY <1>3, <1>4, <1>8, <1>9, <1>10, <1>11 DEF RWInv

\* The inductive invariant of the protocol: readerLock, the counts and the
\* mutexes agree with where the threads are.
THEOREM ReadersWritersCorrect == RWSpec => []RWInv
<1> DEFINE vars == <<monitorVars, pc, rwlockVars>>
<1>1. MonitorInit /\ RWInit /\ pc = [t \in Thread |-> "idle"] => RWInv
  BY InitRWInv
<1>2. RWInv /\ [RWNext]_vars => RWInv'
  <2> SUFFICES ASSUME RWInv, [RWNext]_vars PROVE RWInv'
    OBVIOUS
  <2>1. CASE RWNext
    BY <2>1, CallFileKeepsInv, LockReadersKeepsInv, CountInKeepsInv, FirstReaderKeepsInv,
       UnlockReadersKeepsInv, ReaderOutKeepsInv, CountOutKeepsInv, WriteBeginKeepsInv,
       WriteDoneKeepsInv DEF RWNext
  <2>2. CASE UNCHANGED vars
    <3> USE <2>2 DEF monitorVars, rwlockVars
    <3>1. TypeInv' /\ FileInv' /\ HolderInv'
      BY DEF RWInv, TypeInv, MonitorTypeOK, RWTypeOK, FileInv, HolderInv
    <3>2. \A f : Counted(f)' = Counted(f) /\ Taken(f)' = Taken(f) /\ Writers(f)' = Writers(f)
      BY DEF Counted, Taken, Writers, At
    <3>3. NumberInv' /\ MutexInv'
      BY <3>2 DEF RWInv, NumberInv, MutexInv
    <3>4. WriterInv' /\ FirstInv'
      BY <3>2 DEF RWInv, WriterInv, FirstInv
    <3> QED
      BY <3>1, <3>3, <3>4 DEF RWInv
  <2> QED
    BY <2>1, <2>2
<1> QED
  BY <1>1, <1>2, PTL DEF RWSpec

\* What a thread's step from one label to another does to the abstract lock,
\* where the thread neither was reading or writing nor is afterwards.
LEMMA StutterFacts ==
  ASSUME RWInv, NEW t \in Thread, NEW b \in Label, pc' = [pc EXCEPT ![t] = b],
         \A u \in Thread : u # t => file'[u] = file[u],
         pc[t] \notin {"reading", "writing"}, b \notin {"reading", "writing"}
  PROVE  UNCHANGED Files!rwVars
<1>1. pc'[t] = b /\ \A u \in Thread : u # t => pc'[u] = pc[u]
  BY DEF RWInv, TypeInv
<1>2. \A u \in Thread : /\ Using(u, "reading")' = Using(u, "reading")
                        /\ Using(u, "writing")' = Using(u, "writing")
  BY <1>1 DEF Using
<1> QED
  BY <1>2 DEF Files!rwVars

\* ReaderIn returns while nobody writes the file; ReaderOut ends with its call.
LEMMA UnlockReadersRefines ==
  ASSUME RWInv, NEW t \in Thread, UnlockReaders(t)
  PROVE  [Files!LockNext]_(Files!rwVars)
<1>1. CASE Step(t, "In.Release", "reading") /\ UNCHANGED file
  <2>0. PICK g : g = file[t]
    OBVIOUS
  <2>1. /\ pc[t] = "In.Release" /\ pc'[t] = "reading"
        /\ \A u \in Thread : u # t => pc'[u] = pc[u]
        /\ file' = file
    BY <1>1 DEF Step, RWInv, TypeInv
  <2>2. g \in File
    BY <2>0, <2>1 DEF RWInv, FileInv, TypeInv, RWTypeOK
  <2>3. t \in Taken(g)
    BY <2>0, <2>1 DEF Taken, At, Admitted
  <2>4. \A u \in Thread : Using(u, "writing") # g
    BY <2>1, <2>2, <2>3 DEF Using, RWInv, WriterInv, Writers, At
  <2>5. /\ Using(t, "reading") = NULL /\ Using(t, "writing") = NULL
        /\ Using(t, "reading")' = g
        /\ \A u \in Thread : /\ u # t => Using(u, "reading")' = Using(u, "reading")
                             /\ Using(u, "writing")' = Using(u, "writing")
    BY <2>0, <2>1 DEF Using
  <2>6. Files!StartRead(t, g)
    BY Zenon, <2>4, <2>5 DEF Files!StartRead, Files!Outside
  <2> QED
    BY <2>2, <2>6 DEF Files!LockNext
<1>2. CASE Step(t, "Out.Release", "idle") /\ file' = [file EXCEPT ![t] = NULL]
  <2>1. \A u \in Thread : u # t => file'[u] = file[u]
    BY <1>2 DEF RWInv, TypeInv, RWTypeOK
  <2>2. UNCHANGED Files!rwVars
    BY Zenon, <1>2, <2>1, StutterFacts DEF Step, Label
  <2> QED
    BY <2>2
<1> QED
  BY <1>1, <1>2 DEF UnlockReaders

\* ReaderOut ends the abstract read.
LEMMA ReaderOutRefines ==
  ASSUME RWInv, NEW t \in Thread, ReaderOut(t)
  PROVE  Files!LockNext
<1>1. /\ pc[t] = "reading" /\ pc'[t] = "Out.Acquire"
      /\ \A u \in Thread : u # t => pc'[u] = pc[u]
      /\ file' = file
  BY DEF ReaderOut, Step, RWInv, TypeInv
<1>2. file[t] # NULL
  BY <1>1 DEF RWInv, FileInv
<1>3. /\ Using(t, "reading") # NULL /\ Using(t, "reading")' = NULL
      /\ \A u \in Thread : /\ u # t => Using(u, "reading")' = Using(u, "reading")
                           /\ Using(u, "writing")' = Using(u, "writing")
  BY <1>1, <1>2 DEF Using
<1>4. Files!EndRead(t)
  BY Zenon, <1>3 DEF Files!EndRead
<1> QED
  BY <1>4 DEF Files!LockNext

\* WriteBegin returns while nobody reads or writes the file.
LEMMA WriteBeginRefines ==
  ASSUME RWInv, NEW t \in Thread, WriteBegin(t)
  PROVE  Files!LockNext
<1>0. PICK g : g = file[t]
  OBVIOUS
<1>1. /\ pc[t] = "WriteBegin" /\ pc'[t] = "writing"
      /\ \A u \in Thread : u # t => pc'[u] = pc[u]
      /\ file' = file /\ value[g] > 0
  BY <1>0 DEF WriteBegin, Step, P, RWInv, TypeInv
<1>2. g \in File
  BY <1>0, <1>1 DEF RWInv, FileInv, TypeInv, RWTypeOK
<1>3. Taken(g) = {} /\ Writers(g) = {}
  BY <1>1, <1>2 DEF RWInv, MutexInv
<1>4. \A u \in Thread : Using(u, "reading") # g /\ Using(u, "writing") # g
  BY <1>2, <1>3 DEF Using, Taken, Writers, At, Admitted
<1>5. /\ Using(t, "reading") = NULL /\ Using(t, "writing") = NULL
      /\ Using(t, "writing")' = g
      /\ \A u \in Thread : /\ u # t => Using(u, "writing")' = Using(u, "writing")
                           /\ Using(u, "reading")' = Using(u, "reading")
  BY <1>0, <1>1 DEF Using
<1>6. Files!StartWrite(t, g)
  BY Zenon, <1>4, <1>5 DEF Files!StartWrite, Files!Outside
<1> QED
  BY <1>2, <1>6 DEF Files!LockNext

\* WriteDone ends the abstract write.
LEMMA WriteDoneRefines ==
  ASSUME RWInv, NEW t \in Thread, WriteDone(t)
  PROVE  Files!LockNext
<1>1. /\ pc[t] = "writing" /\ pc'[t] = "idle"
      /\ \A u \in Thread : u # t => pc'[u] = pc[u] /\ file'[u] = file[u]
  BY DEF WriteDone, Step, RWInv, TypeInv, RWTypeOK
<1>2. file[t] # NULL
  BY <1>1 DEF RWInv, FileInv
<1>3. /\ Using(t, "writing") # NULL /\ Using(t, "writing")' = NULL
      /\ \A u \in Thread : /\ u # t => Using(u, "writing")' = Using(u, "writing")
                           /\ Using(u, "reading")' = Using(u, "reading")
  BY <1>1, <1>2 DEF Using
<1>4. Files!EndWrite(t)
  BY Zenon, <1>3 DEF Files!EndWrite
<1> QED
  BY <1>4 DEF Files!LockNext

\* The other steps of the protocol are not seen by the callers.
LEMMA OthersRefine ==
  ASSUME RWInv, NEW t \in Thread,
         \/ \E f \in File : CallFile(t, f)
         \/ LockReaders(t) \/ CountIn(t) \/ FirstReader(t) \/ CountOut(t)
  PROVE  UNCHANGED Files!rwVars
<1>1. PICK b \in Label : /\ pc' = [pc EXCEPT ![t] = b]
                         /\ pc[t] \notin {"reading", "writing"}
                         /\ b \notin {"reading", "writing"}
  BY DEF CallFile, LockReaders, CountIn, FirstReader, CountOut, Step, Label
<1>2. \A u \in Thread : u # t => file'[u] = file[u]
  BY DEF CallFile, LockReaders, CountIn, FirstReader, CountOut, RWInv, TypeInv, RWTypeOK
<1> QED
  BY Zenon, <1>1, <1>2, StutterFacts

\* The file locks are exact for any number of threads and files: the protocol of
\* ReaderIn, ReaderOut, WriteBegin and WriteDone implements RWLock, reader_num
\* counts the readers, and a first reader that waits with readerLock in its hands
\* waits for a writer, which can finish.
THEOREM FileLocksCorrect == RWSpec => FileLocksExact
<1> DEFINE vars == <<monitorVars, pc, rwlockVars>>
<1>1. MonitorInit /\ RWInit /\ pc = [t \in Thread |-> "idle"] => Files!LockInit
  BY DEF Files!LockInit, Using
<1>2. RWInv /\ [RWNext]_vars => [Files!LockNext]_(Files!rwVars)
  <2>1. ASSUME RWInv, RWNext PROVE [Files!LockNext]_(Files!rwVars)
    BY <2>1, OthersRefine, UnlockReadersRefines, ReaderOutRefines, WriteBeginRefines,
       WriteDoneRefines DEF RWNext
  <2>2. ASSUME UNCHANGED vars PROVE UNCHANGED Files!rwVars
    BY <2>2 DEF Files!rwVars, Using, rwlockVars
  <2> QED
    BY <2>1, <2>2
<1>3. RWInv => RWTypeOK /\ CountsExact /\ FirstReaderWaitsForWriter
  <2> SUFFICES ASSUME RWInv PROVE RWTypeOK /\ CountsExact /\ FirstReaderWaitsForWriter
    OBVIOUS
  <2>1. RWTypeOK
    BY DEF RWInv, TypeInv
  <2>2. CountsExact
    <3>1. \A f : /\ Counted(f) = At(f, {"In.P", "In.Release", "reading", "Out.Acquire", "Out.count"})
                 /\ Taken(f) = Counted(f) \ At(f, {"In.P"})
      BY DEF Counted, Taken, At, Admitted
    <3> QED
      BY <3>1 DEF RWInv, NumberInv, MutexInv, Writers, CountsExact
  <2>3. FirstReaderWaitsForWriter
    <3> SUFFICES ASSUME NEW t \in Thread, pc[t] = "In.P", value[file[t]] = 0
                 PROVE  Writers(file[t]) # {}
      BY DEF FirstReaderWaitsForWriter, Writers
    <3>1. file[t] \in File
      BY DEF RWInv, FileInv, TypeInv, RWTypeOK
    <3>2. Taken(file[t]) = {}
      <4>1. Counted(file[t]) = {t}
        BY DEF RWInv, FirstInv
      <4>2. Taken(file[t]) \subseteq Counted(file[t]) /\ t \notin Taken(file[t])
        BY DEF Counted, Taken, At, Admitted
      <4> QED
        BY <4>1, <4>2
    <3> QED
      BY <3>1, <3>2 DEF RWInv, MutexInv
  <2> QED
    BY <2>1, <2>2, <2>3
<1> QED
  BY <1>1, <1>2, <1>3, ReadersWritersCorrect, PTL
     DEF RWSpec, FileLocksExact, ImplementsRWLock, Files!LockSpec
=============================================================================
