---------------------------- MODULE ReadersWriters ----------------------------
(***************************************************************************)
(* The readers-writers protocol of the file system: SynchDisk::ReaderIn,   *)
(* ReaderOut, WriteBegin and WriteDone (filesys/synchdisk.cc), called by   *)
(* OpenFile::Read and OpenFile::Write (filesys/openfile.cc) around every   *)
(* transfer.  A file is known by the sector of its header; the semaphore   *)
(* mutex[f] is written f.                                                  *)
(***************************************************************************)
EXTENDS Client

CONSTANT readerLock      \* one lock for the reader counts of all files

File == Semaphore

ASSUME ReadersWritersAssumption ==
  /\ readerLock \in Lock /\ InitValue = [f \in File |-> 1]
  /\ NULL \notin File /\ IsFiniteSet(Thread)

VARIABLES
  reader_num,   \* SynchDisk::reader_num
  file          \* the file each thread works on

rwlockVars == <<reader_num, file>>

RWTypeOK ==
  /\ reader_num \in [File -> Nat]
  /\ file \in [Thread -> File \cup {NULL}]

RWInit ==
  /\ reader_num = [f \in File |-> 0]
  /\ file = [t \in Thread |-> NULL]

\* OpenFile::Read or OpenFile::Write is called.
CallFile(t, f) ==
  /\ Step(t, "idle", "In.Acquire") \/ Step(t, "idle", "WriteBegin")
  /\ file' = [file EXCEPT ![t] = f]
  /\ UNCHANGED <<monitorVars, reader_num>>

\* Acquire and Release of readerLock, in ReaderIn and in ReaderOut.
LockReaders(t) ==
  /\ Step(t, "In.Acquire", "In.count") \/ Step(t, "Out.Acquire", "Out.count")
  /\ Acquire(t, readerLock)
  /\ UNCHANGED <<reader_num, file>>

UnlockReaders(t) ==
  /\ \/ Step(t, "In.Release", "reading") /\ UNCHANGED file
     \/ Step(t, "Out.Release", "idle") /\ file' = [file EXCEPT ![t] = NULL]
  /\ Release(t, readerLock)
  /\ UNCHANGED reader_num

\* Mutant: reader_num is tested before it is incremented.
First_TestBefore(n) == n = 0

\* Does the reader that makes the count n have to lock out the writers?
First(n) == n = 1

\* Does the reader that makes the count n have to let the writers in?
Last(n) == n = 0

CountIn(t) ==
  LET n == reader_num[file[t]] + 1 IN
  /\ \/ Step(t, "In.count", "In.P") /\ First(n)
     \/ Step(t, "In.count", "In.Release") /\ ~First(n)
  /\ reader_num' = [reader_num EXCEPT ![file[t]] = n]
  /\ UNCHANGED <<monitorVars, file>>

\* The first reader waits for the writer while it holds readerLock.
FirstReader(t) ==
  /\ Step(t, "In.P", "In.Release")
  /\ P(t, file[t])
  /\ UNCHANGED <<reader_num, file>>

ReaderOut(t) ==
  /\ Step(t, "reading", "Out.Acquire")
  /\ UNCHANGED <<monitorVars, reader_num, file>>

CountOut(t) ==
  LET n == reader_num[file[t]] - 1 IN
  /\ Step(t, "Out.count", "Out.Release")
  /\ reader_num' = [reader_num EXCEPT ![file[t]] = n]
  /\ \/ Last(n)  /\ V(file[t])
     \/ ~Last(n) /\ UNCHANGED monitorVars
  /\ UNCHANGED file

WriteBegin(t) ==
  /\ Step(t, "WriteBegin", "writing")
  /\ P(t, file[t])
  /\ UNCHANGED <<reader_num, file>>

WriteDone(t) ==
  /\ Step(t, "writing", "idle")
  /\ V(file[t])
  /\ file' = [file EXCEPT ![t] = NULL]
  /\ UNCHANGED reader_num

RWNext ==
  \E t \in Thread :
    \/ \E f \in File : CallFile(t, f)
    \/ LockReaders(t) \/ CountIn(t) \/ FirstReader(t) \/ UnlockReaders(t)
    \/ ReaderOut(t) \/ CountOut(t) \/ WriteBegin(t) \/ WriteDone(t)

\* The protocol by itself; module Clients runs it beside other services.
RWSpec ==
  /\ MonitorInit /\ RWInit /\ pc = [t \in Thread |-> "idle"]
  /\ [][RWNext]_<<monitorVars, pc, rwlockVars>>

-----------------------------------------------------------------------------
(* Properties.                                                             *)

At(f, labels) == {t \in Thread : file[t] = f /\ pc[t] \in labels}

Using(t, label) == IF pc[t] = label THEN file[t] ELSE NULL

Files == INSTANCE RWLock WITH
  reading <- [t \in Thread |-> Using(t, "reading")],
  writing <- [t \in Thread |-> Using(t, "writing")]

\* The protocol implements RWLock: whatever the interleaving of ReaderIn,
\* ReaderOut, WriteBegin and WriteDone, a file is read by many or written by
\* one.
ImplementsRWLock == Files!LockSpec

\* The readers that have passed In.count and not yet Out.count are the ones
\* counted, and mutex[f] is taken exactly while there is a writer, or a first
\* reader that got it and no last reader that gave it back.
CountsExact ==
  \A f \in File :
    LET counted == At(f, {"In.P", "In.Release", "reading", "Out.Acquire", "Out.count"})
        taken   == counted \ At(f, {"In.P"})
    IN  /\ reader_num[f] = Cardinality(counted)
        /\ value[f] = IF taken # {} \/ At(f, {"writing"}) # {} THEN 0 ELSE 1

\* The first reader of a file waits for mutex[f] with readerLock in its hands,
\* and so holds up ReaderIn and ReaderOut of every file.  It waits only for a
\* writer, which needs no lock to finish: the wait cannot close into a cycle.
FirstReaderWaitsForWriter ==
  \A t \in Thread :
    pc[t] = "In.P" /\ value[file[t]] = 0 => At(file[t], {"writing"}) # {}

\* The file locks keep readers and writers apart, count their readers exactly,
\* and cannot deadlock through the one readerLock that all files share.
FileLocksExact == ImplementsRWLock /\ [](RWTypeOK /\ CountsExact /\ FirstReaderWaitsForWriter)
==============================================================================
