-------------------------------- MODULE RWLock --------------------------------
(***************************************************************************)
(* What the readers-writers protocol promises to OpenFile: a file is read  *)
(* by any number of threads or written by one.  Module ReadersWriters      *)
(* implements it; module FileSystem is built on it.                        *)
(***************************************************************************)
EXTENDS Naturals

CONSTANTS Thread, File, NULL

VARIABLES reading, writing    \* the file each thread reads or writes, or NULL

rwVars == <<reading, writing>>

LockInit == reading = [t \in Thread |-> NULL] /\ writing = [t \in Thread |-> NULL]

Outside(t) == reading[t] = NULL /\ writing[t] = NULL

\* ReaderIn returns.
StartRead(t, f) ==
  /\ Outside(t) /\ \A u \in Thread : writing[u] # f
  /\ reading' = [reading EXCEPT ![t] = f] /\ UNCHANGED writing

\* ReaderOut is called.
EndRead(t) ==
  /\ reading[t] # NULL
  /\ reading' = [reading EXCEPT ![t] = NULL] /\ UNCHANGED writing

\* WriteBegin returns.
StartWrite(t, f) ==
  /\ Outside(t) /\ \A u \in Thread : reading[u] # f /\ writing[u] # f
  /\ writing' = [writing EXCEPT ![t] = f] /\ UNCHANGED reading

\* WriteDone is called.
EndWrite(t) ==
  /\ writing[t] # NULL
  /\ writing' = [writing EXCEPT ![t] = NULL] /\ UNCHANGED reading

LockNext ==
  \E t \in Thread :
    \/ \E f \in File : StartRead(t, f) \/ StartWrite(t, f)
    \/ EndRead(t) \/ EndWrite(t)

LockSpec == LockInit /\ [][LockNext]_rwVars
==============================================================================
