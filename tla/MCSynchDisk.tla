----------------------------- MODULE MCSynchDisk -----------------------------
(* Threads reading and writing two sectors through a cache of two slots.   *)
EXTENDS SynchDisk

MCInitValue == [s \in Semaphore |-> 0]
MCCondLock  == [c \in Condition |-> lock]
==============================================================================
