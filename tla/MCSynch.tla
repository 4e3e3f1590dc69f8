------------------------------- MODULE MCSynch -------------------------------
(* One semaphore, one lock and one condition shared by up to three threads *)
(* and one device whose handler signals the semaphore.                     *)
EXTENDS Synch

CONSTANTS s1, l1

MCInitValue == [s \in Semaphore |-> 0]
MCCondLock  == [c \in Condition |-> l1]
MCDevSem    == [d \in Device |-> s1]
==============================================================================
