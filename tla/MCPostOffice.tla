---------------------------- MODULE MCPostOffice ----------------------------
(* Two machines, one of them with two threads that send.                     *)
EXTENDS PostOffice

MCThread    == (Machine \X {"main", "worker"}) \cup (Busy \X {"other"})
MCSemaphore == Machine \X {"messageAvailable", "messageSent"}
MCInitValue == [s \in Semaphore |-> 0]
MCCondLock  == [c \in {} |-> 0]
=============================================================================
