------------------------------ MODULE MCClients ------------------------------
(* Four threads; two files, one list, one barrier for three threads.       *)
EXTENDS Clients, TLC

MCInitValue == [f \in Semaphore |-> 1]
MCCondLock  == listEmpty :> lock @@ barrierCond :> barrierLock
==============================================================================
