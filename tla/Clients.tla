------------------------------- MODULE Clients -------------------------------
(***************************************************************************)
(* The users of semaphores, locks and conditions among the kernel's own    *)
(* services.  In one behaviour the threads use one service: the file locks *)
(* of SynchDisk, a SynchList, the Barrier, or the message table; no thread *)
(* holds something of one service while it calls another.                  *)
(***************************************************************************)
EXTENDS ReadersWriters, SynchList, Barrier, Messages

VARIABLE service

clientVars == <<monitorVars, pc, service,
                rwlockVars, listVars, barrierVars, messageVars>>

Init ==
  /\ MonitorInit
  /\ pc = [t \in Thread |-> "idle"]
  /\ service \in {"files", "list", "barrier", "messages"}
  /\ RWInit /\ ListInit /\ BarrierInit /\ MessagesInit

Next ==
  \/ service = "files" /\ RWNext /\ UNCHANGED <<service, listVars, barrierVars, messageVars>>
  \/ service = "list" /\ ListNext /\ UNCHANGED <<service, rwlockVars, barrierVars, messageVars>>
  \/ service = "barrier" /\ BarrierNext /\ UNCHANGED <<service, rwlockVars, listVars, messageVars>>
  \/ service = "messages" /\ MessagesNext /\ UNCHANGED <<service, rwlockVars, listVars, barrierVars>>

\* A thread inside Barrier keeps running, and with finitely many calls to come
\* the lock is not taken from under a waiter for ever.
Fairness ==
  \A t \in Thread :
    WF_clientVars(/\ service = "barrier"
                  /\ BarrierAcquire(t) \/ Arrive(t) \/ Woken(t) \/ BarrierRelease(t)
                  /\ UNCHANGED <<service, rwlockVars, listVars, messageVars>>)

Spec == Init /\ [][Next]_clientVars /\ Fairness
==============================================================================
