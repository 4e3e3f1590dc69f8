-------------------------------- MODULE Client --------------------------------
(***************************************************************************)
(* Threads that use semaphores, locks and conditions: pc[t] is the call    *)
(* that thread t is about to make, or "idle".  Between two such calls a    *)
(* thread cannot lose the CPU, so its own code there is part of a step.    *)
(***************************************************************************)
EXTENDS Monitor, FiniteSets

VARIABLE pc

Step(t, from, to) == pc[t] = from /\ pc' = [pc EXCEPT ![t] = to]
==============================================================================
