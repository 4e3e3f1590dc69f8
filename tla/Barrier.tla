------------------------------- MODULE Barrier -------------------------------
(***************************************************************************)
(* Barrier(max_num) of threads/synch.cc: a lock, a condition and a counter *)
(* that is never reset.  Between two lock or condition calls the thread    *)
(* cannot lose the CPU, so counting and the Broadcast or Wait that follows *)
(* it are one step.                                                        *)
(***************************************************************************)
EXTENDS Client

CONSTANTS
  barrierLock, barrierCond,
  max_num,
  MaxCalls      \* bound: calls of Barrier per thread

ASSUME BarrierAssumption ==
  /\ barrierLock \in Lock /\ barrierCond \in Condition
  /\ CondLock[barrierCond] = barrierLock
  /\ max_num \in Nat \ {0} /\ MaxCalls \in Nat

VARIABLES barrierCnt,
          calls, passed    \* how often each thread has called Barrier, returned

barrierVars == <<barrierCnt, calls, passed>>

BarrierTypeOK ==
  /\ barrierCnt \in Nat
  /\ calls \in [Thread -> 0 .. MaxCalls]
  /\ passed \in [Thread -> 0 .. MaxCalls]

BarrierInit ==
  /\ barrierCnt = 0
  /\ calls = [t \in Thread |-> 0]
  /\ passed = [t \in Thread |-> 0]

CallBarrier(t) ==
  /\ Step(t, "idle", "Barrier.Acquire")
  /\ calls[t] < MaxCalls
  /\ calls' = [calls EXCEPT ![t] = @ + 1]
  /\ UNCHANGED <<monitorVars, barrierCnt, passed>>

BarrierAcquire(t) ==
  /\ Step(t, "Barrier.Acquire", "Barrier.count")
  /\ Acquire(t, barrierLock)
  /\ UNCHANGED <<barrierCnt, calls, passed>>

\* Mutant: one thread too few.
Full_OneShort(n) == n = max_num - 1
Full(n) == n = max_num

\* Mutant: one waiter is signalled instead of all.
Open_SignalsOne(t) == Signal(t, barrierCond)

Open(t) == Broadcast(t, barrierCond)

Arrive(t) ==
  /\ barrierCnt' = barrierCnt + 1
  /\ \/ Step(t, "Barrier.count", "Barrier.Release") /\ Full(barrierCnt') /\ Open(t)
     \/ Step(t, "Barrier.count", "Barrier.Wait") /\ ~Full(barrierCnt') /\ Wait(t, barrierCond)
  /\ UNCHANGED <<calls, passed>>

Woken(t) ==
  /\ Step(t, "Barrier.Wait", "Barrier.Release")
  /\ WaitReturns(t)
  /\ UNCHANGED <<barrierCnt, calls, passed>>

BarrierRelease(t) ==
  /\ Step(t, "Barrier.Release", "idle")
  /\ Release(t, barrierLock)
  /\ passed' = [passed EXCEPT ![t] = @ + 1]
  /\ UNCHANGED <<barrierCnt, calls>>

BarrierNext ==
  \E t \in Thread : CallBarrier(t) \/ BarrierAcquire(t) \/ Arrive(t) \/ Woken(t) \/ BarrierRelease(t)

\* The barrier by itself; module Clients runs it beside other services.
BarrierSpec ==
  /\ MonitorInit /\ BarrierInit /\ pc = [t \in Thread |-> "idle"]
  /\ [][BarrierNext]_<<monitorVars, pc, barrierVars>>

-----------------------------------------------------------------------------
(* Properties.                                                             *)

\* Nobody leaves the barrier before max_num threads have arrived.  barrierCnt
\* is never reset, so the barrier opens once: it lets out the first max_num
\* threads, and whoever arrives later stays on the condition's queue, even
\* when max_num more have arrived.
OpensOnce ==
  /\ BarrierTypeOK
  /\ (\E t \in Thread : pc[t] = "Barrier.Release" \/ passed[t] > 0) => barrierCnt >= max_num
  /\ Len(waiting[barrierCond]) =
       IF barrierCnt < max_num THEN barrierCnt ELSE barrierCnt - max_num

\* Once max_num threads have arrived, each of them gets through.
FirstRoundPasses ==
  \A t \in Thread :
    (barrierCnt = max_num /\ pc[t] \in {"Barrier.Wait", "Barrier.Release"}) ~> passed[t] > 0
==============================================================================
