----------------------------- MODULE SynchProofs -----------------------------
(***************************************************************************)
(* Proofs about module Synch, for any number of threads, devices,          *)
(* semaphores, locks and conditions.                                       *)
(***************************************************************************)
EXTENDS MonitorSteps, ThreadsProofs, FiniteSetTheorems

USE SynchAssumption

-----------------------------------------------------------------------------
(* V from an interrupt handler, Condition::Wait and Condition::Broadcast.  *)

\* The handler of a device.
LEMMA DeviceVStep ==
  ASSUME SynchInv, NEW d \in Device, DeviceV(d)
  PROVE  Next /\ ObjectInv'
<1>1. PICK s \in Semaphore : s = DevSem[d]
  OBVIOUS
<1>2. s \in Sem /\ s \in Object
  BY DEF Sem, Object
<1>3. DoV(s) /\ DeviceInterrupt(d, Wakes(s)) /\ UNCHANGED <<owner, held, doing>>
  BY <1>1 DEF DeviceV
<1>4. queue' = [queue EXCEPT ![s] = Rest(@)] /\ Wakes(s) = First(queue[s])
  BY <1>2, <1>3, DoVPops
<1>5. PICK w : w = First(queue[s])
  OBVIOUS
<1>6. /\ w \in Sleeping \cup {NULL}
      /\ queue' \in [Object -> Seq(Thread)]
      /\ \A y \in Object : IsInjective(queue'[y])
      /\ \A t \in Thread, y \in Object :
           t \in Range(queue'[y]) <=> t \in Range(queue[y]) /\ t # w
  BY Zenon, <1>2, <1>4, <1>5, PopFacts
<1>7. DeviceInterrupt(d, w)
  BY <1>3, <1>4, <1>5
<1>8. Next
  BY <1>6, <1>7 DEF Next, KernelOp
<1>9. /\ \A t \in Thread : Inside(t)' <=> Inside(t)
      /\ \A t \in Thread : t \in Sleeping' <=> t \in Sleeping /\ t # w
  BY <1>6, <1>7, DeviceInterruptFacts DEF SynchInv
<1>10. QueuesExact'
  <2>1. \A t \in Thread : t \in Sleeping' <=>
          \E o \in Sem \cup Condition : t \in Range(queue'[o])
    BY <1>6, <1>9 DEF SynchInv, QueuesExact, Object
  <2>2. \A t \in Thread, o \in Sem \cup Condition : t \in Range(queue'[o]) =>
          doing'[t].obj = o /\ (doing'[t].op = "Wait" <=> o \in Condition)
    BY <1>3, <1>6 DEF SynchInv, QueuesExact, Object
  <2>3. \A t \in Thread : doing'[t].op # "none" <=> frame'[t] \in {"Sleep", "synch"}
    BY Zenon, <1>3, <1>9 DEF SynchInv, QueuesExact, Inside
  <2> QED
    BY <1>6, <2>1, <2>2, <2>3 DEF QueuesExact, Object
<1>11. value' \in [Sem -> Nat] /\ MutualExclusion'
  BY Zenon, <1>3, RaiseFacts DEF DoV
<1>12. SynchTypeOK' /\ DoingInv'
  BY <1>3, <1>6, <1>11 DEF SynchInv, SynchTypeOK, DoingInv, Object
<1> QED
  BY <1>8, <1>10, <1>11, <1>12 DEF ObjectInv

\* The two queues Wait changes: the lock's loses its first thread, the
\* condition's gains the current one.
LEMMA WaitQueues ==
  ASSUME SynchInv, NEW c \in Condition, NEW l \in Lock, l = CondLock[c], Wait(c),
         NEW w, w = First(queue[l]),
         currentThread \in Thread, currentThread \notin Sleeping
  PROVE  /\ w \in Sleeping \cup {NULL}
         /\ queue' \in [Object -> Seq(Thread)]
         /\ \A y \in Object : IsInjective(queue'[y])
         /\ \A t \in Thread, y \in Object :
              t \in Range(queue'[y]) <=>
                (t \in Range(queue[y]) /\ t # w) \/ (t = currentThread /\ y = c)
<1>1. queue \in [Object -> Seq(Thread)] /\ \A y \in Object : IsInjective(queue[y])
  BY DEF SynchInv, SynchTypeOK, QueuesExact, Object
<1>2. l \in Object /\ c \in Object /\ l # c
  BY DEF Object, Sem
<1>3. /\ Append(queue[c], currentThread) \in Seq(Thread)
      /\ Range(Append(queue[c], currentThread)) = Range(queue[c]) \cup {currentThread}
      /\ IsInjective(Append(queue[c], currentThread))
  <2>1. currentThread \notin Range(queue[c])
    BY <1>2 DEF SynchInv, QueuesExact, Object
  <2> QED
    BY <1>1, <1>2, <2>1, AppendFacts
<1>4. PICK q : q = IF Wakes(l) = NULL THEN queue[l] ELSE Tail(queue[l])
  BY Zenon
<1>5. queue' = [queue EXCEPT ![l] = IF Wakes(l) = NULL THEN @ ELSE Tail(@),
                               ![c] = Append(@, currentThread)]
  BY DEF Wait
<1>6. /\ queue'[l] = q /\ queue'[c] = Append(queue[c], currentThread)
      /\ \A y \in Object : y # l /\ y # c => queue'[y] = queue[y]
  BY Zenon, <1>1, <1>2, <1>4, <1>5
<1>7. /\ w \in Sleeping \cup {NULL} /\ q \in Seq(Thread) /\ IsInjective(q)
      /\ \A t \in Thread : t \in Range(q) <=> t \in Range(queue[l]) /\ t # w
      /\ \A y \in Object : y # l => w \notin Range(queue[y]) \/ w = NULL
  <2>1. CASE queue[l] = <<>>
    <3>1. w = NULL /\ q = queue[l]
      BY Zenon, <1>4, <2>1 DEF Wakes, First
    <3> QED
      BY <1>1, <1>2, <3>1, ThreadsAssumption
  <2>2. CASE queue[l] # <<>>
    <3>1. w = Head(queue[l]) /\ Wakes(l) = w
      BY <2>2 DEF Wakes, First
    <3>2. /\ w \in Thread /\ w \in Range(queue[l])
          /\ Tail(queue[l]) \in Seq(Thread)
          /\ Range(Tail(queue[l])) = Range(queue[l]) \ {w}
          /\ IsInjective(Tail(queue[l]))
      BY <1>1, <1>2, <2>2, <3>1, TailFacts
    <3>3. q = Tail(queue[l])
      BY Zenon, <1>4, <3>1, <3>2, ThreadsAssumption
    <3>4. w \in Sleeping
      BY Zenon, <1>2, <3>2 DEF SynchInv, QueuesExact, Object
    <3>5. \A y \in Object : y # l => w \notin Range(queue[y])
      BY <1>2, <3>2, OneQueue
    <3> QED
      BY <3>2, <3>3, <3>4, <3>5
  <2> QED
    BY <2>1, <2>2
<1>8. queue' \in [Object -> Seq(Thread)]
  BY Zenon, <1>1, <1>2, <1>3, <1>4, <1>7, <1>5
<1>9. \A y \in Object : IsInjective(queue'[y])
  BY Zenon, <1>1, <1>3, <1>6, <1>7
<1>10. \A t \in Thread, y \in Object :
        t \in Range(queue'[y]) <=>
          (t \in Range(queue[y]) /\ t # w) \/ (t = currentThread /\ y = c)
  <2> TAKE t \in Thread, y \in Object
  <2>1. CASE y = l
    BY <1>2, <1>6, <1>7, <2>1
  <2>2. CASE y = c
    BY Zenon, <1>2, <1>3, <1>6, <1>7, <2>2, ThreadsAssumption
  <2>3. CASE y # l /\ y # c
    BY <1>6, <1>7, <2>3, ThreadsAssumption
  <2> QED
    BY <2>1, <2>2, <2>3
<1> QED
  BY <1>7, <1>8, <1>9, <1>10

\* Condition::Wait.
LEMMA WaitStep ==
  ASSUME SynchInv, NEW c \in Condition, Wait(c)
  PROVE  Next /\ ObjectInv'
<1>1. PICK l \in Lock : l = CondLock[c]
  BY Zenon
<1>2. /\ l \in held[currentThread]
      /\ value' = [value EXCEPT ![l] = @ + 1]
      /\ owner' = [owner EXCEPT ![l] = NULL]
      /\ held' = [held EXCEPT ![currentThread] = @ \ {l}]
      /\ Become([op |-> "Wait", obj |-> c])
      /\ Sleep(Wakes(l)) /\ frame[currentThread] = "code"
  BY Zenon, <1>1 DEF Wait, InCode
<1>3. currentThread \in Thread /\ currentThread \notin Sleeping
  BY <1>2 DEF SynchInv, SchedulerInv, TypeOK, Sleeping
<1>4. PICK w : w = First(queue[l])
  BY Zenon
<1>5. /\ w \in Sleeping \cup {NULL}
      /\ queue' \in [Object -> Seq(Thread)]
      /\ \A y \in Object : IsInjective(queue'[y])
      /\ \A t \in Thread, y \in Object :
           t \in Range(queue'[y]) <=>
             (t \in Range(queue[y]) /\ t # w) \/ (t = currentThread /\ y = c)
  BY <1>1, <1>3, <1>4, WaitQueues
<1>6. Sleep(w)
  BY Zenon, <1>2, <1>4 DEF Wakes
<1>7. Next
  BY Zenon, <1>5, <1>6 DEF Next, ThreadOp
<1>8. /\ currentThread' = currentThread
      /\ Inside(currentThread)'
      /\ \A t \in Thread : t # currentThread => (Inside(t)' <=> Inside(t))
      /\ \A t \in Thread :
           t \in Sleeping' <=> (t \in Sleeping /\ t # w) \/ t = currentThread
  BY Zenon, <1>5, <1>6, SleepFacts DEF SynchInv
<1>9. /\ doing' \in [Thread -> [op : Routine, obj : Sem \cup Condition \cup {NULL}]]
      /\ doing'[currentThread] = [op |-> "Wait", obj |-> c]
      /\ \A t \in Thread : t # currentThread => doing'[t] = doing[t]
  <2>1. [op |-> "Wait", obj |-> c] \in [op : Routine, obj : Sem \cup Condition \cup {NULL}]
    BY DEF Routine
  <2> QED
    BY <1>2, <1>3, <2>1, BecomeFacts
<1>10. doing'[currentThread].op = "Wait" /\ doing'[currentThread].obj = c
  BY <1>9
<1>11. QueuesExact'
  <2>1. \A o \in Sem \cup Condition : currentThread \notin Range(queue[o])
    BY Zenon, <1>3 DEF SynchInv, QueuesExact
  <2>2. \A t \in Thread : t \in Sleeping' <=>
          \E o \in Sem \cup Condition : t \in Range(queue'[o])
    BY Zenon, <1>5, <1>8 DEF SynchInv, QueuesExact, Object
  <2>3. ASSUME NEW t \in Thread, NEW o \in Sem \cup Condition, t \in Range(queue'[o])
        PROVE  doing'[t].obj = o /\ (doing'[t].op = "Wait" <=> o \in Condition)
    <3>1. CASE t = currentThread
      <4>1. o = c
        BY Zenon, <1>5, <2>1, <2>3, <3>1 DEF Object
      <4> QED
        BY Zenon, <1>10, <3>1, <4>1
    <3>2. CASE t # currentThread
      <4>1. t \in Range(queue[o]) /\ doing'[t] = doing[t]
        BY Zenon, <1>5, <1>9, <2>3, <3>2 DEF Object
      <4> QED
        BY <4>1 DEF SynchInv, QueuesExact
    <3> QED
      BY Zenon, <3>1, <3>2
  <2>4. ASSUME NEW t \in Thread
        PROVE  doing'[t].op # "none" <=> frame'[t] \in {"Sleep", "synch"}
    BY Zenon, <1>8, <1>9, <1>10 DEF SynchInv, QueuesExact, Inside
  <2> QED
    BY <1>5, <2>2, <2>3, <2>4 DEF QueuesExact, Object
<1>12. /\ value' \in [Sem -> Nat] /\ owner' \in [Lock -> Thread \cup {NULL}]
       /\ held' \in [Thread -> SUBSET Lock]
       /\ MutualExclusion'
  BY Zenon, <1>2, <1>3, UnlockFacts
<1>13. SynchTypeOK'
  BY <1>5, <1>9, <1>12 DEF SynchTypeOK, Object
<1>14. DoingInv'
  BY Zenon, <1>9, <1>10 DEF SynchInv, DoingInv
<1> QED
  BY <1>7, <1>11, <1>12, <1>13, <1>14 DEF ObjectInv

\* The loop of Condition::Broadcast.
LEMMA BroadcastStep ==
  ASSUME SynchInv, NEW c \in Condition, BroadcastLoop(c)
  PROVE  Next /\ ObjectInv'
<1>1. CASE /\ queue[c] = <<>> /\ Become(None) /\ LeaveSynch(NULL)
           /\ UNCHANGED <<value, queue, owner, held>>
  <2>1. /\ Next /\ QueuesExact' /\ DoingInv'
        /\ doing' \in [Thread -> [op : Routine, obj : Sem \cup Condition \cup {NULL}]]
    BY Zenon, <1>1, ReturnFacts
  <2>2. SynchTypeOK' /\ MutualExclusion'
    BY Zenon, <1>1, <2>1 DEF SynchInv, SynchTypeOK, MutualExclusion
  <2> QED
    BY Zenon, <2>1, <2>2 DEF ObjectInv
<1>2. CASE /\ queue' = [queue EXCEPT ![c] = Rest(@)]
           /\ Become([op |-> "Broadcast", obj |-> c])
           /\ StayInSynch(First(queue[c])) /\ UNCHANGED <<value, owner, held>>
  <2>1. PICK w : w = First(queue[c])
    BY Zenon
  <2>2. c \in Object
    BY DEF Object
  <2>3. /\ w \in Sleeping \cup {NULL}
        /\ queue' \in [Object -> Seq(Thread)]
        /\ \A y \in Object : IsInjective(queue'[y])
        /\ \A t \in Thread, y \in Object :
             t \in Range(queue'[y]) <=> t \in Range(queue[y]) /\ t # w
    BY Zenon, <1>2, <2>1, <2>2, PopFacts
  <2>4. StayInSynch(w)
    BY Zenon, <1>2, <2>1
  <2>5. Next
    BY Zenon, <2>3, <2>4 DEF Next, ThreadOp
  <2>6. /\ currentThread \in Thread /\ currentThread \notin Sleeping
        /\ currentThread' = currentThread
        /\ Inside(currentThread)'
        /\ \A t \in Thread : t # currentThread => (Inside(t)' <=> Inside(t))
        /\ \A t \in Thread : t \in Sleeping' <=> t \in Sleeping /\ t # w
    BY <2>3, <2>4, StayInSynchFacts DEF SynchInv
  <2>7. /\ doing' \in [Thread -> [op : Routine, obj : Sem \cup Condition \cup {NULL}]]
        /\ doing'[currentThread] = [op |-> "Broadcast", obj |-> c]
        /\ \A t \in Thread : t # currentThread => doing'[t] = doing[t]
    <3>1. [op |-> "Broadcast", obj |-> c]
            \in [op : Routine, obj : Sem \cup Condition \cup {NULL}]
      BY Zenon DEF Routine
    <3> QED
      BY Zenon, <1>2, <2>6, <3>1, BecomeFacts
  <2>8. doing'[currentThread].op = "Broadcast" /\ doing'[currentThread].obj = c
    BY <2>7
  <2>9. QueuesExact'
    <3>1. \A o \in Sem \cup Condition : currentThread \notin Range(queue[o])
      BY Zenon, <2>6 DEF SynchInv, QueuesExact
    <3>2. \A t \in Thread : t \in Sleeping' <=>
            \E o \in Sem \cup Condition : t \in Range(queue'[o])
      BY Zenon, <2>3, <2>6 DEF SynchInv, QueuesExact, Object
    <3>3. ASSUME NEW t \in Thread, NEW o \in Sem \cup Condition, t \in Range(queue'[o])
          PROVE  doing'[t].obj = o /\ (doing'[t].op = "Wait" <=> o \in Condition)
      <4>1. t \in Range(queue[o]) /\ doing'[t] = doing[t]
        BY Zenon, <2>3, <2>7, <3>1, <3>3 DEF Object
      <4> QED
        BY <4>1 DEF SynchInv, QueuesExact
    <3>4. ASSUME NEW t \in Thread
          PROVE  doing'[t].op # "none" <=> frame'[t] \in {"Sleep", "synch"}
      <4>1. doing[t].op # "none" <=> Inside(t)
        BY DEF SynchInv, QueuesExact, Inside
      <4>2. doing'[t].op # "none" <=> Inside(t)'
        BY Zenon, <2>6, <2>7, <2>8, <4>1
      <4> QED
        BY Zenon, <4>2 DEF Inside
    <3> QED
      BY Zenon, <2>3, <3>2, <3>3, <3>4 DEF QueuesExact, Object
  <2>10. SynchTypeOK' /\ MutualExclusion'
    BY Zenon, <1>2, <2>3, <2>7 DEF SynchInv, SynchTypeOK, MutualExclusion, Object
  <2>11. DoingInv'
    BY <2>7, <2>8 DEF SynchInv, DoingInv
  <2> QED
    BY <2>5, <2>9, <2>10, <2>11 DEF ObjectInv
<1> QED
  BY <1>1, <1>2 DEF BroadcastLoop
-----------------------------------------------------------------------------
(* The objects are exact.                                                  *)

\* The inductive step.  Every step of Synch is also one of Threads, so the
\* scheduler's own invariant carries over.
LEMMA SynchInvStep ==
  ASSUME SynchInv, [SynchNext]_<<vars, synchVars>>
  PROVE  SynchInv' /\ [Next]_vars
<1>1. CASE (ThreadStep \/ Halted \/ UNCHANGED vars) /\ UNCHANGED synchVars
  <2>1. [Next]_vars
    BY Zenon, <1>1 DEF ThreadStep, ScheduleV, Next, ThreadOp, KernelOp
  <2>2. \A t \in Thread : (Inside(t)' <=> Inside(t)) /\ (t \in Sleeping' <=> t \in Sleeping)
    BY Zenon, <1>1, ThreadStepFacts DEF SynchInv
  <2>3. QueuesExact'
    BY Zenon, <1>1, <2>2 DEF SynchInv, QueuesExact, Inside, synchVars
  <2>4. SynchTypeOK' /\ MutualExclusion' /\ DoingInv'
    BY <1>1 DEF SynchInv, SynchTypeOK, MutualExclusion, DoingInv, synchVars
  <2>5. SchedulerInv'
    BY <2>1, NextSchedulerInv DEF SynchInv
  <2> QED
    BY Zenon, <2>1, <2>3, <2>4, <2>5 DEF SynchInv
<1>2. ASSUME SynchOp
      PROVE  Next /\ ObjectInv'
  <2> USE <1>2
  <2>1. ASSUME NEW s \in Sem, P(s) PROVE Next /\ ObjectInv'
    BY <2>1, TryPStep DEF P
  <2>2. ASSUME NEW s \in Semaphore, V(s) PROVE Next /\ ObjectInv'
    BY Zenon, <2>2, VStep
  <2>3. ASSUME NEW l \in Lock, Release(l) PROVE Next /\ ObjectInv'
    BY Zenon, <2>3, ReleaseStep
  <2>4. ASSUME NEW c \in Condition, Wait(c) \/ Signal(c) \/ Broadcast(c)
        PROVE  Next /\ ObjectInv'
    BY Zenon, <2>4, WaitStep, SignalStep, BroadcastStep DEF Broadcast
  <2>5. currentThread \in Thread
    BY Zenon DEF SynchInv, SchedulerInv, TypeOK
  <2>6. CASE ResumeP
    <3>1. /\ doing[currentThread].op \in {"P", "Reacquire"}
          /\ TryP(doing[currentThread].obj, doing[currentThread].op)
      BY Zenon, <2>6 DEF ResumeP
    <3>2. /\ doing[currentThread].obj \in Sem
          /\ doing[currentThread].op = "Reacquire" => doing[currentThread].obj \in Lock
      BY Zenon, <2>5, <3>1 DEF SynchInv, DoingInv, Sem
    <3> QED
      BY Zenon, <3>1, <3>2, TryPStep
  <2>7. CASE ResumeWait
    <3>1. TryP(CondLock[doing[currentThread].obj], "Reacquire")
      BY Zenon, <2>7 DEF ResumeWait
    <3>2. CondLock[doing[currentThread].obj] \in Lock
      BY Zenon, <2>5, <2>7 DEF ResumeWait, SynchInv, DoingInv
    <3> QED
      BY Zenon, <3>1, <3>2, TryPStep DEF Sem
  <2>8. CASE ResumeBroadcast
    <3>1. doing[currentThread].obj \in Condition /\ BroadcastLoop(doing[currentThread].obj)
      BY <2>5, <2>8 DEF ResumeBroadcast, SynchInv, DoingInv
    <3> QED
      BY Zenon, <3>1, BroadcastStep
  <2>9. ASSUME NEW d \in Device, DeviceV(d) PROVE Next /\ ObjectInv'
    BY <2>9, DeviceVStep
  <2> QED
    BY <2>1, <2>2, <2>3, <2>4, <2>6, <2>7, <2>8, <2>9 DEF SynchOp
<1>3. CASE SynchOp
  <2>1. SchedulerInv'
    BY Zenon, <1>2, <1>3, NextSchedulerInv DEF SynchInv
  <2> QED
    BY <1>2, <1>3, <2>1 DEF SynchInv, ObjectInv
<1>4. \/ (ThreadStep \/ Halted \/ UNCHANGED vars) /\ UNCHANGED synchVars
      \/ SynchOp
  BY Zenon DEF SynchNext
<1> QED
  BY Zenon, <1>1, <1>3, <1>4

\* Initialize: no object is in use.
LEMMA InitSynchInv == SynchInit => SynchInv
<1> SUFFICES ASSUME SynchInit PROVE SynchInv
  BY Zenon
<1> USE DEF SynchInit
<1>1. SchedulerInv
  BY Zenon, InitSchedulerInv
<1>2. value \in [Sem -> Nat]
  BY Zenon DEF Sem
<1>3. \A t \in Thread : doing[t] = None
  BY Zenon
<1>4. None \in [op : Routine, obj : Sem \cup Condition \cup {NULL}]
  BY Zenon DEF None, Routine
<1>5. doing \in [Thread -> [op : Routine, obj : Sem \cup Condition \cup {NULL}]]
  BY Zenon, <1>4
<1>6. SynchTypeOK
  BY <1>2, <1>5 DEF SynchTypeOK
<1>7. \A t \in Thread : frame[t] \notin {"Sleep", "synch"}
  BY Zenon DEF Init
<1>8. \A o \in Sem \cup Condition : queue[o] = <<>> /\ Range(queue[o]) = {} /\ IsInjective(queue[o])
  BY DEF Range, IsInjective
<1>9. \A t \in Thread : doing[t].op = "none" /\ doing[t].obj = NULL
  BY <1>3 DEF None
<1>10. QueuesExact
  BY Zenon, <1>7, <1>8, <1>9 DEF QueuesExact, Sleeping
<1>11. MutualExclusion
  BY Zenon, ThreadsAssumption DEF MutualExclusion, Sem
<1>12. DoingInv
  BY <1>9 DEF DoingInv
<1> QED
  BY <1>1, <1>6, <1>10, <1>11, <1>12 DEF SynchInv

\* The inductive invariant holds in every reachable state.
THEOREM SynchCorrect == SynchSpec => []SynchInv
<1>1. SynchInv /\ [SynchNext]_<<vars, synchVars>> => SynchInv'
  BY SynchInvStep
<1> QED
  BY <1>1, InitSynchInv, PTL DEF SynchSpec

\* synch.cc: queues, values, owners and the scheduler's view of the threads
\* agree, and no lock has two holders.
THEOREM ObjectsAreExact == SynchSpec => []ObjectsExact
<1>1. SynchInv => ObjectsExact
  BY DEF SynchInv, ObjectsExact
<1> QED
  BY <1>1, SynchCorrect, PTL

\* Module Threads lets a routine wake any sleeping thread; the real routines,
\* which wake the first on a queue, do nothing it does not allow.
THEOREM ThreadsImplemented == SynchSpec => ImplementsThreads
<1>1. SynchInit => Init
  BY DEF SynchInit
<1>2. SynchInv /\ [SynchNext]_<<vars, synchVars>> => [Next]_vars
  BY Zenon, SynchInvStep
<1> QED
  BY <1>1, <1>2, SynchCorrect, PTL DEF SynchSpec, ImplementsThreads, Spec

-----------------------------------------------------------------------------
(* No lost wakeup.                                                         *)

Supplied(s) == queue[s] # <<>> => value[s] <= Cardinality(Woken(s))

\* The woken threads can be counted.
LEMMA WokenFinite == \A s : IsFiniteSet(Woken(s)) /\ Cardinality(Woken(s)) \in Nat
<1> TAKE s
<1>1. Woken(s) \in SUBSET Thread
  BY Zenon DEF Woken
<1>2. IsFiniteSet(Woken(s))
  BY Zenon, <1>1, FS_Subset, ThreadsAssumption
<1> QED
  BY <1>2, FS_CardinalityType

\* A step that concerns another semaphore.
LEMMA SameSupply ==
  ASSUME NEW s, Supplied(s), value'[s] = value[s], queue'[s] = queue[s],
         \A t \in Thread : doing'[t].obj = s <=> doing[t].obj = s
  PROVE  Supplied(s)'
<1>1. Woken(s)' = Woken(s)
  BY Zenon DEF Woken
<1> QED
  BY Zenon, <1>1 DEF Supplied

\* P takes a unit: if its thread was one of those woken, one less is on its way.
LEMMA TakeSupply ==
  ASSUME NEW s, NEW u \in Thread, value[s] \in Nat, Supplied(s),
         value'[s] = value[s] - 1, queue'[s] = queue[s],
         doing'[u].obj # s, \A t \in Thread : t # u => doing'[t] = doing[t]
  PROVE  Supplied(s)'
<1>1. Woken(s)' = Woken(s) \ {u}
  BY Zenon DEF Woken
<1>2. PICK W : W = Woken(s)
  BY Zenon
<1>3. IsFiniteSet(W) /\ Cardinality(W) \in Nat
  BY Zenon, <1>2, WokenFinite
<1>4. Cardinality(W \ {u}) \in {Cardinality(W), Cardinality(W) - 1}
  BY Zenon, <1>3, FS_RemoveElement
<1> QED
  BY <1>1, <1>2, <1>3, <1>4 DEF Supplied

\* V gives a unit and, if threads queue for it, sends one of them on its way.
LEMMA GiveSupply ==
  ASSUME SynchInv, NEW s \in Sem, Supplied(s),
         value'[s] = value[s] + 1, queue'[s] = Rest(queue[s]),
         \A t \in Thread : doing'[t].obj = s <=> doing[t].obj = s
  PROVE  Supplied(s)'
<1> SUFFICES ASSUME queue'[s] # <<>>
             PROVE  value'[s] <= Cardinality(Woken(s)')
  BY Zenon DEF Supplied
<1>1. queue[s] \in Seq(Thread) /\ IsInjective(queue[s]) /\ value[s] \in Nat
  BY Zenon DEF SynchInv, SynchTypeOK, QueuesExact
<1>2. queue[s] # <<>> /\ queue'[s] = Tail(queue[s])
  BY Zenon DEF Rest
<1>3. PICK w : w = Head(queue[s])
  BY Zenon
<1>4. /\ w \in Thread /\ w \in Range(queue[s])
      /\ Range(queue'[s]) = Range(queue[s]) \ {w}
  BY Zenon, <1>1, <1>2, <1>3, TailFacts
<1>5. doing[w].obj = s
  BY Zenon, <1>4 DEF SynchInv, QueuesExact
<1>6. Woken(s)' = Woken(s) \cup {w} /\ w \notin Woken(s)
  BY Zenon, <1>4, <1>5 DEF Woken
<1>7. PICK W : W = Woken(s)
  BY Zenon
<1>8. IsFiniteSet(W) /\ Cardinality(W) \in Nat
  BY <1>7, WokenFinite
<1>9. Cardinality(W \cup {w}) = Cardinality(W) + 1
  BY Zenon, <1>6, <1>7, <1>8, FS_AddElement
<1>10. value[s] <= Cardinality(W)
  BY Zenon, <1>2, <1>7 DEF Supplied
<1> QED
  BY <1>1, <1>6, <1>7, <1>8, <1>9, <1>10

\* A step that gives a unit of s, if any, and leaves the other semaphores alone.
LEMMA UnitGiven ==
  ASSUME SynchInv, NoLostWakeup, NEW s \in Sem,
         value'[s] = value[s] + 1, queue'[s] = Rest(queue[s]),
         \A y \in Sem : y # s => value'[y] = value[y] /\ queue'[y] = queue[y],
         \A t \in Thread, y \in Sem : doing'[t].obj = y <=> doing[t].obj = y
  PROVE  NoLostWakeup'
<1> SUFFICES ASSUME NEW y \in Sem PROVE Supplied(y)'
  BY Zenon DEF NoLostWakeup, Supplied
<1>1. Supplied(y)
  BY Zenon DEF NoLostWakeup, Supplied
<1>2. CASE y = s
  BY Zenon, <1>1, <1>2, GiveSupply
<1>3. CASE y # s
  BY <1>1, <1>3, SameSupply
<1> QED
  BY Zenon, <1>2, <1>3

\* A step that changes no semaphore.
LEMMA NoUnitMoved ==
  ASSUME NoLostWakeup,
         \A y \in Sem : value'[y] = value[y] /\ queue'[y] = queue[y],
         \A t \in Thread, y \in Sem : doing'[t].obj = y <=> doing[t].obj = y
  PROVE  NoLostWakeup'
<1> SUFFICES ASSUME NEW y \in Sem PROVE Supplied(y)'
  BY Zenon DEF NoLostWakeup, Supplied
<1> QED
  BY Zenon, SameSupply DEF NoLostWakeup, Supplied

\* The loop of P, in a thread that was in no routine of another semaphore.
LEMMA TryPSupply ==
  ASSUME SynchInv, NoLostWakeup, NEW s \in Sem, NEW r \in {"P", "Reacquire"}, TryP(s, r),
         currentThread \in Thread, \A y \in Sem : y # s => doing[currentThread].obj # y
  PROVE  NoLostWakeup'
<1>1. /\ value \in [Sem -> Nat] /\ queue \in [Object -> Seq(Thread)]
      /\ doing \in [Thread -> [op : Routine, obj : Sem \cup Condition \cup {NULL}]]
      /\ s \in Object /\ Sem \subseteq Object /\ NULL \notin Sem
  BY Zenon DEF SynchInv, SynchTypeOK, Object
<1>2. PICK r1 : Become(r1) /\ r1.obj \in {s, NULL} /\ (value[s] > 0 => r1.obj = NULL)
  BY <1>1 DEF TryP, None
<1>3. /\ doing'[currentThread].obj = r1.obj
      /\ \A t \in Thread : t # currentThread => doing'[t] = doing[t]
  BY <1>1, <1>2 DEF Become
<1>4. ASSUME NEW y \in Sem, y # s PROVE Supplied(y)'
  <2>1. value'[y] = value[y] /\ queue'[y] = queue[y]
    BY <1>1, <1>4 DEF TryP
  <2>2. \A t \in Thread : doing'[t].obj = y <=> doing[t].obj = y
    BY Zenon, <1>1, <1>2, <1>3, <1>4
  <2> QED
    BY Zenon, <2>1, <2>2, SameSupply DEF NoLostWakeup, Supplied
<1>5. Supplied(s)'
  <2>1. CASE value[s] > 0
    <3>1. value'[s] = value[s] - 1 /\ queue'[s] = queue[s]
      BY <1>1, <2>1 DEF TryP
    <3>2. doing'[currentThread].obj # s
      BY Zenon, <1>1, <1>2, <1>3, <2>1
    <3>3. Supplied(s) /\ value[s] \in Nat
      BY Zenon, <1>1 DEF NoLostWakeup, Supplied
    <3> QED
      BY Zenon, <1>3, <3>1, <3>2, <3>3, TakeSupply
  <2>2. CASE ~(value[s] > 0)
    <3>1. value'[s] = 0
      BY Zenon, <1>1, <2>2 DEF TryP
    <3>2. PICK W : W = Woken(s)'
      BY Zenon
    <3>3. W \in SUBSET Thread
      BY Zenon, <3>2 DEF Woken
    <3>4. Cardinality(W) \in Nat
      BY <3>3, FS_Subset, FS_CardinalityType, ThreadsAssumption
    <3> QED
      BY SMTT(30), <3>1, <3>2, <3>4 DEF Supplied
  <2> QED
    BY Zenon, <2>1, <2>2
<1> QED
  BY Zenon, <1>4, <1>5 DEF NoLostWakeup, Supplied

\* Every routine keeps every semaphore supplied.
LEMMA SynchOpSupply ==
  ASSUME SynchInv, NoLostWakeup, SynchOp
  PROVE  NoLostWakeup'
<1> USE DEF Object
<1>1. ASSUME NEW s \in Sem, P(s) PROVE NoLostWakeup'
  <2>1. InCode /\ TryP(s, "P")
    BY Zenon, <1>1 DEF P
  <2>2. currentThread \in Thread /\ \A y \in Sem : doing[currentThread].obj # y
    BY Zenon, <2>1, CallerFacts
  <2> QED
    BY <2>1, <2>2, TryPSupply
<1>2. ASSUME NEW s \in Sem, DoV(s), UNCHANGED doing PROVE NoLostWakeup'
  <2>1. /\ value'[s] = value[s] + 1 /\ queue'[s] = Rest(queue[s])
        /\ \A y \in Sem : y # s => value'[y] = value[y] /\ queue'[y] = queue[y]
    BY Zenon, <1>2, UnitOfV
  <2> QED
    BY Zenon, <1>2, <2>1, UnitGiven
<1>3. ASSUME NEW s \in Semaphore, V(s) PROVE NoLostWakeup'
  BY Zenon, <1>2, <1>3 DEF V, Sem
<1>4. ASSUME NEW l \in Lock, Release(l) PROVE NoLostWakeup'
  BY Zenon, <1>2, <1>4 DEF Release, Sem
<1>5. ASSUME NEW d \in Device, DeviceV(d) PROVE NoLostWakeup'
  <2>1. DevSem[d] \in Sem
    BY Zenon DEF Sem
  <2> QED
    BY Zenon, <1>2, <1>5, <2>1 DEF DeviceV
<1>6. ASSUME NEW c \in Condition, Wait(c) PROVE NoLostWakeup'
  <2>1. PICK l \in Lock : l = CondLock[c]
    BY Zenon
  <2>2. /\ value'[l] = value[l] + 1 /\ queue'[l] = Rest(queue[l]) /\ l \in Sem
        /\ \A y \in Sem : y # l => value'[y] = value[y] /\ queue'[y] = queue[y]
    BY <1>6, <2>1, UnitOfWait DEF Sem
  <2>3. \A t \in Thread, y \in Sem : doing'[t].obj = y <=> doing[t].obj = y
    <3>1. InCode /\ doing' = [doing EXCEPT ![currentThread] = [op |-> "Wait", obj |-> c]]
      BY Zenon, <1>6 DEF Wait, Become
    <3>2. currentThread \in Thread /\ doing[currentThread].obj = NULL
      BY Zenon, <3>1, CallerFacts
    <3> QED
      BY Zenon, <3>1, <3>2 DEF SynchInv, SynchTypeOK
  <2> QED
    BY Zenon, <2>2, <2>3, UnitGiven
<1>7. ASSUME NEW c \in Condition, Signal(c) PROVE NoLostWakeup'
  <2>1. \A y \in Sem : value'[y] = value[y] /\ queue'[y] = queue[y]
    BY Zenon, <1>7 DEF Signal, SynchInv, SynchTypeOK
  <2> QED
    BY Zenon, <1>7, <2>1, NoUnitMoved DEF Signal
<1>8. ASSUME NEW c \in Condition, BroadcastLoop(c), currentThread \in Thread,
             doing[currentThread].obj \notin Sem
      PROVE  NoLostWakeup'
  <2>1. \A y \in Sem : value'[y] = value[y] /\ queue'[y] = queue[y]
    BY Zenon, <1>8 DEF BroadcastLoop, SynchInv, SynchTypeOK
  <2>2. PICK r : Become(r) /\ r.obj \notin Sem
    BY <1>8 DEF BroadcastLoop, None
  <2>3. \A t \in Thread, y \in Sem : doing'[t].obj = y <=> doing[t].obj = y
    BY Zenon, <1>8, <2>2 DEF Become, SynchInv, SynchTypeOK
  <2> QED
    BY Zenon, <2>1, <2>3, NoUnitMoved
<1>9. ASSUME NEW c \in Condition, Broadcast(c) PROVE NoLostWakeup'
  <2>1. currentThread \in Thread /\ doing[currentThread].obj \notin Sem
    BY Zenon, <1>9, CallerFacts DEF Broadcast
  <2> QED
    BY Zenon, <1>8, <1>9, <2>1 DEF Broadcast
<1>10. CASE ResumeP
  <2>1. PICK s, r : s = doing[currentThread].obj /\ r = doing[currentThread].op
    BY Zenon
  <2>2. currentThread \in Thread /\ r \in {"P", "Reacquire"} /\ TryP(s, r)
    BY Zenon, <1>10, <2>1, ResumedFacts DEF ResumeP
  <2>3. s \in Sem
    BY Zenon, <2>1, <2>2 DEF SynchInv, DoingInv, Sem
  <2> QED
    BY Zenon, <2>1, <2>2, <2>3, TryPSupply
<1>11. CASE ResumeWait
  <2>1. PICK c : c = doing[currentThread].obj
    BY Zenon
  <2>2. currentThread \in Thread /\ doing[currentThread].op = "Wait"
        /\ TryP(CondLock[c], "Reacquire")
    BY Zenon, <1>11, <2>1, ResumedFacts DEF ResumeWait
  <2>3. c \in Condition
    BY Zenon, <2>1, <2>2 DEF SynchInv, DoingInv
  <2>4. CondLock[c] \in Sem /\ c \notin Sem
    BY Zenon, <2>3 DEF Sem
  <2> QED
    BY <2>1, <2>2, <2>4, TryPSupply
<1>12. CASE ResumeBroadcast
  <2>1. PICK c : c = doing[currentThread].obj
    OBVIOUS
  <2>2. currentThread \in Thread /\ doing[currentThread].op = "Broadcast" /\ BroadcastLoop(c)
    BY Zenon, <1>12, <2>1, ResumedFacts DEF ResumeBroadcast
  <2>3. c \in Condition
    BY <2>1, <2>2 DEF SynchInv, DoingInv
  <2> QED
    BY Zenon, <1>8, <2>1, <2>2, <2>3
<1> QED
  BY Zenon, <1>1, <1>3, <1>4, <1>5, <1>6, <1>7, <1>9, <1>10, <1>11, <1>12 DEF SynchOp

\* No wakeup is lost: while threads queue for a semaphore, every unit of its
\* value has a woken thread on its way to take it.
THEOREM NoWakeupIsLost == SynchSpec => []NoLostWakeup
<1>1. SynchInit => NoLostWakeup
  BY Zenon DEF SynchInit, NoLostWakeup
<1>2. ASSUME SynchInv, NoLostWakeup, [SynchNext]_<<vars, synchVars>>
      PROVE  NoLostWakeup'
  <2>1. CASE UNCHANGED synchVars
    BY <1>2, <2>1, NoUnitMoved DEF synchVars
  <2>2. CASE SynchOp
    BY <1>2, <2>2, SynchOpSupply
  <2> QED
    BY Zenon, <1>2, <2>1, <2>2 DEF SynchNext
<1> QED
  BY <1>1, <1>2, SynchCorrect, PTL DEF SynchSpec

-----------------------------------------------------------------------------
(* The refinement of Monitor.                                              *)

\* threads/synch.h's promise, for any number of threads, objects and devices:
\* seen through their values, holders and queues, the semaphores, locks and
\* conditions of synch.cc change only as Monitor allows.
THEOREM MonitorImplemented == SynchSpec => ImplementsMonitor
<1>1. SynchInit => BroadcasterInv
  BY DEF SynchInit, BroadcasterInv, None
<1>2. SynchInit => Abstract!MonitorInit
  <2> SUFFICES ASSUME SynchInit PROVE Abstract!MonitorInit
    OBVIOUS
  <2>1. AValue = InitValue
    BY Zenon DEF SynchInit, AValue, Sem
  <2>2. ASSUME NEW c PROVE ~Broadcasting(c)
    BY Zenon DEF SynchInit, Broadcasting, None
  <2>3. AWaiting = [c \in Condition |-> <<>>]
    BY <2>2 DEF SynchInit, AWaiting
  <2>4. AWaking = [t \in Thread |-> NULL]
    BY Zenon DEF SynchInit, AWaking, None
  <2>5. owner = [l \in Lock |-> NULL]
    BY DEF SynchInit
  <2> QED
    BY Zenon, <2>1, <2>3, <2>4, <2>5 DEF Abstract!MonitorInit, AValue, AWaiting, AWaking
<1>3. ASSUME SynchInv, SynchInv', BroadcasterInv, [SynchNext]_<<vars, synchVars>>
      PROVE  BroadcasterInv' /\ MonitorStep
  <2>1. CASE UNCHANGED synchVars
    <3>1. BroadcasterInv'
      BY Zenon, <1>3, <2>1 DEF synchVars, BroadcasterInv
    <3>2. AWaiting' = AWaiting /\ \A t \in Thread : AWaking'[t] = AWaking[t]
      BY <1>3, <2>1, OtherView DEF synchVars
    <3>3. AWaking = [t \in Thread |-> AWaking[t]]
      BY DEF AWaking
    <3>4. AWaking' = AWaking
      BY <3>2, <3>3, WakingEquals
    <3> QED
      BY Zenon, <2>1, <3>1, <3>2, <3>4 DEF MonitorStep, AValue, synchVars
  <2>2. CASE SynchOp
    BY <1>3, <2>2, BroadcasterStep, SynchOpView
  <2> QED
    BY Zenon, <1>3, <2>1, <2>2 DEF SynchNext
<1>4. MonitorStep => [Abstract!MonitorNext]_(Abstract!monitorVars)
  BY Zenon DEF MonitorStep, Abstract!monitorVars, AValue, AWaiting, AWaking
<1> QED
  BY <1>1, <1>2, <1>3, <1>4, SynchCorrect, PTL DEF SynchSpec, ImplementsMonitor, Abstract!MonitorSpec
==============================================================================
