----------------------------- MODULE SynchSteps -----------------------------
(***************************************************************************)
(* What each routine of module Synch does to the semaphores, locks and     *)
(* conditions: every step keeps the part of the inductive invariant that   *)
(* is about them, and is a step of Threads.  Module SynchProofs puts the   *)
(* steps together.                                                         *)
(***************************************************************************)
EXTENDS Synch, TLAPS

-----------------------------------------------------------------------------
(* The FIFO lists of the kernel: List::Append and List::Remove.            *)

\* List::Append adds exactly its argument, and keeps a list without
\* repetitions free of them when the argument is not on the list.
LEMMA AppendFacts ==
  ASSUME NEW S, NEW s \in Seq(S), NEW e \in S
  PROVE  /\ Append(s, e) \in Seq(S)
         /\ Append(s, e) # <<>>
         /\ Range(Append(s, e)) = Range(s) \cup {e}
         /\ IsInjective(s) /\ e \notin Range(s) => IsInjective(Append(s, e))
<1>1. /\ Append(s, e) \in Seq(S)
      /\ Append(s, e) # <<>>
      /\ Len(Append(s, e)) = Len(s) + 1
      /\ \A i \in 1 .. Len(s) : Append(s, e)[i] = s[i]
      /\ Append(s, e)[Len(s) + 1] = e
  OBVIOUS
<1>2. /\ Len(s) \in Nat
      /\ DOMAIN s = 1 .. Len(s)
      /\ DOMAIN Append(s, e) = 1 .. Len(s) + 1
  BY <1>1
<1>3. Range(Append(s, e)) = Range(s) \cup {e}
  BY <1>1, <1>2 DEF Range
<1>4. ASSUME IsInjective(s), e \notin Range(s)
      PROVE  IsInjective(Append(s, e))
  BY <1>1, <1>2, <1>4 DEF IsInjective, Range
<1> QED
  BY <1>1, <1>3, <1>4

\* List::Remove on a nonempty list without repetitions takes away exactly
\* the first element.
LEMMA TailFacts ==
  ASSUME NEW S, NEW s \in Seq(S), s # <<>>, IsInjective(s)
  PROVE  /\ Head(s) \in S
         /\ Head(s) \in Range(s)
         /\ Tail(s) \in Seq(S)
         /\ Range(Tail(s)) = Range(s) \ {Head(s)}
         /\ IsInjective(Tail(s))
<1>1. /\ Head(s) \in S
      /\ Tail(s) \in Seq(S)
      /\ Len(Tail(s)) = Len(s) - 1
      /\ \A i \in 1 .. Len(Tail(s)) : Tail(s)[i] = s[i + 1]
  OBVIOUS
<1>2. /\ Len(s) \in Nat \ {0}
      /\ DOMAIN s = 1 .. Len(s)
      /\ DOMAIN Tail(s) = 1 .. Len(s) - 1
  BY <1>1
<1>3. Head(s) = s[1]
  BY <1>2
<1>4. Head(s) \in Range(s)
  BY <1>2, <1>3 DEF Range
<1>5. ASSUME NEW x \in Range(Tail(s))  PROVE  x \in Range(s) \ {Head(s)}
  <2>1. PICK i \in 1 .. Len(s) - 1 : x = s[i + 1]
    BY <1>1, <1>2, <1>5 DEF Range
  <2> QED
    BY <1>2, <1>3, <2>1 DEF Range, IsInjective
<1>6. ASSUME NEW x \in Range(s) \ {Head(s)}  PROVE  x \in Range(Tail(s))
  <2>1. PICK i \in 1 .. Len(s) : x = s[i] /\ i # 1
    BY <1>2, <1>3, <1>6 DEF Range
  <2>2. i - 1 \in 1 .. Len(s) - 1 /\ Tail(s)[i - 1] = s[i]
    BY <1>1, <1>2, <2>1
  <2> QED
    BY Zenon, <1>2, <2>1, <2>2 DEF Range
<1>7. IsInjective(Tail(s))
  BY <1>1, <1>2 DEF IsInjective
<1> QED
  BY <1>1, <1>4, <1>5, <1>6, <1>7

USE ThreadsAssumption

-----------------------------------------------------------------------------
(* What the steps of the scheduler do to the sleeping threads.             *)

Inside(t) == frame[t] \in {"Sleep", "synch"}

\* Only the thread that is woken changes its status.
LEMMA WakeUpStatus ==
  ASSUME NEW w \in Sleeping \cup {NULL}, NEW st \in [Thread -> ThreadStatus], WakeUp(w, st)
  PROVE  /\ \A t \in Thread : t # w => status'[t] = st[t]
         /\ w # NULL => status'[w] = "READY"
BY DEF WakeUp, ReadyToRun, Sleeping

\* The current thread returns from a routine, and has woken w.
LEMMA LeaveSynchFacts ==
  ASSUME SchedulerInv, NEW w \in Sleeping \cup {NULL}, LeaveSynch(w)
  PROVE  /\ currentThread \in Thread /\ currentThread \notin Sleeping
         /\ currentThread' = currentThread
         /\ ~Inside(currentThread)'
         /\ \A t \in Thread : t # currentThread => (Inside(t)' <=> Inside(t))
         /\ \A t \in Thread : t \in Sleeping' <=> t \in Sleeping /\ t # w
<1> USE DEF SchedulerInv
<1>1. /\ \A t \in Thread : t # w => status'[t] = status[t]
      /\ w # NULL => status'[w] = "READY"
  BY Zenon, WakeUpStatus DEF LeaveSynch, TypeOK
<1>2. /\ currentThread \in Thread /\ frame[currentThread] \in {"code", "synch"}
      /\ currentThread' = currentThread
      /\ frame'[currentThread] = "code"
      /\ \A t \in Thread : t # currentThread => frame'[t] = frame[t]
  BY DEF LeaveSynch, Executing, TypeOK
<1>3. currentThread \notin Sleeping
  BY <1>2 DEF Sleeping
<1>4. \A t \in Thread : t \in Sleeping' <=> t \in Sleeping /\ t # w
  <2> TAKE t \in Thread
  <2>1. CASE t = w
    BY <1>1, <2>1, ThreadsAssumption DEF Sleeping
  <2>2. CASE t # w /\ t = currentThread
    BY <1>2, <2>2 DEF Sleeping
  <2>3. CASE t # w /\ t # currentThread
    BY <1>1, <1>2, <2>3 DEF Sleeping
  <2> QED
    BY <2>1, <2>2, <2>3
<1> QED
  BY <1>2, <1>3, <1>4 DEF Inside

\* The current thread stays in a routine, and has woken w.
LEMMA StayInSynchFacts ==
  ASSUME SchedulerInv, NEW w \in Sleeping \cup {NULL}, StayInSynch(w)
  PROVE  /\ currentThread \in Thread /\ currentThread \notin Sleeping
         /\ currentThread' = currentThread
         /\ Inside(currentThread)'
         /\ \A t \in Thread : t # currentThread => (Inside(t)' <=> Inside(t))
         /\ \A t \in Thread : t \in Sleeping' <=> t \in Sleeping /\ t # w
<1> USE DEF SchedulerInv
<1>1. /\ \A t \in Thread : t # w => status'[t] = status[t]
      /\ w # NULL => status'[w] = "READY"
  BY Zenon, WakeUpStatus DEF StayInSynch, TypeOK
<1>2. /\ currentThread \in Thread /\ frame[currentThread] \in {"code", "synch"}
      /\ currentThread' = currentThread
      /\ frame'[currentThread] = "synch"
      /\ \A t \in Thread : t # currentThread => frame'[t] = frame[t]
  BY DEF StayInSynch, Executing, TypeOK
<1>3. currentThread \notin Sleeping
  BY <1>2 DEF Sleeping
<1>4. \A t \in Thread : t \in Sleeping' <=> t \in Sleeping /\ t # w
  <2> TAKE t \in Thread
  <2>1. CASE t = w
    BY <1>1, <2>1, ThreadsAssumption DEF Sleeping
  <2>2. CASE t # w /\ t = currentThread
    BY <1>2, <2>2 DEF Sleeping
  <2>3. CASE t # w /\ t # currentThread
    BY <1>1, <1>2, <2>3 DEF Sleeping
  <2> QED
    BY <2>1, <2>2, <2>3
<1> QED
  BY <1>2, <1>3, <1>4 DEF Inside

\* The current thread goes to sleep, and has woken w.
LEMMA SleepFacts ==
  ASSUME SchedulerInv, NEW w \in Sleeping \cup {NULL}, Sleep(w)
  PROVE  /\ currentThread \in Thread /\ currentThread \notin Sleeping
         /\ currentThread' = currentThread
         /\ Inside(currentThread)'
         /\ \A t \in Thread : t # currentThread => (Inside(t)' <=> Inside(t))
         /\ \A t \in Thread :
              t \in Sleeping' <=> (t \in Sleeping /\ t # w) \/ t = currentThread
<1> USE DEF SchedulerInv
<1>1. /\ currentThread \in Thread /\ frame[currentThread] \in {"code", "synch"}
      /\ currentThread' = currentThread
      /\ frame'[currentThread] = "Sleep"
      /\ \A t \in Thread : t # currentThread => frame'[t] = frame[t]
  BY DEF Sleep, Executing, TypeOK
<1>2. currentThread \notin Sleeping /\ w # currentThread
  BY <1>1, ThreadsAssumption DEF Sleeping
<1>3. /\ blocked \in [Thread -> ThreadStatus]
      /\ blocked[currentThread] = "BLOCKED"
      /\ \A t \in Thread : t # currentThread => blocked[t] = status[t]
  BY <1>1 DEF blocked, TypeOK, ThreadStatus
<1>4. /\ \A t \in Thread : t # w => status'[t] = blocked[t]
      /\ w # NULL => status'[w] = "READY"
  BY <1>3, WakeUpStatus DEF Sleep
<1> QED
  BY <1>1, <1>2, <1>3, <1>4, ThreadsAssumption DEF Sleeping, Inside

\* A handler wakes w, whatever the current thread is doing.
LEMMA DeviceInterruptFacts ==
  ASSUME SchedulerInv, NEW d \in Device, NEW w \in Sleeping \cup {NULL}, DeviceInterrupt(d, w)
  PROVE  /\ \A t \in Thread : Inside(t)' <=> Inside(t)
         /\ \A t \in Thread : t \in Sleeping' <=> t \in Sleeping /\ t # w
<1> USE DEF SchedulerInv
<1>1. /\ \A t \in Thread : t # w => status'[t] = status[t]
      /\ w # NULL => status'[w] = "READY"
  BY Zenon, WakeUpStatus DEF DeviceInterrupt, TypeOK
<1>2. frame' = frame
  BY DEF DeviceInterrupt
<1>3. \A t \in Thread : t \in Sleeping' <=> t \in Sleeping /\ t # w
  <2> TAKE t \in Thread
  <2>1. CASE t = w
    BY <1>1, <2>1, ThreadsAssumption DEF Sleeping
  <2>2. CASE t # w
    BY <1>1, <1>2, <2>2 DEF Sleeping
  <2> QED
    BY <2>1, <2>2
<1> QED
  BY <1>2, <1>3 DEF Inside

\* Yield: the thread was in its own code.
LEMMA YieldAtFacts ==
  ASSUME SchedulerInv, NEW old, YieldAt(old), frame[currentThread] = "code"
  PROVE  \A t \in Thread : (Inside(t)' <=> Inside(t)) /\ (t \in Sleeping' <=> t \in Sleeping)
<1> USE DEF SchedulerInv
<1>1. /\ \A t \in Thread : t # currentThread => status'[t] = status[t] /\ frame'[t] = frame[t]
      /\ frame'[currentThread] = "Yield" /\ currentThread \in Thread
  BY DEF YieldAt, ReadyToRun, TypeOK
<1> QED
  BY <1>1 DEF Sleeping, Inside

\* Run: the next thread was ready, and the carcass has finished.
LEMMA RunFacts ==
  ASSUME SchedulerInv, Run
  PROVE  \A t \in Thread : (Inside(t)' <=> Inside(t)) /\ (t \in Sleeping' <=> t \in Sleeping)
<1> USE DEF SchedulerInv
<1>1. PICK next : next = Head(readyList)
  OBVIOUS
<1>2. /\ next \in Thread /\ status[next] = "READY"
  <2>1. readyList # <<>> /\ readyList \in Seq(Thread) /\ IsInjective(readyList)
    BY DEF Run, TypeOK, SchedulerExact
  <2>2. next \in Thread /\ next \in Range(readyList)
    BY <1>1, <2>1, TailFacts
  <2> QED
    BY <2>2 DEF SchedulerExact
<1>3. frame[next] \in {"ThreadRoot", "Yield", "Sleep"}
  BY Zenon, <1>2 DEF FramesExact, TypeOK, Frame
<1>4. status'[next] = "RUNNING" /\ \A t \in Thread : t # next => status'[t] = status[t]
  BY <1>1, <1>2 DEF Run, TypeOK
<1> DEFINE f1 == [frame EXCEPT ![next] = IF frame[next] = "Sleep" THEN "synch" ELSE "code"]
<1>5. \/ frame' = f1
      \/ threadToBeDestroyed # NULL /\ frame' = [f1 EXCEPT ![threadToBeDestroyed] = "deleted"]
  BY <1>1 DEF Run, deleteCarcass
<1>6. \A t \in Thread : f1[t] = IF t = next
                                THEN IF frame[next] = "Sleep" THEN "synch" ELSE "code"
                                ELSE frame[t]
  BY DEF TypeOK
<1>7. threadToBeDestroyed # NULL => /\ threadToBeDestroyed \in Thread
                                    /\ frame[threadToBeDestroyed] = "Finish"
                                    /\ threadToBeDestroyed # next
  BY <1>3 DEF TypeOK, CarcassFinished
<1>8. \A t \in Thread :
        \/ frame'[t] = f1[t]
        \/ frame[t] = "Finish" /\ frame'[t] = "deleted" /\ t # next
  BY <1>5, <1>7 DEF TypeOK
<1> HIDE DEF f1
<1>9. \A t \in Thread : Inside(t)' <=> Inside(t)
  BY <1>3, <1>6, <1>8 DEF Inside
<1>10. \A t \in Thread : t \in Sleeping' <=> t \in Sleeping
  BY <1>2, <1>3, <1>4, <1>6, <1>8 DEF Sleeping
<1> QED
  BY <1>9, <1>10

HIDE ThreadsAssumption

-----------------------------------------------------------------------------
(* The invariant.                                                          *)

USE SynchAssumption

Object == Sem \cup Condition

\* A routine works on an object of its kind.
DoingInv ==
  \A t \in Thread :
    /\ doing[t].op = "none" => doing[t].obj = NULL
    /\ doing[t].op = "P" => doing[t].obj \in Sem
    /\ doing[t].op = "Reacquire" => doing[t].obj \in Lock
    /\ doing[t].op \in {"Wait", "Broadcast"} => doing[t].obj \in Condition

SynchInv == SchedulerInv /\ SynchTypeOK /\ QueuesExact /\ MutualExclusion /\ DoingInv

-----------------------------------------------------------------------------
(* Queues.                                                                 *)

\* A thread sleeps on one queue at most.
LEMMA OneQueue ==
  ASSUME SynchInv, NEW t \in Thread, NEW x \in Object, NEW y \in Object,
         t \in Range(queue[x]), t \in Range(queue[y])
  PROVE  x = y
BY DEF SynchInv, QueuesExact, Object

\* List::Remove on the queue of x: the thread it returns sleeps, and is then on
\* no queue.
LEMMA PopFacts ==
  ASSUME SynchInv, NEW x \in Object, NEW w, w = First(queue[x]),
         queue' = [queue EXCEPT ![x] = Rest(@)]
  PROVE  /\ w \in Sleeping \cup {NULL}
         /\ queue' \in [Object -> Seq(Thread)]
         /\ \A y \in Object : IsInjective(queue'[y])
         /\ \A t \in Thread, y \in Object :
              t \in Range(queue'[y]) <=> t \in Range(queue[y]) /\ t # w
<1>1. queue \in [Object -> Seq(Thread)] /\ \A y \in Object : IsInjective(queue[y])
  BY DEF SynchInv, SynchTypeOK, QueuesExact, Object
<1>2. CASE queue[x] = <<>>
  <2>1. w = NULL /\ Rest(queue[x]) = queue[x]
    BY <1>2 DEF First, Rest
  <2>2. queue' = queue
    BY <1>1, <2>1
  <2> QED
    BY <1>1, <2>1, <2>2, ThreadsAssumption
<1>3. CASE queue[x] # <<>>
  <2>1. w = Head(queue[x]) /\ Rest(queue[x]) = Tail(queue[x])
    BY <1>3 DEF First, Rest
  <2>2. /\ w \in Thread /\ w \in Range(queue[x])
        /\ Tail(queue[x]) \in Seq(Thread)
        /\ Range(Tail(queue[x])) = Range(queue[x]) \ {w}
        /\ IsInjective(Tail(queue[x]))
    BY <1>1, <1>3, <2>1, TailFacts
  <2>3. w \in Sleeping
    BY <2>2 DEF SynchInv, QueuesExact, Object
  <2>4. queue'[x] = Tail(queue[x]) /\ \A y \in Object : y # x => queue'[y] = queue[y]
    BY <1>1, <2>1
  <2>5. queue' \in [Object -> Seq(Thread)]
    BY <1>1, <2>1, <2>2
  <2>6. \A y \in Object : IsInjective(queue'[y])
    BY Zenon, <1>1, <2>2, <2>4
  <2>7. \A y \in Object : y # x => w \notin Range(queue[y])
    BY <2>2, OneQueue
  <2>8. \A t \in Thread, y \in Object :
          t \in Range(queue'[y]) <=> t \in Range(queue[y]) /\ t # w
    BY <2>2, <2>4, <2>7
  <2> QED
    BY <2>3, <2>5, <2>6, <2>8
<1> QED
  BY <1>2, <1>3

\* V on s, as far as its queue goes, is such a Remove.
LEMMA DoVPops ==
  ASSUME SynchInv, NEW s \in Sem, DoV(s)
  PROVE  queue' = [queue EXCEPT ![s] = Rest(@)] /\ Wakes(s) = First(queue[s])
<1>1. queue[s] \in Seq(Thread)
  BY DEF SynchInv, SynchTypeOK
<1>2. queue[s] # <<>> => Head(queue[s]) # NULL
  BY <1>1, ThreadsAssumption
<1> QED
  BY Zenon, <1>2 DEF DoV, Wakes, First, Rest

\* List::Append on the queue of x, of a thread that is on no queue.
LEMMA PushFacts ==
  ASSUME SynchInv, NEW u \in Thread, u \notin Sleeping, NEW x \in Object,
         queue' = [queue EXCEPT ![x] = Append(@, u)]
  PROVE  /\ queue' \in [Object -> Seq(Thread)]
         /\ \A y \in Object : IsInjective(queue'[y])
         /\ \A t \in Thread, y \in Object :
              t \in Range(queue'[y]) <=> t \in Range(queue[y]) \/ (t = u /\ y = x)
<1>1. queue \in [Object -> Seq(Thread)] /\ \A y \in Object : IsInjective(queue[y])
  BY Zenon DEF SynchInv, SynchTypeOK, QueuesExact, Object
<1>2. \A y \in Object : u \notin Range(queue[y])
  BY DEF SynchInv, QueuesExact, Object
<1>3. /\ Append(queue[x], u) \in Seq(Thread)
      /\ Range(Append(queue[x], u)) = Range(queue[x]) \cup {u}
      /\ IsInjective(Append(queue[x], u))
  BY <1>1, <1>2, AppendFacts
<1>4. queue'[x] = Append(queue[x], u) /\ \A y \in Object : y # x => queue'[y] = queue[y]
  BY <1>1
<1>5. queue' \in [Object -> Seq(Thread)]
  BY Zenon, <1>1, <1>3
<1> QED
  BY <1>1, <1>3, <1>4, <1>5

\* No other step of the scheduler puts a thread to sleep or wakes one.
LEMMA ThreadStepFacts ==
  ASSUME SchedulerInv, ThreadStep \/ Halted \/ UNCHANGED vars
  PROVE  \A t \in Thread : (Inside(t)' <=> Inside(t)) /\ (t \in Sleeping' <=> t \in Sleeping)
<1> USE DEF SchedulerInv
<1>1. ASSUME NEW u \in Thread, createThread(u) \/ Fork(u)
      PROVE  \A t \in Thread : (Inside(t)' <=> Inside(t)) /\ (t \in Sleeping' <=> t \in Sleeping)
  <2>1. /\ frame[u] \in {"unborn", "new"} /\ frame'[u] \in {"new", "ThreadRoot"}
        /\ \A t \in Thread : t # u => frame'[t] = frame[t] /\ status'[t] = status[t]
    BY <1>1 DEF createThread, newThread, Fork, ReadyToRun, TypeOK
  <2> QED
    BY <2>1 DEF Inside, Sleeping
<1>2. CASE Finish
  <2>1. /\ currentThread \in Thread
        /\ frame[currentThread] = "code" /\ frame'[currentThread] = "Finish"
        /\ \A t \in Thread : t # currentThread => frame'[t] = frame[t] /\ status'[t] = status[t]
    BY <1>2 DEF Finish, InCode, blocked, TypeOK
  <2> QED
    BY <2>1 DEF Inside, Sleeping
<1>3. CASE Yield
  BY <1>3, YieldAtFacts DEF Yield, InCode
<1>4. CASE EndTick
  <2>1. frame[currentThread] = "code"
    BY <1>4 DEF EndTick, FramesExact
  <2>2. CASE YieldAt("IntOn")
    BY <2>1, <2>2, YieldAtFacts
  <2>3. CASE UNCHANGED <<status, frame>>
    BY <2>3 DEF Inside, Sleeping
  <2> QED
    BY <1>4, <2>2, <2>3 DEF EndTick
<1>5. CASE Run
  BY <1>5, RunFacts
<1>6. CASE UNCHANGED <<status, frame>>
  BY <1>6 DEF Inside, Sleeping
<1> QED
  BY Zenon, <1>1, <1>2, <1>3, <1>4, <1>5, <1>6 DEF ThreadStep, Disable, Enable, UserInstruction,
     TimerInterrupt, Idle, IdleReturn, ScheduleV, Schedule, Halted, vars, schedVars

-----------------------------------------------------------------------------
(* The routines.  Each keeps the objects exact, and is a step that module  *)
(* Threads allows: the thread it wakes was asleep.                         *)

ObjectInv == SynchTypeOK /\ QueuesExact /\ MutualExclusion /\ DoingInv

\* The current thread enters, leaves or stays in a routine.
LEMMA BecomeFacts ==
  ASSUME SynchInv, currentThread \in Thread, NEW r, Become(r),
         r \in [op : Routine, obj : Sem \cup Condition \cup {NULL}]
  PROVE  /\ doing' \in [Thread -> [op : Routine, obj : Sem \cup Condition \cup {NULL}]]
         /\ doing'[currentThread] = r
         /\ \A t \in Thread : t # currentThread => doing'[t] = doing[t]
BY Zenon DEF SynchInv, SynchTypeOK, Become

\* The current thread returns from its routine and wakes nobody.
LEMMA ReturnFacts ==
  ASSUME SynchInv, Become(None), LeaveSynch(NULL), UNCHANGED queue
  PROVE  /\ Next /\ QueuesExact' /\ DoingInv'
         /\ doing' \in [Thread -> [op : Routine, obj : Sem \cup Condition \cup {NULL}]]
         /\ currentThread \in Thread
<1>1. Next
  BY DEF Next, ThreadOp
<1>2. /\ currentThread \in Thread /\ currentThread \notin Sleeping
      /\ currentThread' = currentThread
      /\ ~Inside(currentThread)'
      /\ \A t \in Thread : t # currentThread => (Inside(t)' <=> Inside(t))
      /\ \A t \in Thread : t \in Sleeping' <=> t \in Sleeping
  BY LeaveSynchFacts, ThreadsAssumption DEF SynchInv
<1>3. /\ doing' \in [Thread -> [op : Routine, obj : Sem \cup Condition \cup {NULL}]]
      /\ doing'[currentThread] = None
      /\ \A t \in Thread : t # currentThread => doing'[t] = doing[t]
  <2>1. None \in [op : Routine, obj : Sem \cup Condition \cup {NULL}]
    BY Zenon DEF None, Routine
  <2> QED
    BY <1>2, <2>1, BecomeFacts
<1>4. DoingInv'
  BY <1>3 DEF SynchInv, DoingInv, None
<1>5. QueuesExact'
  <2>1. /\ \A o \in Sem \cup Condition : IsInjective(queue'[o])
        /\ \A t \in Thread : t \in Sleeping' <=>
             \E o \in Sem \cup Condition : t \in Range(queue'[o])
    BY Zenon, <1>2 DEF SynchInv, QueuesExact
  <2>2. \A o \in Sem \cup Condition : currentThread \notin Range(queue[o])
    BY Zenon, <1>2 DEF SynchInv, QueuesExact
  <2>3. \A t \in Thread, o \in Sem \cup Condition : t \in Range(queue'[o]) =>
          doing'[t].obj = o /\ (doing'[t].op = "Wait" <=> o \in Condition)
    BY <1>3, <2>2 DEF SynchInv, QueuesExact
  <2>4. \A t \in Thread : doing'[t].op # "none" <=> frame'[t] \in {"Sleep", "synch"}
    <3>1. doing'[currentThread].op = "none"
      BY <1>3 DEF None
    <3>2. \A t \in Thread : doing[t].op # "none" <=> frame[t] \in {"Sleep", "synch"}
      BY Zenon DEF SynchInv, QueuesExact
    <3> QED
      BY Zenon, <1>2, <1>3, <3>1, <3>2 DEF Inside
  <2> QED
    BY Zenon, <2>1, <2>3, <2>4 DEF QueuesExact
<1> QED
  BY <1>1, <1>2, <1>3, <1>4, <1>5

\* P gets a unit.
LEMMA TakeUnitStep ==
  ASSUME SynchInv, NEW s \in Sem, value[s] > 0,
         value' = [value EXCEPT ![s] = @ - 1],
         IF s \in Lock
         THEN /\ owner' = [owner EXCEPT ![s] = currentThread]
              /\ held' = [held EXCEPT ![currentThread] = @ \cup {s}]
         ELSE UNCHANGED <<owner, held>>,
         Become(None), LeaveSynch(NULL), UNCHANGED queue
  PROVE  Next /\ ObjectInv'
<1>1. /\ Next /\ QueuesExact' /\ DoingInv'
      /\ doing' \in [Thread -> [op : Routine, obj : Sem \cup Condition \cup {NULL}]]
      /\ currentThread \in Thread
  BY ReturnFacts
<1>2. /\ value \in [Sem -> Nat] /\ owner \in [Lock -> Thread \cup {NULL}]
      /\ held \in [Thread -> SUBSET Lock]
  BY DEF SynchInv, SynchTypeOK
<1>3. value' \in [Sem -> Nat]
  BY <1>2
<1>4. /\ owner' \in [Lock -> Thread \cup {NULL}]
      /\ held' \in [Thread -> SUBSET Lock]
  <2>1. currentThread \in Thread
    BY <1>1
  <2> QED
    BY <1>2, <2>1
<1>5. SynchTypeOK'
  BY Zenon, <1>1, <1>3, <1>4 DEF SynchInv, SynchTypeOK
<1>6. MutualExclusion'
  <2>1. CASE s \in Lock
    <3>1. owner[s] = NULL /\ value[s] = 1
      BY <1>1, <2>1, <1>2 DEF SynchInv, MutualExclusion
    <3>2. /\ value'[s] = 0 /\ owner'[s] = currentThread
          /\ \A l \in Lock : l # s => value'[l] = value[l] /\ owner'[l] = owner[l]
      BY <1>2, <2>1, <3>1 DEF Sem
    <3>3. \A l \in Lock, t \in Thread :
            l \in held'[t] <=> l \in held[t] \/ (l = s /\ t = currentThread)
      BY <1>1, <1>2, <2>1
    <3> QED
      BY <1>1, <3>1, <3>2, <3>3, ThreadsAssumption DEF SynchInv, MutualExclusion
  <2>2. CASE s \notin Lock
    <3>1. \A l \in Lock : value'[l] = value[l]
      BY <1>2, <2>2 DEF Sem
    <3> QED
      BY <2>2, <3>1 DEF SynchInv, MutualExclusion
  <2> QED
    BY <2>1, <2>2
<1> QED
  BY Zenon, <1>1, <1>5, <1>6 DEF ObjectInv

\* P finds no unit, and its thread joins the queue.
LEMMA BlockStep ==
  ASSUME SynchInv, NEW s \in Sem, NEW r \in {"P", "Reacquire"}, r = "Reacquire" => s \in Lock,
         queue' = [queue EXCEPT ![s] = Append(@, currentThread)],
         Become([op |-> r, obj |-> s]), Sleep(NULL), UNCHANGED <<value, owner, held>>
  PROVE  Next /\ ObjectInv'
<1>1. Next
  BY DEF Next, ThreadOp
<1>2. /\ currentThread \in Thread /\ currentThread \notin Sleeping
      /\ currentThread' = currentThread
      /\ Inside(currentThread)'
      /\ \A t \in Thread : t # currentThread => (Inside(t)' <=> Inside(t))
      /\ \A t \in Thread : t \in Sleeping' <=> t \in Sleeping \/ t = currentThread
  BY Zenon, SleepFacts, ThreadsAssumption DEF SynchInv
<1>3. /\ doing' \in [Thread -> [op : Routine, obj : Sem \cup Condition \cup {NULL}]]
      /\ doing'[currentThread] = [op |-> r, obj |-> s]
      /\ \A t \in Thread : t # currentThread => doing'[t] = doing[t]
  <2>1. [op |-> r, obj |-> s] \in [op : Routine, obj : Sem \cup Condition \cup {NULL}]
    BY DEF Routine
  <2> QED
    BY <1>2, <2>1, BecomeFacts
<1>4. /\ queue' \in [Object -> Seq(Thread)]
      /\ \A y \in Object : IsInjective(queue'[y])
      /\ \A t \in Thread, y \in Object :
           t \in Range(queue'[y]) <=> t \in Range(queue[y]) \/ (t = currentThread /\ y = s)
  BY Zenon, <1>2, PushFacts DEF Object
<1>5. SynchTypeOK'
  BY Zenon, <1>3, <1>4 DEF SynchInv, SynchTypeOK, Object
<1>6. DoingInv'
  BY <1>3 DEF SynchInv, DoingInv
<1>7. MutualExclusion'
  BY Zenon DEF SynchInv, MutualExclusion
<1>8. QueuesExact'
  <2>1. s \in Object /\ s \notin Condition
    BY Zenon DEF Object
  <2>2. doing'[currentThread].obj = s /\ doing'[currentThread].op = r
    BY <1>3
  <2>3. \A o \in Sem \cup Condition : IsInjective(queue'[o])
    BY Zenon, <1>4 DEF Object
  <2>4. \A t \in Thread : t \in Sleeping' <=>
          \E o \in Sem \cup Condition : t \in Range(queue'[o])
    BY Zenon, <1>2, <1>4, <2>1 DEF SynchInv, QueuesExact, Object
  <2>5. \A t \in Thread, o \in Sem \cup Condition : t \in Range(queue'[o]) =>
          doing'[t].obj = o /\ (doing'[t].op = "Wait" <=> o \in Condition)
    <3>1. \A o \in Sem \cup Condition : currentThread \notin Range(queue[o])
      BY Zenon, <1>2 DEF SynchInv, QueuesExact
    <3>2. \A t \in Thread, o \in Sem \cup Condition : t \in Range(queue[o]) =>
            doing[t].obj = o /\ (doing[t].op = "Wait" <=> o \in Condition)
      BY Zenon DEF SynchInv, QueuesExact
    <3> SUFFICES ASSUME NEW t \in Thread, NEW o \in Sem \cup Condition, t \in Range(queue'[o])
                 PROVE  doing'[t].obj = o /\ (doing'[t].op = "Wait" <=> o \in Condition)
      BY Zenon
    <3>3. CASE t = currentThread
      <4>1. o = s
        BY <1>4, <3>1, <3>3 DEF Object
      <4> QED
        BY Zenon, <2>1, <2>2, <3>3, <4>1
    <3>4. CASE t # currentThread
      <4>1. t \in Range(queue[o]) /\ doing'[t] = doing[t]
        BY Zenon, <1>3, <1>4, <3>4 DEF Object
      <4> QED
        BY Zenon, <3>2, <4>1
    <3> QED
      BY <3>3, <3>4
  <2>6. \A t \in Thread : doing'[t].op # "none" <=> frame'[t] \in {"Sleep", "synch"}
    <3>1. \A t \in Thread : doing[t].op # "none" <=> frame[t] \in {"Sleep", "synch"}
      BY Zenon DEF SynchInv, QueuesExact
    <3>2. doing'[currentThread].op # "none"
      BY <2>2
    <3> QED
      BY Zenon, <1>2, <1>3, <3>1, <3>2 DEF Inside
  <2> QED
    BY <2>3, <2>4, <2>5, <2>6 DEF QueuesExact
<1> QED
  BY <1>1, <1>5, <1>6, <1>7, <1>8 DEF ObjectInv

\* The loop of P.
LEMMA TryPStep ==
  ASSUME SynchInv, NEW s \in Sem, NEW r \in {"P", "Reacquire"}, r = "Reacquire" => s \in Lock,
         TryP(s, r)
  PROVE  Next /\ ObjectInv'
BY Zenon, TakeUnitStep, BlockStep DEF TryP

\* A routine that wakes the first thread queueing for x and returns at once.
LEMMA WakeAndReturn ==
  ASSUME SynchInv, NEW x \in Object, InCode,
         queue' = [queue EXCEPT ![x] = Rest(@)], LeaveSynch(First(queue[x])), doing' = doing
  PROVE  /\ Next /\ QueuesExact' /\ DoingInv'
         /\ queue' \in [Object -> Seq(Thread)]
         /\ currentThread \in Thread
<1>1. PICK w : w = First(queue[x])
  OBVIOUS
<1>2. /\ w \in Sleeping \cup {NULL}
      /\ queue' \in [Object -> Seq(Thread)]
      /\ \A y \in Object : IsInjective(queue'[y])
      /\ \A t \in Thread, y \in Object :
           t \in Range(queue'[y]) <=> t \in Range(queue[y]) /\ t # w
  BY Zenon, <1>1, PopFacts
<1>3. LeaveSynch(w)
  BY <1>1
<1>4. Next
  BY <1>2, <1>3 DEF Next, ThreadOp
<1>5. /\ currentThread \in Thread /\ currentThread \notin Sleeping
      /\ currentThread' = currentThread
      /\ ~Inside(currentThread)'
      /\ \A t \in Thread : t # currentThread => (Inside(t)' <=> Inside(t))
      /\ \A t \in Thread : t \in Sleeping' <=> t \in Sleeping /\ t # w
  BY <1>2, <1>3, LeaveSynchFacts DEF SynchInv
<1>6. ~Inside(currentThread)
  BY DEF InCode, Inside
<1>7. \A t \in Thread : frame'[t] \in {"Sleep", "synch"} <=> frame[t] \in {"Sleep", "synch"}
  BY Zenon, <1>5, <1>6 DEF Inside
<1>8. QueuesExact'
  <2>1. \A t \in Thread : t \in Sleeping' <=>
          \E o \in Sem \cup Condition : t \in Range(queue'[o])
    BY Zenon, <1>2, <1>5 DEF SynchInv, QueuesExact, Object
  <2>2. \A t \in Thread, o \in Sem \cup Condition : t \in Range(queue'[o]) =>
          doing'[t].obj = o /\ (doing'[t].op = "Wait" <=> o \in Condition)
    BY Zenon, <1>2 DEF SynchInv, QueuesExact, Object
  <2>3. \A t \in Thread : doing'[t].op # "none" <=> frame'[t] \in {"Sleep", "synch"}
    BY Zenon, <1>7 DEF SynchInv, QueuesExact
  <2> QED
    BY Zenon, <1>2, <2>1, <2>2, <2>3 DEF QueuesExact, Object
<1>9. DoingInv'
  BY DEF SynchInv, DoingInv
<1> QED
  BY <1>2, <1>4, <1>5, <1>8, <1>9

\* Lock::Release, as far as the fields of the lock go.
LEMMA UnlockFacts ==
  ASSUME SynchInv, currentThread \in Thread, NEW l \in Lock, l \in held[currentThread],
         value' = [value EXCEPT ![l] = @ + 1],
         owner' = [owner EXCEPT ![l] = NULL],
         held' = [held EXCEPT ![currentThread] = @ \ {l}]
  PROVE  /\ value' \in [Sem -> Nat] /\ owner' \in [Lock -> Thread \cup {NULL}]
         /\ held' \in [Thread -> SUBSET Lock]
         /\ MutualExclusion'
<1>1. /\ value \in [Sem -> Nat] /\ owner \in [Lock -> Thread \cup {NULL}]
      /\ held \in [Thread -> SUBSET Lock]
  BY DEF SynchInv, SynchTypeOK
<1>2. value' \in [Sem -> Nat]
  BY <1>1 DEF Sem
<1>3. owner' \in [Lock -> Thread \cup {NULL}] /\ held' \in [Thread -> SUBSET Lock]
  BY <1>1
<1>4. owner[l] = currentThread /\ value[l] = 0
  BY ThreadsAssumption DEF SynchInv, MutualExclusion
<1>5. /\ value'[l] = 1 /\ owner'[l] = NULL
      /\ \A k \in Lock : k # l => value'[k] = value[k] /\ owner'[k] = owner[k]
  BY <1>1, <1>4 DEF Sem
<1>6. \A k \in Lock, t \in Thread :
        k \in held'[t] <=> k \in held[t] /\ ~(k = l /\ t = currentThread)
  BY Zenon, <1>1
<1>7. MutualExclusion'
  BY <1>4, <1>5, <1>6, ThreadsAssumption DEF SynchInv, MutualExclusion
<1> QED
  BY <1>2, <1>3, <1>7

\* V on a semaphore leaves the locks alone.
LEMMA RaiseFacts ==
  ASSUME SynchInv, NEW s \in Semaphore, value' = [value EXCEPT ![s] = @ + 1],
         UNCHANGED <<owner, held>>
  PROVE  value' \in [Sem -> Nat] /\ MutualExclusion'
<1>1. value \in [Sem -> Nat]
  BY DEF SynchInv, SynchTypeOK
<1>2. value' \in [Sem -> Nat]
  BY <1>1 DEF Sem
<1>3. \A l \in Lock : value'[l] = value[l]
  BY <1>1 DEF Sem
<1> QED
  BY <1>2, <1>3 DEF SynchInv, MutualExclusion

\* Semaphore::V.
LEMMA VStep ==
  ASSUME SynchInv, NEW s \in Semaphore, V(s)
  PROVE  Next /\ ObjectInv'
<1>1. s \in Sem /\ s \in Object
  BY DEF Sem, Object
<1>2. queue' = [queue EXCEPT ![s] = Rest(@)] /\ Wakes(s) = First(queue[s])
  BY <1>1, DoVPops DEF V
<1>3. /\ Next /\ QueuesExact' /\ DoingInv'
      /\ queue' \in [Object -> Seq(Thread)]
  BY Zenon, <1>1, <1>2, WakeAndReturn DEF V
<1>4. value' \in [Sem -> Nat] /\ MutualExclusion'
  BY Zenon, RaiseFacts DEF V, DoV
<1>5. SynchTypeOK'
  BY <1>3, <1>4 DEF V, SynchInv, SynchTypeOK, Object
<1> QED
  BY <1>3, <1>4, <1>5 DEF ObjectInv

\* Lock::Release.
LEMMA ReleaseStep ==
  ASSUME SynchInv, NEW l \in Lock, Release(l)
  PROVE  Next /\ ObjectInv'
<1>1. l \in Sem /\ l \in Object
  BY DEF Sem, Object
<1>2. queue' = [queue EXCEPT ![l] = Rest(@)] /\ Wakes(l) = First(queue[l])
  BY <1>1, DoVPops DEF Release
<1>3. /\ Next /\ QueuesExact' /\ DoingInv'
      /\ queue' \in [Object -> Seq(Thread)]
      /\ currentThread \in Thread
  BY Zenon, <1>1, <1>2, WakeAndReturn DEF Release
<1>4. /\ value' \in [Sem -> Nat] /\ owner' \in [Lock -> Thread \cup {NULL}]
      /\ held' \in [Thread -> SUBSET Lock]
      /\ MutualExclusion'
  BY Zenon, <1>3, UnlockFacts DEF Release, DoV
<1>5. SynchTypeOK'
  BY <1>3, <1>4 DEF Release, SynchInv, SynchTypeOK, Object
<1> QED
  BY <1>3, <1>4, <1>5 DEF ObjectInv

\* Condition::Signal.
LEMMA SignalStep ==
  ASSUME SynchInv, NEW c \in Condition, Signal(c)
  PROVE  Next /\ ObjectInv'
<1>1. c \in Object
  BY DEF Object
<1>2. /\ Next /\ QueuesExact' /\ DoingInv'
      /\ queue' \in [Object -> Seq(Thread)]
  BY Zenon, <1>1, WakeAndReturn DEF Signal
<1>3. SynchTypeOK' /\ MutualExclusion'
  BY <1>2 DEF Signal, SynchInv, SynchTypeOK, MutualExclusion, Object
<1> QED
  BY <1>2, <1>3 DEF ObjectInv
=============================================================================
