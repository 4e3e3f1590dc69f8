--------------------------- MODULE ThreadsProofs ---------------------------
(***************************************************************************)
(* Proofs about module Threads, for every number of threads, ids and       *)
(* devices, with or without the timer.                                     *)
(***************************************************************************)
EXTENDS Threads, FiniteSetTheorems, TLAPS

USE ThreadsAssumption

-----------------------------------------------------------------------------
(* The ready list: List::Append and List::Remove.                          *)

\* List::Append adds exactly its argument, and keeps a list without
\* repetitions free of them when the argument is not on the list.
LEMMA ReadyAppend ==
  ASSUME NEW s \in Seq(Thread), NEW e \in Thread
  PROVE  /\ Append(s, e) \in Seq(Thread)
         /\ Append(s, e) # <<>>
         /\ Range(Append(s, e)) = Range(s) \cup {e}
         /\ IsInjective(s) /\ e \notin Range(s) => IsInjective(Append(s, e))
<1>1. /\ Append(s, e) \in Seq(Thread)
      /\ Append(s, e) # <<>>
      /\ Len(Append(s, e)) = Len(s) + 1
      /\ \A i \in 1 .. Len(s) : Append(s, e)[i] = s[i]
      /\ Append(s, e)[Len(s) + 1] = e
  OBVIOUS
<1>2. /\ Len(s) \in Nat
      /\ DOMAIN s = 1 .. Len(s)
      /\ DOMAIN Append(s, e) = 1 .. Len(s) + 1
  BY <1>1
<1>3. Range(Append(s, e)) = Range(s) \cup {e}
  BY <1>1, <1>2 DEF Range
<1>4. ASSUME IsInjective(s), e \notin Range(s)
      PROVE  IsInjective(Append(s, e))
  BY <1>1, <1>2, <1>4 DEF IsInjective, Range
<1> QED
  BY <1>1, <1>3, <1>4

\* List::Remove on a nonempty list without repetitions takes away exactly
\* the first element.
LEMMA ReadyRemove ==
  ASSUME NEW s \in Seq(Thread), s # <<>>, IsInjective(s)
  PROVE  /\ Head(s) \in Thread
         /\ Head(s) \in Range(s)
         /\ Tail(s) \in Seq(Thread)
         /\ Range(Tail(s)) = Range(s) \ {Head(s)}
         /\ IsInjective(Tail(s))
<1>1. /\ Head(s) \in Thread
      /\ Tail(s) \in Seq(Thread)
      /\ Len(Tail(s)) = Len(s) - 1
      /\ \A i \in 1 .. Len(Tail(s)) : Tail(s)[i] = s[i + 1]
  OBVIOUS
<1>2. /\ Len(s) \in Nat \ {0}
      /\ DOMAIN s = 1 .. Len(s)
      /\ DOMAIN Tail(s) = 1 .. Len(s) - 1
  BY <1>1
<1>3. Head(s) = s[1]
  BY <1>2
<1>4. Head(s) \in Range(s)
  BY <1>2, <1>3 DEF Range
<1>5. ASSUME NEW x \in Range(Tail(s))  PROVE  x \in Range(s) \ {Head(s)}
  <2>1. PICK i \in 1 .. Len(s) - 1 : x = s[i + 1]
    BY <1>1, <1>2, <1>5 DEF Range
  <2> QED
    BY <1>2, <1>3, <2>1 DEF Range, IsInjective
<1>6. ASSUME NEW x \in Range(s) \ {Head(s)}  PROVE  x \in Range(Tail(s))
  <2>1. PICK i \in 1 .. Len(s) : x = s[i] /\ i # 1
    BY <1>2, <1>3, <1>6 DEF Range
  <2>2. i - 1 \in 1 .. Len(s) - 1 /\ Tail(s)[i - 1] = s[i]
    BY <1>1, <1>2, <2>1
  <2> QED
    BY Zenon, <1>2, <2>1, <2>2 DEF Range
<1>7. IsInjective(Tail(s))
  BY <1>1, <1>2 DEF IsInjective
<1> QED
  BY <1>1, <1>4, <1>5, <1>6, <1>7

-----------------------------------------------------------------------------
(* The scheduler.                                                          *)

\* What a step that may wake a sleeping thread does to the scheduler's state.
LEMMA WakeUpFacts ==
  ASSUME TypeOK, SchedulerExact,
         NEW w \in Sleeping \cup {NULL},
         NEW st \in [Thread -> ThreadStatus],
         \A t \in Thread : st[t] = "READY" <=> status[t] = "READY",
         WakeUp(w, st)
  PROVE  /\ status' \in [Thread -> ThreadStatus]
         /\ readyList' \in Seq(Thread)
         /\ IsInjective(readyList')
         /\ \A t \in Thread : status'[t] = "READY" <=> t \in Range(readyList')
         /\ \A t \in Thread : t # w => status'[t] = st[t]
         /\ w # NULL => /\ w \in Thread
                        /\ frame[w] = "Sleep"
                        /\ status[w] = "BLOCKED"
                        /\ status'[w] = "READY"
<1>1. CASE w = NULL
  BY <1>1 DEF WakeUp, TypeOK, SchedulerExact
<1>2. CASE w # NULL
  <2>1. /\ w \in Thread
        /\ frame[w] = "Sleep" /\ status[w] = "BLOCKED"
        /\ status' = [st EXCEPT ![w] = "READY"]
        /\ readyList' = Append(readyList, w)
    BY <1>2 DEF WakeUp, ReadyToRun, Sleeping
  <2>2. w \notin Range(readyList) /\ IsInjective(readyList)
    BY <2>1 DEF SchedulerExact
  <2>3. /\ readyList' \in Seq(Thread)
        /\ Range(readyList') = Range(readyList) \cup {w}
        /\ IsInjective(readyList')
    BY <2>1, <2>2, ReadyAppend DEF TypeOK
  <2>4. status' \in [Thread -> ThreadStatus]
    BY <2>1 DEF ThreadStatus
  <2>5. \A t \in Thread : status'[t] = "READY" <=> t \in Range(readyList')
    BY <2>1, <2>3 DEF SchedulerExact
  <2> QED
    BY <2>1, <2>3, <2>4, <2>5
<1> QED
  BY <1>1, <1>2

\* The same for ReadyToRun on a thread that is not yet on the list.
LEMMA ReadyToRunFacts ==
  ASSUME TypeOK, SchedulerExact, NEW t \in Thread,
         status[t] # "READY",
         ReadyToRun(t, status)
  PROVE  /\ status' \in [Thread -> ThreadStatus]
         /\ readyList' \in Seq(Thread)
         /\ readyList' # <<>>
         /\ IsInjective(readyList')
         /\ \A u \in Thread : status'[u] = "READY" <=> u \in Range(readyList')
         /\ \A u \in Thread : u # t => status'[u] = status[u]
         /\ status'[t] = "READY"
<1>1. /\ status' = [status EXCEPT ![t] = "READY"]
      /\ readyList' = Append(readyList, t)
  BY DEF ReadyToRun
<1>2. t \notin Range(readyList) /\ IsInjective(readyList)
  BY DEF SchedulerExact
<1>3. /\ readyList' \in Seq(Thread)
      /\ readyList' # <<>>
      /\ Range(readyList') = Range(readyList) \cup {t}
      /\ IsInjective(readyList')
  BY <1>1, <1>2, ReadyAppend DEF TypeOK
<1>4. \A u \in Thread : status'[u] = "READY" <=> u \in Range(readyList')
  BY <1>1, <1>3 DEF SchedulerExact, TypeOK
<1> QED
  BY <1>1, <1>3, <1>4 DEF TypeOK, ThreadStatus

\* After Initialize only the main thread exists, and it is RUNNING.
LEMMA InitSchedulerInv == Init => SchedulerInv
<1> SUFFICES ASSUME Init PROVE SchedulerInv
  OBVIOUS
<1>1. 0 \in Id
  BY DEF Id
<1>2. TypeOK
  <2>1. readyList \in Seq(Thread)
    BY DEF Init
  <2>2. status \in [Thread -> ThreadStatus] /\ frame \in [Thread -> Frame]
    BY DEF Init, ThreadStatus, Frame
  <2>3. /\ valid_id \in [Id -> {0, 1}]
        /\ thread_pointer \in [Id -> Thread \cup {NULL}]
        /\ tid \in [Thread -> Id]
    BY <1>1 DEF Init
  <2> QED
    BY <2>1, <2>2, <2>3 DEF Init, TypeOK, IntStatus, Cpu
<1>3. readyList = <<>> /\ Range(readyList) = {} /\ IsInjective(readyList)
  BY DEF Init, Range, IsInjective
<1>4. SchedulerExact
  BY <1>3 DEF Init, SchedulerExact
<1>5. FramesExact /\ CarcassFinished /\ InterruptDiscipline
  BY DEF Init, FramesExact, CarcassFinished, InterruptDiscipline
<1> QED
  BY <1>2, <1>4, <1>5 DEF SchedulerInv

\* Construction does not touch the scheduler.
LEMMA newThreadInv ==
  ASSUME SchedulerInv, NEW t \in Thread, newThread(t)
  PROVE  SchedulerInv'
<1>1. getNewId \subseteq Id
  BY DEF getNewId
<1>2. TypeOK'
  BY <1>1 DEF SchedulerInv, TypeOK, newThread, Frame
<1>3. SchedulerExact'
  BY DEF SchedulerInv, SchedulerExact, newThread
<1>4. FramesExact'
  BY DEF SchedulerInv, TypeOK, FramesExact, newThread, InCode
<1>5. CarcassFinished'
  BY DEF SchedulerInv, TypeOK, CarcassFinished, newThread
<1>6. InterruptDiscipline'
  BY DEF SchedulerInv, TypeOK, InterruptDiscipline, newThread, InCode
<1> QED
  BY <1>2, <1>3, <1>4, <1>5, <1>6 DEF SchedulerInv

\* Thread::Fork: the new thread was on no list, so ReadyToRun adds it once.
LEMMA ForkInv ==
  ASSUME SchedulerInv, NEW t \in Thread, Fork(t)
  PROVE  SchedulerInv'
<1> USE DEF SchedulerInv
<1>1. status[t] = "JUST_CREATED" /\ t # currentThread
  BY DEF Fork, FramesExact, InCode
<1>2. /\ status' \in [Thread -> ThreadStatus]
      /\ readyList' \in Seq(Thread)
      /\ IsInjective(readyList')
      /\ \A u \in Thread : status'[u] = "READY" <=> u \in Range(readyList')
      /\ \A u \in Thread : u # t => status'[u] = status[u]
      /\ status'[t] = "READY"
  BY <1>1, ReadyToRunFacts DEF Fork
<1>3. TypeOK'
  BY Zenon, <1>2 DEF TypeOK, Fork, SetLevel, idVars, Frame, IntStatus, Cpu
<1>4. SchedulerExact'
  BY <1>1, <1>2 DEF SchedulerExact, Fork, SetLevel, InCode, TypeOK
<1>5. FramesExact'
  BY <1>1, <1>2 DEF FramesExact, Fork, SetLevel, InCode, TypeOK
<1>6. CarcassFinished'
  BY DEF CarcassFinished, Fork, TypeOK
<1>7. InterruptDiscipline'
  BY DEF InterruptDiscipline, Fork, SetLevel, InCode, TypeOK
<1> QED
  BY <1>3, <1>4, <1>5, <1>6, <1>7

\* Thread::Finish: the thread becomes the carcass and gives up the CPU for good.
LEMMA FinishInv ==
  ASSUME SchedulerInv, Finish
  PROVE  SchedulerInv'
<1> USE DEF SchedulerInv
<1>1. currentThread \in Thread /\ status[currentThread] = "RUNNING"
  BY DEF TypeOK, Finish, freeId, blocked, InCode, FramesExact
<1>2. TypeOK'
  BY <1>1 DEF TypeOK, Finish, freeId, blocked, Frame, ThreadStatus, IntStatus, Cpu
<1>3. SchedulerExact'
  BY <1>1 DEF SchedulerExact, Finish, freeId, blocked, InCode, TypeOK
<1>4. FramesExact'
  BY <1>1 DEF FramesExact, Finish, freeId, blocked, InCode, TypeOK
<1>5. CarcassFinished'
  BY <1>1 DEF CarcassFinished, Finish, freeId, blocked, TypeOK
<1>6. InterruptDiscipline'
  BY DEF InterruptDiscipline, Finish, freeId, blocked, InCode, TypeOK
<1> QED
  BY <1>2, <1>3, <1>4, <1>5, <1>6

\* Yield, called by the thread itself or at the end of a time slice.
LEMMA YieldAtInv ==
  ASSUME SchedulerInv, NEW old \in IntStatus,
         frame[currentThread] = "code", cpu \in {"code", "tick"},
         YieldAt(old), yieldOnReturn' = FALSE
  PROVE  SchedulerInv'
<1> USE DEF SchedulerInv
<1>1. currentThread \in Thread /\ status[currentThread] = "RUNNING"
  BY DEF TypeOK, FramesExact
<1>2. /\ status' \in [Thread -> ThreadStatus]
      /\ readyList' \in Seq(Thread)
      /\ IsInjective(readyList')
      /\ \A u \in Thread : status'[u] = "READY" <=> u \in Range(readyList')
      /\ \A u \in Thread : u # currentThread => status'[u] = status[u]
      /\ status'[currentThread] = "READY"
  BY <1>1, ReadyToRunFacts DEF YieldAt
<1>3. TypeOK'
  BY Zenon, <1>1, <1>2 DEF TypeOK, YieldAt, idVars, Frame, IntStatus, Cpu
<1>4. SchedulerExact'
  BY <1>1, <1>2 DEF SchedulerExact, YieldAt
<1>5. FramesExact'
  BY <1>1, <1>2 DEF FramesExact, YieldAt, TypeOK
<1>6. CarcassFinished'
  BY <1>1 DEF CarcassFinished, YieldAt, TypeOK
<1>7. InterruptDiscipline'
  BY DEF InterruptDiscipline, YieldAt
<1> QED
  BY <1>3, <1>4, <1>5, <1>6, <1>7

\* Scheduler::Run: the next thread is READY, so it is neither the thread that
\* gave up the CPU by sleeping or finishing nor the carcass that is deleted.
LEMMA RunInv ==
  ASSUME SchedulerInv, Run
  PROVE  SchedulerInv'
<1> USE DEF SchedulerInv
<1> DEFINE next == Head(readyList)
           fresh == frame[next] = "ThreadRoot"
           slept == frame[next] = "Sleep"
           dead == threadToBeDestroyed
<1>1. /\ cpu = "switch"
      /\ readyList # <<>>
      /\ readyList' = Tail(readyList)
      /\ currentThread' = next
      /\ status' = [status EXCEPT ![next] = "RUNNING"]
      /\ UNCHANGED <<yieldOnReturn, pending, idVars>>
  BY DEF Run, deleteCarcass
<1>2. /\ next \in Thread
      /\ next \in Range(readyList)
      /\ readyList' \in Seq(Thread)
      /\ Range(readyList') = Range(readyList) \ {next}
      /\ IsInjective(readyList')
  BY <1>1, ReadyRemove DEF TypeOK, SchedulerExact
<1>3. status[next] = "READY"
  BY <1>2 DEF SchedulerExact
<1>4. frame[next] \in {"ThreadRoot", "Yield", "Sleep"}
  BY <1>2, <1>3 DEF FramesExact, TypeOK, Frame
<1>5. dead # NULL => dead \in Thread /\ frame[dead] = "Finish" /\ dead # next
  BY <1>4 DEF CarcassFinished, TypeOK
<1>6. /\ frame' \in [Thread -> Frame]
      /\ frame'[next] = IF slept THEN "synch" ELSE "code"
      /\ \A t \in Thread \ {next} :
           \/ frame'[t] = frame[t]
           \/ frame[t] = "Finish" /\ frame'[t] = "deleted"
      /\ threadToBeDestroyed' \in {dead, NULL}
      /\ threadToBeDestroyed' # NULL => frame'[dead] = "Finish"
  <2> DEFINE frame1 == [frame EXCEPT ![next] = IF slept THEN "synch" ELSE "code"]
  <2>1. /\ frame1 \in [Thread -> Frame]
        /\ frame1[next] = IF slept THEN "synch" ELSE "code"
        /\ \A t \in Thread \ {next} : frame1[t] = frame[t]
    BY <1>2 DEF TypeOK, Frame
  <2>2. \/ frame' = frame1 /\ threadToBeDestroyed' = dead
        \/ /\ dead # NULL
           /\ frame' = [frame1 EXCEPT ![dead] = "deleted"]
           /\ threadToBeDestroyed' = NULL
    BY DEF Run, deleteCarcass
  <2> HIDE DEF next, slept, dead, frame1
  <2> QED
    BY <1>2, <1>5, <2>1, <2>2 DEF Frame
<1>7. /\ level' = "IntOff"
      /\ cpu' = "tick" \/ cpu' = "code"
      /\ cpu' = "tick" => frame'[next] = "code"
      /\ saved' \in [Thread -> IntStatus]
  BY Zenon, <1>2, <1>4, <1>6 DEF Run, deleteCarcass, SetLevel, TypeOK, IntStatus
<1>8. \A t \in Thread : /\ t # next => status'[t] = status[t]
                        /\ status'[next] = "RUNNING"
                        /\ status'[t] \in ThreadStatus
  BY <1>1, <1>2 DEF TypeOK, ThreadStatus
<1> HIDE DEF next, fresh, slept, dead
<1>9. TypeOK'
  BY Zenon, <1>1, <1>2, <1>6, <1>7, <1>8 DEF TypeOK, idVars, Cpu, IntStatus, dead
<1>10. SchedulerExact'
  BY <1>1, <1>2, <1>3, <1>7, <1>8 DEF SchedulerExact
<1>11. FramesExact'
  BY <1>1, <1>2, <1>4, <1>6, <1>7, <1>8 DEF FramesExact, TypeOK, SchedulerExact
<1>12. CarcassFinished'
  BY <1>6 DEF CarcassFinished, dead
<1>13. InterruptDiscipline'
  BY <1>1, <1>7 DEF InterruptDiscipline
<1> QED
  BY <1>9, <1>10, <1>11, <1>12, <1>13

\* A synchronization routine that returns, waking at most one sleeper.
LEMMA LeaveSynchInv ==
  ASSUME SchedulerInv, NEW w \in Sleeping \cup {NULL}, LeaveSynch(w)
  PROVE  SchedulerInv'
<1> USE DEF SchedulerInv
<1> DEFINE st == status
<1>1. currentThread \in Thread /\ status[currentThread] = "RUNNING"
  BY DEF TypeOK, LeaveSynch, Executing, FramesExact
<1>2. oldLevel \in IntStatus
  BY <1>1 DEF oldLevel, TypeOK
<1>3. /\ status' \in [Thread -> ThreadStatus]
      /\ readyList' \in Seq(Thread)
      /\ IsInjective(readyList')
      /\ \A t \in Thread : status'[t] = "READY" <=> t \in Range(readyList')
      /\ \A t \in Thread : t # w => status'[t] = st[t]
      /\ w # NULL => /\ w \in Thread /\ frame[w] = "Sleep"
                     /\ status[w] = "BLOCKED" /\ status'[w] = "READY"
  <2>1. /\ st \in [Thread -> ThreadStatus]
        /\ \A t \in Thread : st[t] = "READY" <=> status[t] = "READY"
    BY <1>1 DEF TypeOK, ThreadStatus
  <2>2. WakeUp(w, st)
    BY DEF LeaveSynch
  <2> HIDE DEF st
  <2> QED
    BY <2>1, <2>2, WakeUpFacts
<1>4. TypeOK'
  BY Zenon, <1>1, <1>2, <1>3 DEF TypeOK, LeaveSynch, SetLevel, idVars, Frame, IntStatus, Cpu
<1>5. SchedulerExact'
  BY <1>1, <1>3 DEF SchedulerExact, LeaveSynch, Executing, SetLevel
<1>6. FramesExact'
  BY <1>1, <1>3 DEF FramesExact, LeaveSynch, Executing, SetLevel, TypeOK
<1>7. CarcassFinished'
  BY <1>1 DEF CarcassFinished, LeaveSynch, Executing, TypeOK
<1>8. InterruptDiscipline'
  BY <1>1 DEF InterruptDiscipline, LeaveSynch, Executing, SetLevel
<1> QED
  BY <1>4, <1>5, <1>6, <1>7, <1>8

\* A synchronization routine that wakes a sleeper and goes on, interrupts off.
LEMMA StayInSynchInv ==
  ASSUME SchedulerInv, NEW w \in Sleeping \cup {NULL}, StayInSynch(w)
  PROVE  SchedulerInv'
<1> USE DEF SchedulerInv
<1> DEFINE st == status
<1>1. currentThread \in Thread /\ status[currentThread] = "RUNNING"
  BY DEF TypeOK, StayInSynch, Executing, FramesExact
<1>2. oldLevel \in IntStatus
  BY <1>1 DEF oldLevel, TypeOK
<1>3. /\ status' \in [Thread -> ThreadStatus]
      /\ readyList' \in Seq(Thread)
      /\ IsInjective(readyList')
      /\ \A t \in Thread : status'[t] = "READY" <=> t \in Range(readyList')
      /\ \A t \in Thread : t # w => status'[t] = st[t]
      /\ w # NULL => /\ w \in Thread /\ frame[w] = "Sleep"
                     /\ status[w] = "BLOCKED" /\ status'[w] = "READY"
  <2>1. /\ st \in [Thread -> ThreadStatus]
        /\ \A t \in Thread : st[t] = "READY" <=> status[t] = "READY"
    BY <1>1 DEF TypeOK, ThreadStatus
  <2>2. WakeUp(w, st)
    BY DEF StayInSynch
  <2> HIDE DEF st
  <2> QED
    BY <2>1, <2>2, WakeUpFacts
<1>4. TypeOK'
  BY Zenon, <1>1, <1>2, <1>3 DEF TypeOK, StayInSynch, SetLevel, idVars, Frame, IntStatus, Cpu
<1>5. SchedulerExact'
  BY <1>1, <1>3 DEF SchedulerExact, StayInSynch, Executing, SetLevel
<1>6. FramesExact'
  BY <1>1, <1>3 DEF FramesExact, StayInSynch, Executing, SetLevel, TypeOK
<1>7. CarcassFinished'
  BY <1>1 DEF CarcassFinished, StayInSynch, Executing, TypeOK
<1>8. InterruptDiscipline'
  BY <1>1 DEF InterruptDiscipline, StayInSynch, Executing, SetLevel
<1> QED
  BY <1>4, <1>5, <1>6, <1>7, <1>8

\* Thread::Sleep, perhaps after waking another thread (Condition::Wait).
LEMMA SleepInv ==
  ASSUME SchedulerInv, NEW w \in Sleeping \cup {NULL}, Sleep(w)
  PROVE  SchedulerInv'
<1> USE DEF SchedulerInv
<1> DEFINE st == blocked
<1>1. currentThread \in Thread /\ status[currentThread] = "RUNNING"
  BY DEF TypeOK, Sleep, blocked, Executing, FramesExact
<1>2. oldLevel \in IntStatus
  BY <1>1 DEF oldLevel, TypeOK
<1>3. /\ status' \in [Thread -> ThreadStatus]
      /\ readyList' \in Seq(Thread)
      /\ IsInjective(readyList')
      /\ \A t \in Thread : status'[t] = "READY" <=> t \in Range(readyList')
      /\ \A t \in Thread : t # w => status'[t] = st[t]
      /\ w # NULL => /\ w \in Thread /\ frame[w] = "Sleep"
                     /\ status[w] = "BLOCKED" /\ status'[w] = "READY"
  <2>1. /\ st \in [Thread -> ThreadStatus]
        /\ \A t \in Thread : st[t] = "READY" <=> status[t] = "READY"
    BY <1>1 DEF TypeOK, ThreadStatus, blocked
  <2>2. WakeUp(w, st)
    BY DEF Sleep, blocked
  <2> HIDE DEF st
  <2> QED
    BY <2>1, <2>2, WakeUpFacts
<1>4. TypeOK'
  BY Zenon, <1>1, <1>2, <1>3 DEF TypeOK, Sleep, blocked, SetLevel, idVars, Frame, IntStatus, Cpu
<1>5. SchedulerExact'
  <2>1. /\ status'[currentThread] = "BLOCKED"
        /\ \A t \in Thread : t # currentThread => status'[t] # "RUNNING"
    BY <1>1, <1>3 DEF SchedulerExact, TypeOK, blocked
  <2> QED
    BY <1>1, <1>3, <2>1 DEF SchedulerExact, Sleep, blocked
<1>6. FramesExact'
  <2>1. /\ status'[currentThread] = "BLOCKED" /\ w # currentThread
        /\ \A t \in Thread : t \notin {currentThread, w} => status'[t] = status[t]
    BY <1>1, <1>3 DEF TypeOK, blocked
  <2>2. /\ frame' = [frame EXCEPT ![currentThread] = "Sleep"]
        /\ cpu' = "switch" /\ currentThread' = currentThread
    BY DEF Sleep
  <2> QED
    BY <1>1, <1>3, <2>1, <2>2 DEF FramesExact, TypeOK
<1>7. CarcassFinished'
  BY <1>1 DEF CarcassFinished, Sleep, blocked, Executing, TypeOK
<1>8. InterruptDiscipline'
  BY <1>1 DEF InterruptDiscipline, Sleep, blocked, Executing, SetLevel
<1> QED
  BY <1>4, <1>5, <1>6, <1>7, <1>8

\* A device handler: it may wake a sleeper while any thread is current.
LEMMA DeviceInterruptInv ==
  ASSUME SchedulerInv, NEW d \in Device, NEW w \in Sleeping \cup {NULL},
         DeviceInterrupt(d, w)
  PROVE  SchedulerInv'
<1> USE DEF SchedulerInv
<1>1. /\ status' \in [Thread -> ThreadStatus]
      /\ readyList' \in Seq(Thread)
      /\ IsInjective(readyList')
      /\ \A t \in Thread : status'[t] = "READY" <=> t \in Range(readyList')
      /\ \A t \in Thread : t # w => status'[t] = status[t]
      /\ w # NULL => /\ w \in Thread /\ frame[w] = "Sleep"
                     /\ status[w] = "BLOCKED" /\ status'[w] = "READY"
  BY WakeUpFacts DEF DeviceInterrupt, TypeOK
<1>2. cpu' = "tick" <=> cpu = "tick"
  BY DEF DeviceInterrupt, HandlerDone
<1>3. TypeOK'
  BY Zenon, <1>1 DEF TypeOK, DeviceInterrupt, HandlerDone, idVars, Cpu
<1>4. SchedulerExact'
  BY <1>1, <1>2 DEF SchedulerExact, DeviceInterrupt, HandlerDone, InHandler
<1>5. FramesExact'
  BY <1>1, <1>2 DEF FramesExact, DeviceInterrupt, HandlerDone, InHandler, TypeOK
<1>6. CarcassFinished' /\ InterruptDiscipline'
  BY <1>2 DEF CarcassFinished, InterruptDiscipline, DeviceInterrupt, HandlerDone,
              InHandler, InCode
<1> QED
  BY <1>3, <1>4, <1>5, <1>6

\* The steps that leave every thread where it is.
LEMMA QuietInv ==
  ASSUME SchedulerInv,
         \/ Disable \/ Enable \/ UserInstruction \/ TimerInterrupt \/ Idle
         \/ IdleReturn \/ (EndTick /\ ~yieldOnReturn)
         \/ \E d \in Device : Schedule(d)
         \/ UNCHANGED vars
  PROVE  SchedulerInv'
<1> USE DEF SchedulerInv
<1> DEFINE Same == UNCHANGED <<currentThread, readyList, status,
                               threadToBeDestroyed, frame, saved, idVars>>
<1>1. /\ Same
      /\ level' \in IntStatus /\ yieldOnReturn' \in BOOLEAN
      /\ pending' \subseteq Device /\ cpu' \in Cpu
      /\ cpu' = "tick" => frame[currentThread] = "code"
      /\ cpu \in {"code", "tick"} <=> cpu' \in {"code", "tick"}
      /\ cpu' = "switch" =>
           frame[currentThread] \in {"Yield", "Sleep", "Finish"}
      /\ cpu' \in {"CheckIfDue", "idle", "halt"} =>
           frame[currentThread] \in {"Sleep", "Finish"}
      /\ level' = "IntOn" => cpu' = "code" /\ frame[currentThread] = "code"
      /\ yieldOnReturn' => cpu' \in {"tick", "idle"}
  <2>1. CASE Disable
    BY <2>1 DEF Disable, InCode, TypeOK, IntStatus, InterruptDiscipline
  <2>2. CASE Enable
    BY <2>2 DEF Enable, SetLevel, InCode, TypeOK, IntStatus, Cpu, InterruptDiscipline
  <2>3. CASE UserInstruction
    BY <2>3 DEF UserInstruction, SetLevel, InCode, TypeOK, IntStatus, Cpu,
                InterruptDiscipline
  <2>4. CASE TimerInterrupt
    BY <2>4 DEF TimerInterrupt, InHandler, HandlerDone, TypeOK, IntStatus, Cpu,
                InterruptDiscipline, InCode, FramesExact
  <2>5. CASE Idle
    <3>1. frame[currentThread] # "Yield"
      <4>1. readyList = <<>> /\ Range(readyList) = {}
        BY <2>5 DEF Idle, Range
      <4> QED
        BY <4>1 DEF SchedulerExact, FramesExact, TypeOK
    <3> QED
      BY <2>5, <3>1 DEF Idle, TypeOK, IntStatus, Cpu, InterruptDiscipline, InCode,
                        FramesExact
  <2>6. CASE IdleReturn
    BY Zenon, <2>6 DEF IdleReturn, TypeOK, IntStatus, Cpu, InterruptDiscipline, InCode,
                FramesExact
  <2>7. CASE EndTick /\ ~yieldOnReturn
    BY <2>7 DEF EndTick, TypeOK, IntStatus, Cpu, FramesExact
  <2>8. CASE \E d \in Device : Schedule(d)
    BY <2>8 DEF Schedule, Executing, TypeOK, IntStatus, Cpu, InterruptDiscipline,
                InCode
  <2>9. CASE UNCHANGED vars
    BY <2>9 DEF vars, schedVars, idVars, TypeOK, IntStatus, Cpu,
                InterruptDiscipline, InCode, FramesExact
  <2> QED
    BY <2>1, <2>2, <2>3, <2>4, <2>5, <2>6, <2>7, <2>8, <2>9
<1>2. TypeOK'
  BY <1>1 DEF TypeOK, idVars
<1>3. SchedulerExact' /\ FramesExact'
  BY Zenon, <1>1 DEF SchedulerExact, FramesExact
<1>4. CarcassFinished' /\ InterruptDiscipline'
  BY <1>1 DEF CarcassFinished, InterruptDiscipline, InCode
<1> QED
  BY Zenon, <1>2, <1>3, <1>4

\* Every step of the kernel preserves the invariant.
LEMMA NextSchedulerInv == SchedulerInv /\ [Next]_vars => SchedulerInv'
<1> SUFFICES ASSUME SchedulerInv, [Next]_vars PROVE SchedulerInv'
  OBVIOUS
<1>1. ASSUME NEW t \in Thread,
             createThread(t) \/ newThreadUnchecked(t) \/ Fork(t)
      PROVE  SchedulerInv'
  BY <1>1, newThreadInv, ForkInv DEF createThread, newThreadUnchecked
<1>2. CASE Finish
  BY <1>2, FinishInv
<1>3. CASE Yield
  <2>1. yieldOnReturn' = FALSE /\ level \in IntStatus
    BY <1>3 DEF Yield, InCode, SchedulerInv, InterruptDiscipline, TypeOK
  <2> QED
    BY Zenon, <1>3, <2>1, YieldAtInv DEF Yield, InCode
<1>4. CASE EndTick
  <2>1. CASE yieldOnReturn
    BY Zenon, <1>4, <2>1, YieldAtInv DEF EndTick, SchedulerInv, FramesExact, IntStatus
  <2> QED
    BY <1>4, <2>1, QuietInv
<1>5. CASE Run
  BY <1>5, RunInv
<1>6. ASSUME NEW w \in Sleeping \cup {NULL},
             LeaveSynch(w) \/ StayInSynch(w) \/ Sleep(w)
      PROVE  SchedulerInv'
  BY <1>6, LeaveSynchInv, StayInSynchInv, SleepInv
<1>7. ASSUME NEW d \in Device, NEW w \in Sleeping \cup {NULL},
             DeviceInterrupt(d, w)
      PROVE  SchedulerInv'
  BY <1>7, DeviceInterruptInv
<1>8. CASE \/ Disable \/ Enable \/ UserInstruction \/ TimerInterrupt \/ Idle
           \/ IdleReturn
           \/ \E d \in Device : Schedule(d)
           \/ UNCHANGED vars
  BY <1>8, QuietInv
<1> QED
  BY <1>1, <1>2, <1>3, <1>4, <1>5, <1>6, <1>7, <1>8
  DEF Next, ThreadOp, KernelOp, Halted

\* The scheduler's state is consistent in every reachable state: type
\* correctness and the five parts of SchedulerInv.
THEOREM SchedulerCorrect == Spec => []SchedulerInv
  BY InitSchedulerInv, NextSchedulerInv, PTL DEF Spec

\* Every variable of the thread module keeps its type.
THEOREM TypeCorrect == Spec => []TypeOK
<1>1. SchedulerInv => TypeOK
  BY DEF SchedulerInv
<1> QED
  BY <1>1, SchedulerCorrect, PTL

\* The ready list, the status fields and currentThread always agree.
THEOREM SchedulerIsExact == Spec => []SchedulerExact
<1>1. SchedulerInv => SchedulerExact
  BY DEF SchedulerInv
<1> QED
  BY <1>1, SchedulerCorrect, PTL

\* Interrupts are off whenever the kernel chooses or switches threads, and no
\* time slice outlives the idle loop.
THEOREM InterruptsDisciplined == Spec => []InterruptDiscipline
<1>1. SchedulerInv => InterruptDiscipline
  BY DEF SchedulerInv
<1> QED
  BY <1>1, SchedulerCorrect, PTL

(***************************************************************************)
(* The id table.  A pointer in thread_pointer leads to a live thread that  *)
(* has that id.  This much survives even an id handed out twice, and it is *)
(* what keeps ts() from following a pointer to a deleted thread.           *)
(***************************************************************************)
PointerInv ==
  \A i \in Id : thread_pointer[i] # NULL =>
    /\ frame[thread_pointer[i]] \notin {"unborn", "Finish", "deleted"}
    /\ tid[thread_pointer[i]] = i

\* No step breaks the table: construction enters a live thread under its id,
\* Finish clears the one entry that can lead to the finishing thread.
LEMMA NextPointerInv ==
  SchedulerInv /\ PointerInv /\ [Next]_vars => PointerInv'
<1> SUFFICES ASSUME SchedulerInv, PointerInv, [Next]_vars PROVE PointerInv'
  OBVIOUS
<1> USE DEF SchedulerInv, TypeOK
<1>1. ASSUME UNCHANGED <<thread_pointer, tid>>,
             \A t \in Thread :
               \/ frame'[t] \notin {"unborn", "Finish", "deleted"}
               \/ frame'[t] = frame[t]
               \/ frame[t] = "Finish"
      PROVE  PointerInv'
  BY <1>1 DEF PointerInv
<1>2. ASSUME NEW t \in Thread, newThread(t)
      PROVE  PointerInv'
  <2>1. PICK i \in getNewId :
          /\ tid' = [tid EXCEPT ![t] = i]
          /\ thread_pointer' = [thread_pointer EXCEPT ![i] = t]
    BY Zenon, <1>2 DEF newThread
  <2>2. i \in Id
    BY <2>1 DEF getNewId
  <2> QED
    BY <1>2, <2>1, <2>2 DEF PointerInv, newThread
<1>3. CASE Finish
  BY <1>3 DEF PointerInv, Finish, freeId, blocked
<1>4. CASE Run
  <2>1. readyList # <<>> /\ Head(readyList) \in Thread
    BY <1>4, ReadyRemove DEF Run, deleteCarcass
  <2> QED
    BY <1>1, <1>4, <2>1 DEF Run, deleteCarcass, idVars, CarcassFinished
<1>5. ASSUME NEW t \in Thread, Fork(t)
      PROVE  PointerInv'
  BY <1>1, <1>5 DEF Fork, idVars
<1>6. CASE Yield \/ EndTick
  BY <1>1, <1>6 DEF Yield, EndTick, YieldAt, idVars
<1>7. ASSUME NEW w \in Sleeping \cup {NULL},
             LeaveSynch(w) \/ StayInSynch(w) \/ Sleep(w)
      PROVE  PointerInv'
  BY <1>1, <1>7 DEF LeaveSynch, StayInSynch, Sleep, blocked, idVars
<1>8. ASSUME UNCHANGED <<frame, idVars>>
      PROVE  PointerInv'
  BY <1>8 DEF PointerInv, idVars
<1>9. CASE \/ Disable \/ Enable \/ UserInstruction \/ TimerInterrupt \/ Idle
           \/ IdleReturn \/ (\E d \in Device : Schedule(d))
           \/ (\E d \in Device, w \in Sleeping \cup {NULL} : DeviceInterrupt(d, w))
           \/ UNCHANGED vars
  BY <1>8, <1>9 DEF Disable, Enable, UserInstruction, TimerInterrupt, Idle,
     IdleReturn, Schedule, DeviceInterrupt, vars, schedVars
<1> QED
  BY <1>2, <1>3, <1>4, <1>5, <1>6, <1>7, <1>9
  DEF Next, ThreadOp, KernelOp, Halted, createThread, newThreadUnchecked

\* Whoever constructs threads and however ids run out, no kernel pointer leads
\* to a thread whose destructor has run.
THEOREM NothingDangles == Spec => []NoDanglingThread
<1>1. Init => PointerInv
  BY DEF Init, PointerInv, Id
<1>2. SchedulerInv /\ PointerInv => NoDanglingThread
  <2> SUFFICES ASSUME SchedulerInv, PointerInv, NEW t \in Thread,
                      frame[t] = "deleted"
               PROVE  /\ t # currentThread
                      /\ t # threadToBeDestroyed
                      /\ t \notin Range(readyList)
                      /\ t \notin Range(thread_pointer)
    BY DEF NoDanglingThread
  <2> USE DEF SchedulerInv, TypeOK
  <2>1. t # currentThread
    BY DEF FramesExact, SchedulerExact, Cpu
  <2>2. t # threadToBeDestroyed
    BY DEF CarcassFinished
  <2>3. t \notin Range(readyList)
    BY DEF FramesExact, SchedulerExact
  <2>4. t \notin Range(thread_pointer)
    BY DEF PointerInv, Range
  <2> QED
    BY <2>1, <2>2, <2>3, <2>4
<1> QED
  BY <1>1, <1>2, NextPointerInv, SchedulerCorrect, PTL DEF Spec

(***************************************************************************)
(* First come, first served.                                               *)
(***************************************************************************)

\* A step appends to the ready list, removes its head and runs it, or leaves
\* the list alone.
LEMMA ReadyListSteps ==
  ASSUME SchedulerInv, [Next]_vars
  PROVE  \/ readyList' = readyList
         \/ \E t \in Thread : readyList' = Append(readyList, t)
         \/ /\ readyList # <<>>
            /\ readyList' = Tail(readyList)
            /\ currentThread' = Head(readyList)
<1> USE DEF SchedulerInv, TypeOK
<1>1. ASSUME NEW t \in Thread,
             createThread(t) \/ newThreadUnchecked(t) \/ Fork(t)
      PROVE  readyList' = readyList \/ readyList' = Append(readyList, t)
  BY <1>1 DEF createThread, newThreadUnchecked, newThread, Fork, ReadyToRun
<1>2. CASE Yield \/ EndTick
  BY <1>2 DEF Yield, EndTick, YieldAt, ReadyToRun
<1>3. CASE Run
  BY <1>3 DEF Run, deleteCarcass
<1>4. ASSUME NEW w \in Sleeping \cup {NULL},
             \/ LeaveSynch(w) \/ StayInSynch(w) \/ Sleep(w)
             \/ \E d \in Device : DeviceInterrupt(d, w)
      PROVE  \/ readyList' = readyList
             \/ w \in Thread /\ readyList' = Append(readyList, w)
  <2>1. ASSUME NEW st, WakeUp(w, st)
        PROVE  \/ readyList' = readyList
               \/ w \in Thread /\ readyList' = Append(readyList, w)
    BY <2>1 DEF WakeUp, ReadyToRun, Sleeping
  <2>2. CASE LeaveSynch(w)
    BY <2>1, <2>2 DEF LeaveSynch
  <2>3. CASE StayInSynch(w)
    BY <2>1, <2>3 DEF StayInSynch
  <2>4. CASE Sleep(w)
    BY <2>1, <2>4 DEF Sleep, blocked
  <2>5. ASSUME NEW d \in Device, DeviceInterrupt(d, w)
        PROVE  WakeUp(w, status)
    BY <2>5 DEF DeviceInterrupt
  <2> QED
    BY <1>4, <2>1, <2>2, <2>3, <2>4, <2>5
<1>5. CASE \/ Disable \/ Enable \/ UserInstruction \/ TimerInterrupt \/ Idle
           \/ IdleReturn \/ Finish \/ (\E d \in Device : Schedule(d))
           \/ UNCHANGED vars
  BY <1>5 DEF Disable, Enable, UserInstruction, TimerInterrupt, Idle,
     IdleReturn, Finish, Schedule, vars, schedVars
<1> QED
  BY <1>1, <1>2, <1>3, <1>4, <1>5 DEF Next, ThreadOp, KernelOp, Halted

\* scheduler.cc's "straight FIFO": no step lets a thread overtake another on
\* the ready list.
THEOREM FirstComeFirstServed == Spec => NoOvertaking
<1> DEFINE Fifo ==
      \A i \in DOMAIN readyList :
        \/ i \in DOMAIN readyList' /\ readyList'[i] = readyList[i]
        \/ i - 1 \in DOMAIN readyList' /\ readyList'[i - 1] = readyList[i]
        \/ i = 1 /\ currentThread' = readyList[1]
<1>1. SchedulerInv /\ [Next]_vars => [Fifo]_vars
  <2> SUFFICES ASSUME SchedulerInv, [Next]_vars PROVE Fifo
    OBVIOUS
  <2>1. readyList \in Seq(Thread)
    BY DEF SchedulerInv, TypeOK
  <2>2. CASE readyList' = readyList
    BY <2>2
  <2>3. ASSUME NEW t \in Thread, readyList' = Append(readyList, t)
        PROVE  Fifo
    BY <2>1, <2>3
  <2>4. CASE /\ readyList # <<>>
             /\ readyList' = Tail(readyList)
             /\ currentThread' = Head(readyList)
    BY <2>1, <2>4
  <2> QED
    BY <2>2, <2>3, <2>4, ReadyListSteps
<1> QED
  BY <1>1, SchedulerCorrect, PTL DEF Spec, NoOvertaking

(***************************************************************************)
(* The id table stays exact while createThread's bound is respected.       *)
(***************************************************************************)

\* The set of live threads is finite, and has a size.
LEMMA LiveFinite == IsFiniteSet(Live) /\ Cardinality(Live) \in Nat
<1>1. Live \in SUBSET Thread
  BY DEF Live
<1> QED
  BY <1>1, FS_Subset, FS_CardinalityType

\* Pigeonhole: with fewer live threads than ids the exact table has a free id,
\* so getNewId does not run off its end.
LEMMA FreeIdExists ==
  ASSUME TypeOK, IdsConsistent, thread_cnt < max_thread
  PROVE  \E i \in Id : valid_id[i] = 0
<1> SUFFICES ASSUME \A i \in Id : valid_id[i] = 1
             PROVE  FALSE
  BY DEF TypeOK
<1>1. thread_pointer \in Injection(Id, Live)
  <2>1. thread_pointer \in [Id -> Live]
    BY DEF IdsConsistent, TypeOK
  <2>2. \A i, j \in Id : thread_pointer[i] = thread_pointer[j] => i = j
    BY DEF IdsConsistent
  <2> QED
    BY <2>1, <2>2 DEF Injection, IsInjective
<1>2. Cardinality(Id) <= Cardinality(Live)
  BY <1>1, LiveFinite, FS_Injection
<1>3. Cardinality(Id) = max_thread
  BY FS_Interval DEF Id
<1> QED
  BY <1>2, <1>3, LiveFinite DEF IdsConsistent

\* A step that leaves the id fields and the set of live threads alone.
LEMMA IdsKept ==
  ASSUME IdsConsistent, UNCHANGED idVars, Live' = Live
  PROVE  IdsConsistent'
  BY DEF IdsConsistent, idVars

\* Construction takes a free id, enters the thread under it and counts it.
LEMMA newThreadIds ==
  ASSUME TypeOK, IdsConsistent, NEW t \in Thread, newThread(t),
         thread_cnt' <= max_thread
  PROVE  IdsConsistent'
<1>1. thread_cnt' = thread_cnt + 1 /\ thread_cnt \in Int
  BY DEF newThread, TypeOK
<1>2. PICK f \in Id : valid_id[f] = 0
  BY <1>1, FreeIdExists
<1>3. PICK i \in getNewId :
        /\ tid' = [tid EXCEPT ![t] = i]
        /\ valid_id' = [valid_id EXCEPT ![i] = 1]
        /\ thread_pointer' = [thread_pointer EXCEPT ![i] = t]
  BY Zenon DEF newThread
<1>4. i \in Id /\ valid_id[i] = 0
  BY <1>2, <1>3 DEF getNewId
<1>5. t \notin Live /\ Live' = Live \cup {t}
  BY DEF Live, newThread, TypeOK
<1>6. thread_cnt' = Cardinality(Live')
  BY <1>1, <1>5, LiveFinite, FS_AddElement DEF IdsConsistent
<1>7. \A u \in Live' : valid_id'[tid'[u]] = 1 /\ thread_pointer'[tid'[u]] = u
  <2> SUFFICES ASSUME NEW u \in Live'
               PROVE  valid_id'[tid'[u]] = 1 /\ thread_pointer'[tid'[u]] = u
    OBVIOUS
  <2>1. CASE u = t
    BY <1>3, <1>4, <2>1 DEF TypeOK
  <2>2. CASE u # t
    <3>1. u \in Live /\ u \in Thread /\ valid_id[tid[u]] = 1 /\ tid[u] \in Id
      BY <1>5, <2>2 DEF Live, IdsConsistent, TypeOK
    <3> QED
      BY <1>3, <1>4, <2>2, <3>1 DEF TypeOK, IdsConsistent
  <2> QED
    BY <2>1, <2>2
<1>8. \A j \in Id : valid_id'[j] = 1 =>
        thread_pointer'[j] \in Live' /\ tid'[thread_pointer'[j]] = j
  <2> SUFFICES ASSUME NEW j \in Id, valid_id'[j] = 1
               PROVE  thread_pointer'[j] \in Live' /\ tid'[thread_pointer'[j]] = j
    OBVIOUS
  <2>1. CASE j = i
    BY <1>3, <1>5, <2>1 DEF TypeOK
  <2>2. CASE j # i
    <3>1. thread_pointer[j] \in Live /\ tid[thread_pointer[j]] = j
      BY <1>3, <1>4, <2>2 DEF TypeOK, IdsConsistent
    <3> QED
      BY <1>3, <1>4, <1>5, <2>2, <3>1 DEF TypeOK
  <2> QED
    BY <2>1, <2>2
<1>9. \A j \in Id : valid_id'[j] = 0 => thread_pointer'[j] = NULL
  BY <1>3, <1>4 DEF TypeOK, IdsConsistent
<1> QED
  BY <1>6, <1>7, <1>8, <1>9 DEF IdsConsistent

\* Thread::Finish gives back exactly the id of the thread that finishes.
LEMMA FinishIds ==
  ASSUME TypeOK, IdsConsistent, Finish
  PROVE  IdsConsistent'
<1>1. currentThread \in Live /\ tid[currentThread] \in Id /\ tid' = tid
  BY DEF Live, Finish, InCode, TypeOK
<1>2. Live' = Live \ {currentThread}
  BY DEF Live, Finish, InCode, TypeOK
<1>3. thread_cnt' = Cardinality(Live')
  BY <1>1, <1>2, LiveFinite, FS_RemoveElement DEF IdsConsistent, Finish, freeId
<1>4. PICK i : i = tid[currentThread]
  OBVIOUS
<1>5. /\ valid_id' = [valid_id EXCEPT ![i] = 0]
      /\ thread_pointer' = [thread_pointer EXCEPT ![i] = NULL]
  BY <1>4 DEF Finish, freeId
<1>6. \A u \in Live' : tid[u] \in Id /\ tid[u] # i
  BY <1>1, <1>2, <1>4 DEF IdsConsistent, TypeOK, Live
<1>7. \A u \in Live' : valid_id'[tid'[u]] = 1 /\ thread_pointer'[tid'[u]] = u
  BY <1>1, <1>2, <1>5, <1>6 DEF IdsConsistent, TypeOK
<1>8. \A j \in Id : valid_id'[j] = 1 =>
        thread_pointer'[j] \in Live' /\ tid'[thread_pointer'[j]] = j
  BY <1>1, <1>2, <1>4, <1>5 DEF IdsConsistent, TypeOK
<1>9. \A j \in Id : valid_id'[j] = 0 => thread_pointer'[j] = NULL
  BY <1>5 DEF IdsConsistent, TypeOK
<1> QED
  BY <1>3, <1>7, <1>8, <1>9 DEF IdsConsistent

\* Every other step keeps the set of live threads: it moves a thread between
\* places where it is live, or deletes one that has finished.
LEMMA NextIds ==
  ASSUME SchedulerInv, IdsConsistent, [Next]_vars, thread_cnt' <= max_thread
  PROVE  IdsConsistent'
<1> USE DEF SchedulerInv
<1>1. ASSUME UNCHANGED idVars,
             \A t \in Thread :
               \/ frame'[t] = frame[t]
               \/ {frame[t], frame'[t]} \cap {"unborn", "Finish", "deleted"} = {}
               \/ frame[t] = "Finish" /\ frame'[t] = "deleted"
      PROVE  IdsConsistent'
  <2>1. Live' = Live
    BY Zenon, <1>1 DEF Live
  <2> QED
    BY Zenon, <1>1, <2>1, IdsKept
<1>2. ASSUME NEW t \in Thread, createThread(t) \/ newThreadUnchecked(t)
      PROVE  IdsConsistent'
  BY <1>2, newThreadIds DEF createThread, newThreadUnchecked
<1>3. CASE Finish
  BY <1>3, FinishIds
<1>4. CASE Run
  <2>1. /\ readyList \in Seq(Thread) /\ readyList # <<>>
        /\ Head(readyList) \in Thread /\ Head(readyList) \in Range(readyList)
    BY <1>4 DEF Run, TypeOK, Range
  <2>2. frame[Head(readyList)] \notin {"unborn", "Finish", "deleted"}
    BY <2>1 DEF SchedulerExact, FramesExact
  <2> QED
    BY <1>1, <1>4, <2>1, <2>2 DEF Run, deleteCarcass, CarcassFinished, TypeOK
<1>5. ASSUME NEW t \in Thread, Fork(t)
      PROVE  IdsConsistent'
  BY <1>1, <1>5 DEF Fork, TypeOK
<1>6. CASE Yield \/ EndTick
  BY <1>1, <1>6 DEF Yield, EndTick, YieldAt, InCode, FramesExact, TypeOK
<1>7. ASSUME NEW w \in Sleeping \cup {NULL},
             LeaveSynch(w) \/ StayInSynch(w) \/ Sleep(w)
      PROVE  IdsConsistent'
  BY <1>1, <1>7 DEF LeaveSynch, StayInSynch, Sleep, Executing, TypeOK
<1>8. CASE \/ Disable \/ Enable \/ UserInstruction \/ TimerInterrupt \/ Idle
           \/ IdleReturn \/ (\E d \in Device : Schedule(d))
           \/ (\E d \in Device, w \in Sleeping \cup {NULL} : DeviceInterrupt(d, w))
           \/ UNCHANGED vars
  BY <1>1, <1>8 DEF Disable, Enable, UserInstruction, TimerInterrupt, Idle,
     IdleReturn, Schedule, DeviceInterrupt, vars, schedVars
<1> QED
  BY <1>2, <1>3, <1>4, <1>5, <1>6, <1>7, <1>8
  DEF Next, ThreadOp, KernelOp, Halted

\* createThread's check of thread_cnt is all the id table needs: it is exact
\* at the start and every step with at most max_thread threads keeps it so.
THEOREM IdsAreExact == Spec => IdsExact
<1>1. Init => IdsConsistent
  <2> SUFFICES ASSUME Init PROVE IdsConsistent
    OBVIOUS
  <2>1. Live = {main}
    BY DEF Live, Init
  <2>2. Cardinality(Live) = 1
    BY <2>1, FS_Singleton
  <2> QED
    BY <2>1, <2>2 DEF Init, IdsConsistent, Id
<1>2. SchedulerInv /\ [Next]_vars =>
        [IdsConsistent /\ thread_cnt' <= max_thread => IdsConsistent']_vars
  BY NextIds
<1> QED
  BY <1>1, <1>2, SchedulerCorrect, PTL DEF Spec, IdsExact
=============================================================================
