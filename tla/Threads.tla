------------------------------ MODULE Threads ------------------------------
(***************************************************************************)
(* Kernel threads, the FIFO scheduler and the interrupt level of Nachos    *)
(* (threads/thread.cc, thread.h, scheduler.cc, system.cc and the parts of  *)
(* machine/interrupt.cc that decide when a thread loses the CPU).          *)
(*                                                                         *)
(* Nachos simulates one CPU.  Control leaves a thread only in Yield, Sleep *)
(* and Finish, and an interrupt is taken only inside OneTick, which runs   *)
(* when interrupts are re-enabled or a user instruction has executed, or   *)
(* inside Idle.  Everything between two such points is one step here.      *)
(*                                                                         *)
(* The callers of Sleep and ReadyToRun (semaphores, conditions, interrupt  *)
(* handlers) are left open: they may wake any sleeping thread.  Module     *)
(* Synch supplies the real ones and is shown to implement this module.     *)
(*                                                                         *)
(* Left out: names, uid, the priority counter (written by Yield, read by   *)
(* no live code), stacks and registers beyond the point where a thread     *)
(* resumes, and the simulated time itself (which interrupts are due at a   *)
(* tick is a free choice here).                                            *)
(***************************************************************************)
EXTENDS Integers, Sequences, FiniteSets, Functions

CONSTANTS
  Thread,       \* the Thread objects that may ever be constructed
  main,         \* the one Initialize constructs
  NULL,
  max_thread,   \* size of the table of thread ids
  Device,       \* devices that can have an interrupt outstanding
  HasTimer,     \* is the time-slice timer running (nachos -rs)?
  Unchecked     \* do clients also call "new Thread" without createThread?

ASSUME ThreadsAssumption ==
  /\ IsFiniteSet(Thread)
  /\ main \in Thread
  /\ NULL \notin Thread
  /\ max_thread \in Nat \ {0}
  /\ HasTimer \in BOOLEAN
  /\ Unchecked \in BOOLEAN

VARIABLES
  currentThread,        \* the thread running now
  readyList,            \* Scheduler::readyList
  status,               \* Thread::status
  threadToBeDestroyed,  \* the thread that just finished
  frame,                \* where a thread is, or where SWITCH will resume it
  saved,                \* oldLevel in the suspended Yield or synch routine
  level,                \* Interrupt::level
  yieldOnReturn,        \* Interrupt::yieldOnReturn
  pending,              \* devices with a scheduled interrupt
  cpu,                  \* which kernel loop the CPU is in
  thread_cnt, valid_id, thread_pointer, tid

schedVars == <<currentThread, readyList, status, threadToBeDestroyed, frame,
               saved, level, yieldOnReturn, pending, cpu>>
idVars    == <<thread_cnt, valid_id, thread_pointer, tid>>
vars      == <<schedVars, idVars>>

Id == 0 .. max_thread - 1

ThreadStatus == {"JUST_CREATED", "RUNNING", "READY", "BLOCKED"}
IntStatus    == {"IntOff", "IntOn"}

(***************************************************************************)
(* unborn      no object yet                                               *)
(* new         constructed, no stack yet                                   *)
(* ThreadRoot  forked: its first SWITCH enters ThreadRoot                  *)
(* code        executing its own procedure                                 *)
(* synch       executing inside a synchronization routine that runs with   *)
(*             interrupts off                                              *)
(* Yield       suspended in the Scheduler::Run called by Yield             *)
(* Sleep       suspended in the Scheduler::Run called by Sleep             *)
(* Finish      has called Finish; never resumes                            *)
(* deleted     its destructor has run                                      *)
(***************************************************************************)
Frame == {"unborn", "new", "ThreadRoot", "code", "synch", "Yield", "Sleep",
          "Finish", "deleted"}

(***************************************************************************)
(* code        a thread runs                                               *)
(* tick        OneTick is delivering the interrupts that are due           *)
(* switch      the current thread gave up the CPU, FindNextToRun is next   *)
(* CheckIfDue  Idle was called and no handler has run yet                  *)
(* idle        Idle has run at least one handler                           *)
(* halt        Halt was called                                             *)
(***************************************************************************)
Cpu == {"code", "tick", "switch", "CheckIfDue", "idle", "halt"}

TypeOK ==
  /\ currentThread \in Thread
  /\ readyList \in Seq(Thread)
  /\ status \in [Thread -> ThreadStatus]
  /\ threadToBeDestroyed \in Thread \cup {NULL}
  /\ frame \in [Thread -> Frame]
  /\ saved \in [Thread -> IntStatus]
  /\ level \in IntStatus
  /\ yieldOnReturn \in BOOLEAN
  /\ pending \subseteq Device
  /\ cpu \in Cpu
  /\ thread_cnt \in Int
  /\ valid_id \in [Id -> {0, 1}]
  /\ thread_pointer \in [Id -> Thread \cup {NULL}]
  /\ tid \in [Thread -> Id]

(***************************************************************************)
(* Initialize: the main thread is constructed (it gets id 0), made RUNNING *)
(* and interrupts are enabled, which calls OneTick.                        *)
(***************************************************************************)
Init ==
  /\ currentThread = main
  /\ readyList = <<>>
  /\ status = [t \in Thread |-> IF t = main THEN "RUNNING" ELSE "JUST_CREATED"]
  /\ threadToBeDestroyed = NULL
  /\ frame = [t \in Thread |-> IF t = main THEN "code" ELSE "unborn"]
  /\ saved = [t \in Thread |-> "IntOn"]
  /\ level = "IntOff"
  /\ yieldOnReturn = FALSE
  /\ pending = {}
  /\ cpu = "tick"
  /\ thread_cnt = 1
  /\ valid_id = [i \in Id |-> IF i = 0 THEN 1 ELSE 0]
  /\ thread_pointer = [i \in Id |-> IF i = 0 THEN main ELSE NULL]
  /\ tid = [t \in Thread |-> 0]
-----------------------------------------------------------------------------
(* The interrupt level and the ready list.                                 *)

InCode == cpu = "code" /\ frame[currentThread] = "code"

\* SetLevel at the end of a routine that runs with interrupts off: turning
\* them back on calls OneTick.
SetLevel(old) ==
  /\ level' = "IntOff"
  /\ cpu' = IF old = "IntOn" THEN "tick" ELSE "code"

\* Mutants: the status is not set; the thread goes to the front.
ReadyToRun_NoStatus(t, st) ==
  /\ status' = st
  /\ readyList' = Append(readyList, t)

ReadyToRun_Prepend(t, st) ==
  /\ status' = [st EXCEPT ![t] = "READY"]
  /\ readyList' = <<t>> \o readyList

ReadyToRun(t, st) ==
  /\ status' = [st EXCEPT ![t] = "READY"]
  /\ readyList' = Append(readyList, t)

\* The status fields once Sleep has set the sleeper's.
blocked == [status EXCEPT ![currentThread] = "BLOCKED"]

\* A routine that may have found a thread to wake (w) or none (NULL).
WakeUp(w, st) ==
  \/ w = NULL /\ status' = st /\ readyList' = readyList
  \/ w # NULL /\ ReadyToRun(w, st)

Sleeping == {t \in Thread : frame[t] = "Sleep" /\ status[t] = "BLOCKED"}
-----------------------------------------------------------------------------
(* Construction, Fork and Finish.                                          *)

\* getNewId returns the first free id.  With every id taken it runs off its
\* end: the id is whatever the return register holds.
getNewId ==
  LET free == {i \in Id : valid_id[i] = 0}
  IN  IF free = {} THEN Id ELSE {i \in free : \A j \in free : i <= j}

newThread(t) ==
  /\ InCode
  /\ frame[t] = "unborn"
  /\ \E i \in getNewId :
       /\ tid' = [tid EXCEPT ![t] = i]
       /\ valid_id' = [valid_id EXCEPT ![i] = 1]
       /\ thread_pointer' = [thread_pointer EXCEPT ![i] = t]
  /\ thread_cnt' = thread_cnt + 1
  /\ frame' = [frame EXCEPT ![t] = "new"]
  /\ UNCHANGED <<currentThread, readyList, status, threadToBeDestroyed, saved,
                 level, yieldOnReturn, pending, cpu>>

createThread(t) == thread_cnt < max_thread /\ newThread(t)

newThreadUnchecked(t) == Unchecked /\ newThread(t)

Fork(t) ==
  /\ InCode
  /\ frame[t] = "new"
  /\ frame' = [frame EXCEPT ![t] = "ThreadRoot"]
  /\ ReadyToRun(t, status)
  /\ SetLevel(level)
  /\ UNCHANGED <<currentThread, threadToBeDestroyed, saved, yieldOnReturn,
                 pending, idVars>>

\* Mutants: the count, or the pointer, of the finished thread is kept.
freeId_KeepsCount(i) ==
  /\ valid_id' = [valid_id EXCEPT ![i] = 0]
  /\ thread_pointer' = [thread_pointer EXCEPT ![i] = NULL]
  /\ UNCHANGED thread_cnt

freeId_KeepsPointer(i) ==
  /\ thread_cnt' = thread_cnt - 1
  /\ valid_id' = [valid_id EXCEPT ![i] = 0]
  /\ UNCHANGED thread_pointer

freeId(i) ==
  /\ thread_cnt' = thread_cnt - 1
  /\ valid_id' = [valid_id EXCEPT ![i] = 0]
  /\ thread_pointer' = [thread_pointer EXCEPT ![i] = NULL]

Finish ==
  /\ InCode
  /\ freeId(tid[currentThread])
  /\ threadToBeDestroyed' = currentThread
  /\ frame' = [frame EXCEPT ![currentThread] = "Finish"]
  /\ status' = blocked
  /\ level' = "IntOff"
  /\ cpu' = "switch"
  /\ UNCHANGED <<currentThread, readyList, saved, yieldOnReturn, pending, tid>>
-----------------------------------------------------------------------------
(* Giving up the CPU.                                                      *)

\* The thread goes on the ready list before FindNextToRun looks at it, so
\* the list is never empty and the thread may be its own successor.
YieldAt(old) ==
  /\ ReadyToRun(currentThread, status)
  /\ frame' = [frame EXCEPT ![currentThread] = "Yield"]
  /\ saved' = [saved EXCEPT ![currentThread] = old]
  /\ level' = "IntOff"
  /\ cpu' = "switch"
  /\ UNCHANGED <<currentThread, threadToBeDestroyed, pending, idVars>>

Yield == InCode /\ YieldAt(level) /\ UNCHANGED yieldOnReturn

\* The end of Scheduler::Run.
deleteCarcass(fr) ==
  /\ frame' = [fr EXCEPT ![threadToBeDestroyed] = "deleted"]
  /\ threadToBeDestroyed' = NULL

\* Scheduler::Run, to the point where the next thread leaves the kernel
\* routine it was suspended in.  Only a thread that returns from SWITCH into
\* Run deletes the carcass; ThreadRoot just enables interrupts.
Run ==
  LET next   == Head(readyList)
      fresh  == frame[next] = "ThreadRoot"
      slept  == frame[next] = "Sleep"
      frame1 == [frame EXCEPT ![next] = IF slept THEN "synch" ELSE "code"]
  IN
  /\ cpu = "switch"
  /\ readyList # <<>>
  /\ readyList' = Tail(readyList)
  /\ currentThread' = next
  /\ status' = [status EXCEPT ![next] = "RUNNING"]
  /\ \/ /\ fresh \/ threadToBeDestroyed = NULL
        /\ frame' = frame1
        /\ UNCHANGED threadToBeDestroyed
     \/ ~fresh /\ threadToBeDestroyed # NULL /\ deleteCarcass(frame1)
  /\ \/ fresh  /\ SetLevel("IntOn") /\ UNCHANGED saved
     \/ slept  /\ level' = "IntOff" /\ cpu' = "code" /\ UNCHANGED saved
     \/ ~fresh /\ ~slept /\ SetLevel(saved[next])
               /\ saved' = [saved EXCEPT ![next] = "IntOn"]
  /\ UNCHANGED <<yieldOnReturn, pending, idVars>>
-----------------------------------------------------------------------------
(* The synchronization routines, as far as the scheduler sees them: they   *)
(* turn interrupts off, may put one sleeping thread on the ready list, and *)
(* then return, go on, or put the current thread to sleep.                 *)

Executing == cpu = "code" /\ frame[currentThread] \in {"code", "synch"}

\* oldLevel of the routine the current thread is in, or is entering.
oldLevel == IF frame[currentThread] = "code" THEN level
            ELSE saved[currentThread]

LeaveSynch(w) ==
  /\ Executing
  /\ WakeUp(w, status)
  /\ frame' = [frame EXCEPT ![currentThread] = "code"]
  /\ saved' = [saved EXCEPT ![currentThread] = "IntOn"]
  /\ SetLevel(oldLevel)
  /\ UNCHANGED <<currentThread, threadToBeDestroyed, yieldOnReturn, pending,
                 idVars>>

StayInSynch(w) ==
  /\ Executing
  /\ WakeUp(w, status)
  /\ frame' = [frame EXCEPT ![currentThread] = "synch"]
  /\ saved' = [saved EXCEPT ![currentThread] = oldLevel]
  /\ level' = "IntOff"
  /\ UNCHANGED <<currentThread, threadToBeDestroyed, yieldOnReturn, pending,
                 cpu, idVars>>

Sleep(w) ==
  /\ Executing
  /\ WakeUp(w, blocked)
  /\ frame' = [frame EXCEPT ![currentThread] = "Sleep"]
  /\ saved' = [saved EXCEPT ![currentThread] = oldLevel]
  /\ level' = "IntOff"
  /\ cpu' = "switch"
  /\ UNCHANGED <<currentThread, threadToBeDestroyed, yieldOnReturn, pending,
                 idVars>>
-----------------------------------------------------------------------------
(* Interrupts.                                                             *)

\* A thread's own SetLevel(IntOff) and SetLevel(IntOn).
Disable ==
  /\ InCode /\ level = "IntOn"
  /\ level' = "IntOff"
  /\ UNCHANGED <<currentThread, readyList, status, threadToBeDestroyed, frame,
                 saved, yieldOnReturn, pending, cpu, idVars>>

Enable ==
  /\ InCode /\ level = "IntOff"
  /\ SetLevel("IntOn")
  /\ UNCHANGED <<currentThread, readyList, status, threadToBeDestroyed, frame,
                 saved, yieldOnReturn, pending, idVars>>

\* Machine::Run calls OneTick after every user instruction.
UserInstruction ==
  /\ InCode /\ level = "IntOn"
  /\ SetLevel("IntOn")
  /\ UNCHANGED <<currentThread, readyList, status, threadToBeDestroyed, frame,
                 saved, yieldOnReturn, pending, idVars>>

\* A device simulator schedules its completion interrupt.
Schedule(d) ==
  /\ Executing
  /\ pending' = pending \cup {d}
  /\ UNCHANGED <<currentThread, readyList, status, threadToBeDestroyed, frame,
                 saved, level, yieldOnReturn, cpu, idVars>>

InHandler == cpu \in {"tick", "CheckIfDue", "idle"}

HandlerDone == cpu' = IF cpu = "tick" THEN "tick" ELSE "idle"

\* Idle gives up, without running the handler, when only the timer is left.
TimerInterrupt ==
  /\ HasTimer
  /\ InHandler
  /\ cpu = "tick" \/ pending # {}
  /\ yieldOnReturn' = TRUE
  /\ HandlerDone
  /\ UNCHANGED <<currentThread, readyList, status, threadToBeDestroyed, frame,
                 saved, level, pending, idVars>>

\* The handler of a device that is polled (console, network) schedules the
\* next poll before it does anything else.
DeviceInterrupt(d, w) ==
  /\ InHandler
  /\ d \in pending
  /\ pending' \in {pending, pending \ {d}}
  /\ WakeUp(w, status)
  /\ HandlerDone
  /\ UNCHANGED <<currentThread, threadToBeDestroyed, frame, saved, level,
                 yieldOnReturn, idVars>>

\* Mutant: OneTick forgets the yield its handler asked for.
EndTick_NoYield ==
  /\ cpu = "tick"
  /\ level' = "IntOn"
  /\ cpu' = "code"
  /\ yieldOnReturn' = FALSE
  /\ UNCHANGED <<currentThread, readyList, status, threadToBeDestroyed, frame,
                 saved, pending, idVars>>

\* The end of OneTick.
EndTick ==
  /\ cpu = "tick"
  /\ \/ /\ yieldOnReturn
        /\ yieldOnReturn' = FALSE
        /\ YieldAt("IntOn")
     \/ /\ ~yieldOnReturn
        /\ level' = "IntOn"
        /\ cpu' = "code"
        /\ UNCHANGED <<currentThread, readyList, status, threadToBeDestroyed,
                       frame, saved, yieldOnReturn, pending, idVars>>

Idle ==
  /\ cpu = "switch"
  /\ readyList = <<>>
  /\ cpu' = IF pending = {} THEN "halt" ELSE "CheckIfDue"
  /\ UNCHANGED <<currentThread, readyList, status, threadToBeDestroyed, frame,
                 saved, level, yieldOnReturn, pending, idVars>>

IdleReturn ==
  /\ cpu = "idle"
  /\ yieldOnReturn' = FALSE
  /\ cpu' = "switch"
  /\ UNCHANGED <<currentThread, readyList, status, threadToBeDestroyed, frame,
                 saved, level, pending, idVars>>

\* The simulator process has exited.
Halted == cpu = "halt" /\ UNCHANGED vars
-----------------------------------------------------------------------------

ThreadOp ==
  \/ \E t \in Thread : createThread(t) \/ newThreadUnchecked(t) \/ Fork(t)
  \/ Finish \/ Yield \/ Disable \/ Enable \/ UserInstruction
  \/ \E d \in Device : Schedule(d)
  \/ \E w \in Sleeping \cup {NULL} :
       LeaveSynch(w) \/ StayInSynch(w) \/ Sleep(w)

KernelOp ==
  \/ Run \/ TimerInterrupt \/ EndTick \/ Idle \/ IdleReturn
  \/ \E d \in Device, w \in Sleeping \cup {NULL} : DeviceInterrupt(d, w)

Next == ThreadOp \/ KernelOp \/ Halted

Spec == Init /\ [][Next]_vars

(***************************************************************************)
(* Fairness, for a system with the timer on.  The CPU keeps executing, and *)
(* a thread that runs eventually reaches the end of its kernel routine or  *)
(* of its next instruction.  A thread that turns interrupts off does not   *)
(* keep them off for ever: every SetLevel(IntOff) in the code is paired    *)
(* with a SetLevel(oldLevel) on the same path.  TimerExpired reschedules   *)
(* itself TimerTicks = 100 ticks ahead and every OneTick in the kernel     *)
(* advances the clock by SystemTick = 10, so while OneTicks keep happening *)
(* the timer keeps firing inside one of them: strong fairness.             *)
(***************************************************************************)
Progress ==
  \/ Run \/ EndTick \/ Idle \/ IdleReturn
  \/ Enable \/ UserInstruction
  \/ \E w \in Sleeping \cup {NULL} : LeaveSynch(w) \/ Sleep(w)

FairSpec ==
  /\ Spec
  /\ WF_vars(Progress)
  /\ SF_vars(Enable)
  /\ SF_vars(TimerInterrupt /\ cpu = "tick")
-----------------------------------------------------------------------------
(* Properties.                                                             *)

\* Constructed, and Finish not yet called.
Live == {t \in Thread : frame[t] \notin {"unborn", "Finish", "deleted"}}

\* The scheduler's three views of a thread agree: the ready list has no
\* thread twice, holds exactly the threads whose status is READY, and the
\* one RUNNING thread is currentThread, unless it has just given up the CPU.
\* (ReadyToRun, FindNextToRun, Run, Yield and Sleep each update one part.)
SchedulerExact ==
  /\ IsInjective(readyList)
  /\ \A t \in Thread : status[t] = "READY" <=> t \in Range(readyList)
  /\ \A t \in Thread :
       status[t] = "RUNNING" <=> t = currentThread /\ cpu \in {"code", "tick"}

\* What status and cpu say about where each thread is suspended.
FramesExact ==
  /\ \A t \in Thread :
       /\ status[t] = "RUNNING" <=> frame[t] \in {"code", "synch"}
       /\ status[t] = "JUST_CREATED" <=> frame[t] \in {"unborn", "new"}
       /\ frame[t] \in {"ThreadRoot", "Yield"} => status[t] = "READY"
       /\ frame[t] \in {"Finish", "deleted"} => status[t] = "BLOCKED"
  /\ cpu = "tick" => frame[currentThread] = "code"
  /\ cpu = "switch" => frame[currentThread] \in {"Yield", "Sleep", "Finish"}
  /\ cpu \in {"CheckIfDue", "idle", "halt"} =>
       frame[currentThread] \in {"Sleep", "Finish"}

\* The thread waiting for its destructor has finished, so it is never the
\* current thread of a Scheduler::Run that deletes it: the assertion
\* this != currentThread of ~Thread holds.
CarcassFinished ==
  threadToBeDestroyed # NULL => frame[threadToBeDestroyed] = "Finish"

\* No kernel pointer leads to a deleted thread: not currentThread, not the
\* ready list, not threadToBeDestroyed (no second delete), and not the table
\* thread_pointer that ts() dereferences for every valid id.
NoDanglingThread ==
  \A t \in Thread : frame[t] = "deleted" =>
    /\ t # currentThread
    /\ t # threadToBeDestroyed
    /\ t \notin Range(readyList)
    /\ t \notin Range(thread_pointer)

\* Interrupts are on only while a thread executes its own code, so a time
\* slice can never fall between choosing the next thread and switching to it;
\* and a slice that ended while the CPU was idle is forgotten (Idle clears
\* yieldOnReturn) instead of being charged to the thread that runs next.
InterruptDiscipline ==
  /\ level = "IntOn" => InCode
  /\ yieldOnReturn => cpu \in {"tick", "idle"}

\* Every view the kernel has of a thread agrees with the others.  This is the
\* inductive invariant of the scheduler, and none of its parts is inductive
\* alone: that ReadyToRun never puts a thread on the list twice needs to know
\* which threads are suspended where (FramesExact), and that the thread Run
\* deletes is not the one it switches to needs CarcassFinished and both of
\* the others.
SchedulerInv ==
  /\ TypeOK
  /\ SchedulerExact
  /\ FramesExact
  /\ CarcassFinished
  /\ InterruptDiscipline

IdsConsistent ==
  /\ \A t \in Live : valid_id[tid[t]] = 1 /\ thread_pointer[tid[t]] = t
  /\ \A i \in Id : valid_id[i] = 1 =>
       thread_pointer[i] \in Live /\ tid[thread_pointer[i]] = i
  /\ \A i \in Id : valid_id[i] = 0 => thread_pointer[i] = NULL
  /\ thread_cnt = Cardinality(Live)

\* The id table is exact: ids of live threads are distinct, each live thread
\* is found in thread_pointer under its id, every other entry is free, and
\* thread_cnt counts the live threads (createThread, Finish).  Only a "new
\* Thread" beyond max_thread, which createThread refuses, ends that.
IdsExact ==
  /\ IdsConsistent
  /\ [][IdsConsistent /\ thread_cnt' <= max_thread => IdsConsistent']_vars

\* Finish's comment: Scheduler::Run() will call the destructor.  Every thread
\* that has finished is the one whose destructor Run will call next.
CarcassWillBeDeleted ==
  \A t \in Thread : frame[t] = "Finish" => t = threadToBeDestroyed

\* First come, first served: in one step a ready thread keeps its place, or
\* moves up by one, or was first and is now running.  Nobody overtakes it.
NoOvertaking ==
  [][\A i \in DOMAIN readyList :
       \/ i \in DOMAIN readyList' /\ readyList'[i] = readyList[i]
       \/ i - 1 \in DOMAIN readyList' /\ readyList'[i - 1] = readyList[i]
       \/ i = 1 /\ currentThread' = readyList[1]]_vars

\* With time slicing every ready thread gets the CPU.
ReadyRuns ==
  \A t \in Thread : status[t] = "READY" ~> status[t] = "RUNNING"
=============================================================================
