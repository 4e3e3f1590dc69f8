-------------------------------- MODULE Synch --------------------------------
(***************************************************************************)
(* Semaphores, locks and condition variables (threads/synch.cc) on top of  *)
(* the thread scheduler.  Every routine runs with interrupts off, so it is *)
(* one step, except that a thread can lose the CPU inside Sleep: it then   *)
(* resumes, interrupts still off, where doing[t] says.                     *)
(*                                                                         *)
(* The clients are open: a thread may call any routine at any time, within *)
(* the conventions stated in synch.h (only the holder of a lock releases   *)
(* it, condition operations are called with the lock held, one lock per    *)
(* condition) and finishes holding no lock.  A lock is its semaphore; the  *)
(* handler of a device does V on one semaphore, like SynchDisk, Console    *)
(* and PostOffice.                                                         *)
(***************************************************************************)
EXTENDS Threads

CONSTANTS
  Semaphore, Lock, Condition,
  InitValue,      \* initial value of each semaphore
  CondLock,       \* the lock each condition is used with
  DevSem,         \* the semaphore each device's handler signals
  MaxValue        \* bound: how far clients raise a semaphore nobody waits for

Sem == Semaphore \cup Lock

ASSUME SynchAssumption ==
  /\ Semaphore \cap Lock = {} /\ Sem \cap Condition = {}
  /\ NULL \notin Sem \cup Condition
  /\ InitValue \in [Semaphore -> Nat]
  /\ CondLock \in [Condition -> Lock]
  /\ DevSem \in [Device -> Semaphore]
  /\ MaxValue \in Nat

VARIABLES
  value,     \* Semaphore::value
  queue,     \* Semaphore::queue, Condition::queue
  owner,     \* Lock::owner
  held,      \* the locks each thread has acquired and not yet released
  doing      \* the routine a thread is in, when it is not in its own code

synchVars == <<value, queue, owner, held, doing>>

Routine == {"none", "P", "Wait", "Reacquire", "Broadcast"}

None == [op |-> "none", obj |-> NULL]

SynchTypeOK ==
  /\ value \in [Sem -> Nat]
  /\ queue \in [Sem \cup Condition -> Seq(Thread)]
  /\ owner \in [Lock -> Thread \cup {NULL}]
  /\ held \in [Thread -> SUBSET Lock]
  /\ doing \in [Thread -> [op : Routine, obj : Sem \cup Condition \cup {NULL}]]

SynchInit ==
  /\ Init
  /\ value = [s \in Sem |-> IF s \in Lock THEN 1 ELSE InitValue[s]]
  /\ queue = [o \in Sem \cup Condition |-> <<>>]
  /\ owner = [l \in Lock |-> NULL]
  /\ held = [t \in Thread |-> {}]
  /\ doing = [t \in Thread |-> None]

Resumed == cpu = "code" /\ frame[currentThread] = "synch"

Become(r) == doing' = [doing EXCEPT ![currentThread] = r]
-----------------------------------------------------------------------------
(* Semaphores and locks.                                                   *)

\* List::Remove on a waiting queue: the thread it returns, or NULL.
First(q) == IF q = <<>> THEN NULL ELSE Head(q)
Rest(q)  == IF q = <<>> THEN <<>> ELSE Tail(q)

\* The loop of P, from the test of value on.  Acquire records the owner.  The
\* caller r is P itself or the Acquire at the end of Wait.
TryP(s, r) ==
  \/ /\ value[s] > 0
     /\ value' = [value EXCEPT ![s] = @ - 1]
     /\ IF s \in Lock
        THEN /\ owner' = [owner EXCEPT ![s] = currentThread]
             /\ held' = [held EXCEPT ![currentThread] = @ \cup {s}]
        ELSE UNCHANGED <<owner, held>>
     /\ Become(None)
     /\ LeaveSynch(NULL)
     /\ UNCHANGED queue
  \/ /\ value[s] = 0
     /\ queue' = [queue EXCEPT ![s] = Append(@, currentThread)]
     /\ Become([op |-> r, obj |-> s])
     /\ Sleep(NULL)
     /\ UNCHANGED <<value, owner, held>>

P(s) == InCode /\ TryP(s, "P")

\* Mutant: "if" instead of "while" in P.
ResumeP_NoRetest ==
  /\ Resumed
  /\ doing[currentThread].op \in {"P", "Reacquire"}
  /\ value' = [value EXCEPT ![doing[currentThread].obj] = @ - 1]
  /\ Become(None)
  /\ LeaveSynch(NULL)
  /\ UNCHANGED <<queue, owner, held>>

\* A thread that slept in P, or in Wait, runs again.
ResumeP ==
  /\ Resumed
  /\ doing[currentThread].op \in {"P", "Reacquire"}
  /\ TryP(doing[currentThread].obj, doing[currentThread].op)

\* Mutant: Wait returns without getting the lock back.
ResumeWait_NoAcquire ==
  /\ Resumed
  /\ doing[currentThread].op = "Wait"
  /\ held' = [held EXCEPT ![currentThread] =
                            @ \cup {CondLock[doing[currentThread].obj]}]
  /\ Become(None)
  /\ LeaveSynch(NULL)
  /\ UNCHANGED <<value, queue, owner>>

ResumeWait ==
  /\ Resumed
  /\ doing[currentThread].op = "Wait"
  /\ TryP(CondLock[doing[currentThread].obj], "Reacquire")

\* Mutants: V wakes a waiter only when the value was 0, or never.
Wakes_AtZero(s) == IF value[s] = 0 THEN First(queue[s]) ELSE NULL
Wakes_Never(s)  == NULL

\* The thread V makes ready.
Wakes(s) == First(queue[s])

\* Mutant: the thread is looked at, not removed.
DoV_KeepsHead(s) ==
  /\ value' = [value EXCEPT ![s] = @ + 1]
  /\ UNCHANGED queue

\* What V does to the semaphore.
DoV(s) ==
  /\ value' = [value EXCEPT ![s] = @ + 1]
  /\ queue' = [queue EXCEPT ![s] = IF Wakes(s) = NULL THEN @ ELSE Tail(@)]

\* The bound on what clients and devices may add to a semaphore, beyond what
\* the threads that queue for it will take.
Room(s) ==
  value[s] + Cardinality({d \in pending : DevSem[d] = s}) < MaxValue + Len(queue[s])

V(s) ==
  /\ InCode
  /\ Room(s)
  /\ DoV(s)
  /\ LeaveSynch(Wakes(s))
  /\ UNCHANGED <<owner, held, doing>>

Release(l) ==
  /\ InCode
  /\ l \in held[currentThread]
  /\ DoV(l)
  /\ owner' = [owner EXCEPT ![l] = NULL]
  /\ held' = [held EXCEPT ![currentThread] = @ \ {l}]
  /\ LeaveSynch(Wakes(l))
  /\ UNCHANGED doing

\* An interrupt handler that signals its semaphore.
DeviceV(d) ==
  /\ DeviceInterrupt(d, Wakes(DevSem[d]))
  /\ pending' = pending \ {d}
  /\ DoV(DevSem[d])
  /\ UNCHANGED <<owner, held, doing>>

ScheduleV(d) == Room(DevSem[d]) /\ InCode /\ d \notin pending /\ Schedule(d)
-----------------------------------------------------------------------------
(* Condition variables.                                                    *)

\* Release the lock, join the queue and sleep, in one step.
Wait(c) ==
  LET l == CondLock[c] IN
  /\ InCode
  /\ l \in held[currentThread]
  /\ value' = [value EXCEPT ![l] = @ + 1]
  /\ queue' = [queue EXCEPT ![l] = IF Wakes(l) = NULL THEN @ ELSE Tail(@),
                            ![c] = Append(@, currentThread)]
  /\ owner' = [owner EXCEPT ![l] = NULL]
  /\ held' = [held EXCEPT ![currentThread] = @ \ {l}]
  /\ Become([op |-> "Wait", obj |-> c])
  /\ Sleep(Wakes(l))

Signal(c) ==
  /\ InCode
  /\ CondLock[c] \in held[currentThread]
  /\ queue' = [queue EXCEPT ![c] = Rest(@)]
  /\ LeaveSynch(First(queue[c]))
  /\ UNCHANGED <<value, owner, held, doing>>

\* Broadcast signals until the queue is empty, interrupts off throughout.
BroadcastLoop(c) ==
  \/ /\ queue[c] # <<>>
     /\ queue' = [queue EXCEPT ![c] = Rest(@)]
     /\ Become([op |-> "Broadcast", obj |-> c])
     /\ StayInSynch(First(queue[c]))
     /\ UNCHANGED <<value, owner, held>>
  \/ /\ queue[c] = <<>>
     /\ Become(None)
     /\ LeaveSynch(NULL)
     /\ UNCHANGED <<value, queue, owner, held>>

Broadcast(c) ==
  /\ InCode
  /\ CondLock[c] \in held[currentThread]
  /\ BroadcastLoop(c)

ResumeBroadcast ==
  /\ Resumed
  /\ doing[currentThread].op = "Broadcast"
  /\ BroadcastLoop(doing[currentThread].obj)
-----------------------------------------------------------------------------

ThreadStep ==
  \/ \E t \in Thread : createThread(t) \/ Fork(t)
  \/ Finish /\ held[currentThread] = {}
  \/ Yield \/ Disable \/ Enable \/ UserInstruction
  \/ Run \/ TimerInterrupt \/ EndTick \/ Idle \/ IdleReturn
  \/ \E d \in Device : ScheduleV(d)

SynchOp ==
  \/ \E s \in Sem : P(s)
  \/ \E s \in Semaphore : V(s)
  \/ \E l \in Lock : Release(l)
  \/ \E c \in Condition : Wait(c) \/ Signal(c) \/ Broadcast(c)
  \/ ResumeP \/ ResumeWait \/ ResumeBroadcast
  \/ \E d \in Device : DeviceV(d)

SynchNext ==
  \/ ThreadStep /\ UNCHANGED synchVars
  \/ SynchOp
  \/ Halted /\ UNCHANGED synchVars

SynchSpec == SynchInit /\ [][SynchNext]_<<vars, synchVars>>

(***************************************************************************)
(* Fairness: that of Threads, where the steps that end a kernel routine    *)
(* are now the real ones.                                                  *)
(***************************************************************************)
SynchProgress ==
  \/ /\ Run \/ EndTick \/ Idle \/ IdleReturn \/ Enable \/ UserInstruction
     /\ UNCHANGED synchVars
  \/ ResumeP \/ ResumeWait \/ ResumeBroadcast

FairSynchSpec ==
  /\ SynchSpec
  /\ WF_<<vars, synchVars>>(SynchProgress)
  /\ SF_<<vars, synchVars>>(Enable /\ UNCHANGED synchVars)
  /\ SF_<<vars, synchVars>>(TimerInterrupt /\ cpu = "tick" /\ UNCHANGED synchVars)
-----------------------------------------------------------------------------
(* Properties.                                                             *)

\* The threads V has taken off the queue of s that have not yet tested its
\* value again.
Woken(s) == {t \in Thread : doing[t].obj = s /\ t \notin Range(queue[s])}

\* Every queue holds sleeping threads only, each once and on the object whose
\* routine it is in; and no thread sleeps without being on a queue, where a V,
\* Signal or handler will find it.  (P, V, Wait and Signal each change a
\* queue and a status; a thread on no queue would sleep for ever, one left on
\* a queue would be made ready twice.)
QueuesExact ==
  /\ \A o \in Sem \cup Condition : IsInjective(queue[o])
  /\ \A t \in Thread : t \in Sleeping <=>
       \E o \in Sem \cup Condition : t \in Range(queue[o])
  /\ \A t \in Thread, o \in Sem \cup Condition : t \in Range(queue[o]) =>
       /\ doing[t].obj = o
       /\ doing[t].op = "Wait" <=> o \in Condition
  /\ \A t \in Thread : doing[t].op # "none" <=> frame[t] \in {"Sleep", "synch"}

\* A lock has at most one holder, owner names it, and the semaphore inside
\* the lock is 1 exactly when there is none.
MutualExclusion ==
  \A l \in Lock, t \in Thread :
    /\ l \in held[t] <=> owner[l] = t
    /\ value[l] = IF owner[l] = NULL THEN 1 ELSE 0

\* The fields of every semaphore, lock and condition agree with each other and
\* with what the scheduler holds of their threads.
ObjectsExact == SynchTypeOK /\ QueuesExact /\ MutualExclusion

\* Nobody is left waiting for a semaphore that is available: while threads
\* queue for it, every unit of its value has a woken thread on its way to
\* take it.  (V increments and wakes one; P's loop tests again.)
NoLostWakeup ==
  \A s \in Sem : queue[s] # <<>> => value[s] <= Cardinality(Woken(s))

\* The scheduler's specification holds of the system with its real callers.
ImplementsThreads == Spec

\* synch.h's promise.  A lock's semaphore disappears into its holder; a thread
\* that Broadcast has yet to reach counts as already signalled.
Broadcasting(c) == \E t \in Thread : doing[t] = [op |-> "Broadcast", obj |-> c]

Abstract == INSTANCE Monitor WITH
  value   <- [s \in Semaphore |-> value[s]],
  holder  <- owner,
  waiting <- [c \in Condition |-> IF Broadcasting(c) THEN <<>> ELSE queue[c]],
  waking  <- [t \in Thread |->
                CASE doing[t].op = "Reacquire" -> doing[t].obj
                  [] /\ doing[t].op = "Wait"
                     /\ \/ t \notin Range(queue[doing[t].obj])
                        \/ Broadcasting(doing[t].obj) -> CondLock[doing[t].obj]
                  [] OTHER -> NULL]

ImplementsMonitor == Abstract!MonitorSpec

\* An available semaphore with threads waiting in P is taken: either its value
\* drops to 0 or all of them get through.
AvailableIsTaken ==
  \A s \in Sem :
    (value[s] > 0 /\ \E t \in Thread : doing[t].obj = s)
      ~> (value[s] = 0 \/ \A t \in Thread : doing[t].obj # s)
==============================================================================
