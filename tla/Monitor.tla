------------------------------- MODULE Monitor -------------------------------
(***************************************************************************)
(* What threads/synch.h promises: atomic counting semaphores, locks with   *)
(* one holder, and Mesa condition variables that wake their waiters in     *)
(* first-come order.  There is no scheduler and no interrupt level here:   *)
(* threads take turns in any order.  Module Synch implements this one, and *)
(* the modules of the components that use semaphores and locks extend it.  *)
(***************************************************************************)
EXTENDS Integers, Sequences, Functions

CONSTANTS Thread, NULL, Semaphore, Lock, Condition, InitValue, CondLock

ASSUME MonitorAssumption ==
  /\ NULL \notin Thread /\ NULL \notin Lock
  /\ InitValue \in [Semaphore -> Nat]
  /\ CondLock \in [Condition -> Lock]

VARIABLES
  value,     \* of each semaphore
  holder,    \* of each lock, or NULL
  waiting,   \* per condition, the threads in Wait that nobody has signalled
  waking     \* the lock a signalled thread must get back before Wait returns

monitorVars == <<value, holder, waiting, waking>>

MonitorTypeOK ==
  /\ value \in [Semaphore -> Nat]
  /\ holder \in [Lock -> Thread \cup {NULL}]
  /\ waiting \in [Condition -> Seq(Thread)]
  /\ waking \in [Thread -> Lock \cup {NULL}]

MonitorInit ==
  /\ value = InitValue
  /\ holder = [l \in Lock |-> NULL]
  /\ waiting = [c \in Condition |-> <<>>]
  /\ waking = [t \in Thread |-> NULL]

\* Not inside a call of Wait.
Free(t) == waking[t] = NULL /\ \A c \in Condition : t \notin Range(waiting[c])

P(t, s) ==
  /\ Free(t)
  /\ value[s] > 0
  /\ value' = [value EXCEPT ![s] = @ - 1]
  /\ UNCHANGED <<holder, waiting, waking>>

\* Called by a thread or by an interrupt handler.
V(s) ==
  /\ value' = [value EXCEPT ![s] = @ + 1]
  /\ UNCHANGED <<holder, waiting, waking>>

Acquire(t, l) ==
  /\ Free(t)
  /\ holder[l] = NULL
  /\ holder' = [holder EXCEPT ![l] = t]
  /\ UNCHANGED <<value, waiting, waking>>

Release(t, l) ==
  /\ Free(t)
  /\ holder[l] = t
  /\ holder' = [holder EXCEPT ![l] = NULL]
  /\ UNCHANGED <<value, waiting, waking>>

Wait(t, c) ==
  /\ Free(t)
  /\ holder[CondLock[c]] = t
  /\ holder' = [holder EXCEPT ![CondLock[c]] = NULL]
  /\ waiting' = [waiting EXCEPT ![c] = Append(@, t)]
  /\ UNCHANGED <<value, waking>>

\* The signalled thread has the lock again: Wait returns.
WaitReturns(t) ==
  /\ waking[t] # NULL
  /\ holder[waking[t]] = NULL
  /\ holder' = [holder EXCEPT ![waking[t]] = t]
  /\ waking' = [waking EXCEPT ![t] = NULL]
  /\ UNCHANGED <<value, waiting>>

\* With nobody waiting, Signal and Broadcast have no effect and are not kept.
Signal(t, c) ==
  /\ Free(t)
  /\ holder[CondLock[c]] = t
  /\ \/ /\ waiting[c] # <<>>
        /\ waking' = [waking EXCEPT ![Head(waiting[c])] = CondLock[c]]
        /\ waiting' = [waiting EXCEPT ![c] = Tail(@)]
     \/ waiting[c] = <<>> /\ UNCHANGED <<waking, waiting>>
  /\ UNCHANGED <<value, holder>>

Broadcast(t, c) ==
  /\ Free(t)
  /\ holder[CondLock[c]] = t
  /\ waking' = [u \in Thread |-> IF u \in Range(waiting[c]) THEN CondLock[c]
                                 ELSE waking[u]]
  /\ waiting' = [waiting EXCEPT ![c] = <<>>]
  /\ UNCHANGED <<value, holder>>

MonitorNext ==
  \/ \E s \in Semaphore : V(s)
  \/ \E t \in Thread :
       \/ \E s \in Semaphore : P(t, s)
       \/ \E l \in Lock : Acquire(t, l) \/ Release(t, l)
       \/ \E c \in Condition : Wait(t, c) \/ Signal(t, c) \/ Broadcast(t, c)
       \/ WaitReturns(t)

MonitorSpec == MonitorInit /\ [][MonitorNext]_monitorVars
==============================================================================
