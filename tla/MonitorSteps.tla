---------------------------- MODULE MonitorSteps ----------------------------
(***************************************************************************)
(* Each routine of module Synch, seen through the refinement mapping       *)
(* Abstract, is one step of module Monitor or none.  Module SynchProofs    *)
(* concludes that Synch implements Monitor.                                *)
(***************************************************************************)
EXTENDS SynchSteps

USE SynchAssumption

\* A thread that calls a routine is in none and on no queue.
LEMMA CallerFacts ==
  ASSUME SynchInv, InCode
  PROVE  /\ currentThread \in Thread
         /\ doing[currentThread].op = "none" /\ doing[currentThread].obj = NULL
         /\ \A o \in Object : currentThread \notin Range(queue[o])
<1>1. currentThread \in Thread /\ frame[currentThread] = "code"
  BY DEF SynchInv, SchedulerInv, TypeOK, InCode
<1>2. doing[currentThread].op = "none"
  BY <1>1 DEF SynchInv, QueuesExact
<1>3. doing[currentThread].obj = NULL
  BY <1>1, <1>2 DEF SynchInv, DoingInv
<1>4. currentThread \notin Sleeping
  BY <1>1 DEF Sleeping
<1> QED
  BY <1>1, <1>2, <1>3, <1>4 DEF SynchInv, QueuesExact, Object

\* A thread that resumes a routine is on no queue any more.
LEMMA ResumedFacts ==
  ASSUME SynchInv, Resumed
  PROVE  /\ currentThread \in Thread
         /\ \A o \in Object : currentThread \notin Range(queue[o])
<1>1. currentThread \in Thread /\ frame[currentThread] = "synch"
  BY DEF SynchInv, SchedulerInv, TypeOK, Resumed
<1>2. currentThread \notin Sleeping
  BY <1>1 DEF Sleeping
<1> QED
  BY <1>1, <1>2 DEF SynchInv, QueuesExact, Object

\* What V does to its semaphore.
LEMMA UnitOfV ==
  ASSUME SynchInv, NEW s \in Sem, DoV(s)
  PROVE  /\ value'[s] = value[s] + 1 /\ queue'[s] = Rest(queue[s])
         /\ \A y \in Object : y # s => queue'[y] = queue[y]
         /\ \A y \in Sem : y # s => value'[y] = value[y]
<1>1. value \in [Sem -> Nat] /\ queue \in [Object -> Seq(Thread)] /\ s \in Object
  BY DEF SynchInv, SynchTypeOK, Object
<1>2. queue' = [queue EXCEPT ![s] = Rest(@)]
  BY DoVPops
<1> QED
  BY <1>1, <1>2 DEF DoV

\* The same for the lock that Wait releases.
LEMMA UnitOfWait ==
  ASSUME SynchInv, NEW c \in Condition, NEW l \in Lock, l = CondLock[c], Wait(c)
  PROVE  /\ value'[l] = value[l] + 1 /\ queue'[l] = Rest(queue[l])
         /\ queue'[c] = Append(queue[c], currentThread)
         /\ \A y \in Object : y \notin {l, c} => queue'[y] = queue[y]
         /\ \A y \in Sem : y # l => value'[y] = value[y]
<1>1. /\ value \in [Sem -> Nat] /\ queue \in [Object -> Seq(Thread)]
      /\ l \in Object /\ l \in Sem /\ c \in Object /\ l # c
  BY DEF SynchInv, SynchTypeOK, Object, Sem
<1>2. queue[l] # <<>> => Head(queue[l]) # NULL
  BY <1>1, ThreadsAssumption
<1>3. (IF Wakes(l) = NULL THEN queue[l] ELSE Tail(queue[l])) = Rest(queue[l])
  BY <1>2 DEF Wakes, First, Rest
<1>4. /\ value' = [value EXCEPT ![l] = @ + 1]
      /\ queue' = [queue EXCEPT ![l] = IF Wakes(l) = NULL THEN @ ELSE Tail(@),
                                ![c] = Append(@, currentThread)]
  BY DEF Wait
<1> QED
  BY Zenon, <1>1, <1>3, <1>4

-----------------------------------------------------------------------------
(* The refinement of Monitor.                                              *)

\* The thread inside Broadcast(c) holds the lock of c: nobody else uses c.
BroadcasterInv ==
  \A t \in Thread : doing[t].op = "Broadcast" => CondLock[doing[t].obj] \in held[t]

\* Monitor's variables, as module Synch represents them.
AValue   == [s \in Semaphore |-> value[s]]
AWaiting == [c \in Condition |-> IF Broadcasting(c) THEN <<>> ELSE queue[c]]
AWaking  == [t \in Thread |->
               CASE doing[t].op = "Reacquire" -> doing[t].obj
                 [] /\ doing[t].op = "Wait"
                    /\ \/ t \notin Range(queue[doing[t].obj])
                       \/ Broadcasting(doing[t].obj) -> CondLock[doing[t].obj]
                 [] OTHER -> NULL]

AFree(t) == AWaking[t] = NULL /\ \A c \in Condition : t \notin Range(AWaiting[c])

\* Waits on a condition that nobody has signalled for it.
Unsignalled(t) ==
  /\ doing[t].op = "Wait"
  /\ t \in Range(queue[doing[t].obj])
  /\ ~Broadcasting(doing[t].obj)

WakingIs(t) ==
  /\ doing[t].op \notin {"Reacquire", "Wait"} => AWaking[t] = NULL
  /\ doing[t].op = "Reacquire" => AWaking[t] = doing[t].obj
  /\ Unsignalled(t) => AWaking[t] = NULL
  /\ doing[t].op = "Wait" /\ ~Unsignalled(t) => AWaking[t] = CondLock[doing[t].obj]

\* What a thread's waking is, by the routine it is in.
LEMMA WakingFacts == ASSUME NEW t \in Thread PROVE WakingIs(t) /\ WakingIs(t)'
<1>1. WakingIs(t)
  BY DEF WakingIs, AWaking, Unsignalled
<1>2. WakingIs(t)'
  BY DEF WakingIs, AWaking, Unsignalled
<1> QED
  BY Zenon, <1>1, <1>2

\* Somebody broadcasts c.
LEMMA BroadcastingFacts ==
  ASSUME NEW c
  PROVE  /\ SynchTypeOK => (Broadcasting(c) <=>
              \E t \in Thread : doing[t].op = "Broadcast" /\ doing[t].obj = c)
         /\ SynchTypeOK' => (Broadcasting(c)' <=>
              \E t \in Thread : doing'[t].op = "Broadcast" /\ doing'[t].obj = c)
<1>1. ASSUME NEW r, \E O : r \in [op : Routine, obj : O]
      PROVE  r = [op |-> "Broadcast", obj |-> c] <=> r.op = "Broadcast" /\ r.obj = c
  BY <1>1
<1>2. SynchTypeOK => \A t \in Thread : \E O : doing[t] \in [op : Routine, obj : O]
  BY Zenon DEF SynchTypeOK
<1>3. SynchTypeOK' => \A t \in Thread : \E O : doing'[t] \in [op : Routine, obj : O]
  BY Zenon DEF SynchTypeOK
<1> QED
  BY Zenon, <1>1, <1>2, <1>3 DEF Broadcasting

\* A broadcast of c excludes every other user of c.
LEMMA BroadcastAlone ==
  ASSUME SynchInv, BroadcasterInv, NEW c \in Condition, NEW t \in Thread,
         CondLock[c] \in held[t], Broadcasting(c)
  PROVE  doing[t].op = "Broadcast" /\ doing[t].obj = c
<1>1. PICK u \in Thread : doing[u].op = "Broadcast" /\ doing[u].obj = c
  BY BroadcastingFacts DEF SynchInv
<1>2. CondLock[c] \in held[u]
  BY <1>1 DEF BroadcasterInv
<1>3. t = u
  BY <1>2 DEF SynchInv, MutualExclusion
<1> QED
  BY <1>1, <1>3

\* A thread in none of the routines of conditions is free in Monitor's sense.
LEMMA FreeFacts ==
  ASSUME SynchInv, NEW t \in Thread, doing[t].op \in {"none", "P", "Broadcast"}
  PROVE  AFree(t)
<1>1. AWaking[t] = NULL
  BY WakingFacts DEF WakingIs
<1>2. ASSUME NEW c \in Condition PROVE t \notin Range(AWaiting[c])
  <2>1. t \notin Range(queue[c])
    BY DEF SynchInv, QueuesExact
  <2>2. t \notin Range(<<>>)
    BY DEF Range
  <2> QED
    BY <2>1, <2>2 DEF AWaiting
<1> QED
  BY <1>1, <1>2 DEF AFree

\* A step that changes no condition's queue, as Monitor sees it.
LEMMA SameWaiting ==
  ASSUME \A c \in Condition : /\ Broadcasting(c)' <=> Broadcasting(c)
                              /\ ~Broadcasting(c) => queue'[c] = queue[c]
  PROVE  AWaiting' = AWaiting
BY DEF AWaiting

\* A thread that keeps its routine and its place keeps its waking.
LEMMA SameWaking ==
  ASSUME SynchInv, NEW t \in Thread, doing'[t] = doing[t],
         \A c \in Condition : /\ Broadcasting(c)' <=> Broadcasting(c)
                              /\ t \in Range(queue'[c]) <=> t \in Range(queue[c])
  PROVE  AWaking'[t] = AWaking[t]
<1>1. doing[t].op = "Wait" => doing[t].obj \in Condition
  BY DEF SynchInv, DoingInv
<1>2. Unsignalled(t)' <=> Unsignalled(t)
  BY <1>1 DEF Unsignalled
<1>3. doing[t].op \notin {"Reacquire", "Wait"} \/ doing[t].op = "Reacquire" \/ Unsignalled(t)
        \/ (doing[t].op = "Wait" /\ ~Unsignalled(t))
  OBVIOUS
<1> QED
  BY <1>2, <1>3, WakingFacts DEF WakingIs

\* Two functions on the threads are equal when they agree on every thread.
LEMMA WakingEquals ==
  ASSUME NEW f, \A t \in Thread : AWaking'[t] = f[t], f = [t \in Thread |-> f[t]]
  PROVE  AWaking' = f
BY DEF AWaking

-----------------------------------------------------------------------------
(* The steps of Monitor, on the variables that represent its own.          *)

\* A thread is free in both senses.
LEMMA AbstractFree == ASSUME NEW t, AFree(t) PROVE Abstract!Free(t)
<1>1. \A f : Abstract!Range(f) = Range(f)
  BY Zenon DEF Abstract!Range, Range
<1> QED
  BY Zenon, <1>1 DEF AFree, Abstract!Free, AWaiting, AWaking

\* P takes a unit.
LEMMA AbstractP ==
  ASSUME NEW t \in Thread, NEW s \in Semaphore, AFree(t), AValue[s] > 0,
         AValue' = [AValue EXCEPT ![s] = @ - 1], UNCHANGED <<owner, AWaiting, AWaking>>
  PROVE  Abstract!MonitorNext
<1>1. Abstract!P(t, s)
  BY AbstractFree DEF Abstract!P, AValue, AWaiting, AWaking
<1> QED
  BY Zenon, <1>1 DEF Abstract!MonitorNext

\* V adds a unit.
LEMMA AbstractV ==
  ASSUME NEW s \in Semaphore,
         AValue' = [AValue EXCEPT ![s] = @ + 1], UNCHANGED <<owner, AWaiting, AWaking>>
  PROVE  Abstract!MonitorNext
<1>1. Abstract!V(s)
  BY DEF Abstract!V, AValue, AWaiting, AWaking
<1> QED
  BY Zenon, <1>1 DEF Abstract!MonitorNext

\* Acquire takes a lock that nobody holds.
LEMMA AbstractAcquire ==
  ASSUME NEW t \in Thread, NEW l \in Lock, AFree(t), owner[l] = NULL,
         owner' = [owner EXCEPT ![l] = t], UNCHANGED <<AValue, AWaiting, AWaking>>
  PROVE  Abstract!MonitorNext
<1>1. Abstract!Acquire(t, l)
  BY AbstractFree DEF Abstract!Acquire, AValue, AWaiting, AWaking
<1> QED
  BY Zenon, <1>1 DEF Abstract!MonitorNext

\* Release gives a lock up.
LEMMA AbstractRelease ==
  ASSUME NEW t \in Thread, NEW l \in Lock, AFree(t), owner[l] = t,
         owner' = [owner EXCEPT ![l] = NULL], UNCHANGED <<AValue, AWaiting, AWaking>>
  PROVE  Abstract!MonitorNext
<1>1. Abstract!Release(t, l)
  BY AbstractFree DEF Abstract!Release, AValue, AWaiting, AWaking
<1> QED
  BY Zenon, <1>1 DEF Abstract!MonitorNext

\* Wait gives the lock up and joins the queue.
LEMMA AbstractWait ==
  ASSUME NEW t \in Thread, NEW c \in Condition, AFree(t), owner[CondLock[c]] = t,
         owner' = [owner EXCEPT ![CondLock[c]] = NULL],
         AWaiting' = [AWaiting EXCEPT ![c] = Append(@, t)], UNCHANGED <<AValue, AWaking>>
  PROVE  Abstract!MonitorNext
<1>1. Abstract!Wait(t, c)
  BY AbstractFree DEF Abstract!Wait, AValue, AWaiting, AWaking
<1> QED
  BY Zenon, <1>1 DEF Abstract!MonitorNext

\* Wait returns with the lock.
LEMMA AbstractWaitReturns ==
  ASSUME NEW t \in Thread, AWaking[t] # NULL, owner[AWaking[t]] = NULL,
         owner' = [owner EXCEPT ![AWaking[t]] = t],
         AWaking' = [AWaking EXCEPT ![t] = NULL], UNCHANGED <<AValue, AWaiting>>
  PROVE  Abstract!MonitorNext
<1>1. Abstract!WaitReturns(t)
  BY DEF Abstract!WaitReturns, AValue, AWaiting, AWaking
<1> QED
  BY Zenon, <1>1 DEF Abstract!MonitorNext

\* Signal moves the first waiter on.
LEMMA AbstractSignal ==
  ASSUME NEW t \in Thread, NEW c \in Condition, AFree(t), owner[CondLock[c]] = t,
         AWaiting[c] # <<>>,
         AWaking' = [AWaking EXCEPT ![Head(AWaiting[c])] = CondLock[c]],
         AWaiting' = [AWaiting EXCEPT ![c] = Tail(@)], UNCHANGED <<AValue, owner>>
  PROVE  Abstract!MonitorNext
<1>1. Abstract!Signal(t, c)
  BY AbstractFree DEF Abstract!Signal, AValue, AWaiting, AWaking
<1> QED
  BY Zenon, <1>1 DEF Abstract!MonitorNext

\* Broadcast moves every waiter on.
LEMMA AbstractBroadcast ==
  ASSUME NEW t \in Thread, NEW c \in Condition, AFree(t), owner[CondLock[c]] = t,
         AWaking' = [u \in Thread |-> IF u \in Range(AWaiting[c]) THEN CondLock[c]
                                      ELSE AWaking[u]],
         AWaiting' = [AWaiting EXCEPT ![c] = <<>>], UNCHANGED <<AValue, owner>>
  PROVE  Abstract!MonitorNext
<1>1. \A f : Abstract!Range(f) = Range(f)
  BY Zenon DEF Abstract!Range, Range
<1>2. Abstract!Broadcast(t, c)
  BY <1>1, AbstractFree DEF Abstract!Broadcast, AValue, AWaiting, AWaking
<1> QED
  BY Zenon, <1>2 DEF Abstract!MonitorNext

MonitorStep == Abstract!MonitorNext \/ UNCHANGED <<AValue, owner, AWaiting, AWaking>>

\* A step that changes no condition's queue, and starts or ends no broadcast.
LEMMA OtherView ==
  ASSUME SynchInv, SynchInv', \A c \in Condition : queue'[c] = queue[c],
         \A t \in Thread : doing[t].op = "Broadcast" \/ doing'[t].op = "Broadcast"
                             => doing'[t] = doing[t]
  PROVE  /\ AWaiting' = AWaiting
         /\ \A t \in Thread : doing'[t] = doing[t] => AWaking'[t] = AWaking[t]
<1>1. ASSUME NEW c \in Condition PROVE Broadcasting(c)' <=> Broadcasting(c)
  BY Zenon, BroadcastingFacts DEF SynchInv
<1>2. AWaiting' = AWaiting
  BY Zenon, <1>1, SameWaiting
<1>3. ASSUME NEW t \in Thread, doing'[t] = doing[t] PROVE AWaking'[t] = AWaking[t]
  BY <1>1, <1>3, SameWaking
<1> QED
  BY <1>2, <1>3

\* A call of P or Acquire, from its first test of value to its last.
LEMMA TakeView ==
  ASSUME SynchInv, SynchInv', currentThread \in Thread, NEW s \in Sem, TryP(s, "P"),
         doing[currentThread].op \in {"none", "P"}
  PROVE  MonitorStep
<1> DEFINE me == currentThread
<1>1. AFree(me)
  BY Zenon, FreeFacts
<1>2. \A c \in Condition : queue'[c] = queue[c]
  BY DEF TryP, SynchInv, SynchTypeOK, Sem
<1>3. /\ doing'[me].op \in {"none", "P"}
      /\ \A t \in Thread : t # me => doing'[t] = doing[t]
  BY DEF TryP, Become, None, SynchInv, SynchTypeOK
<1>4. /\ AWaiting' = AWaiting
      /\ \A t \in Thread : t # me => AWaking'[t] = AWaking[t]
  BY <1>2, <1>3, OtherView
<1>5. AWaking[me] = NULL /\ AWaking'[me] = NULL
  BY <1>3, WakingFacts DEF WakingIs
<1>6. AWaking' = AWaking
  <2>1. \A t \in Thread : AWaking'[t] = AWaking[t]
    BY <1>4, <1>5
  <2>2. AWaking = [t \in Thread |-> AWaking[t]]
    BY DEF AWaking
  <2> QED
    BY <2>1, <2>2, WakingEquals
<1>7. CASE value[s] = 0
  <2>1. UNCHANGED <<value, owner>>
    BY <1>7 DEF TryP
  <2> QED
    BY <1>4, <1>6, <2>1 DEF MonitorStep, AValue
<1>8. CASE value[s] > 0 /\ s \in Lock
  <2>1. owner[s] = NULL
    BY <1>8 DEF SynchInv, MutualExclusion
  <2>2. owner' = [owner EXCEPT ![s] = me] /\ value' = [value EXCEPT ![s] = @ - 1]
    BY <1>8 DEF TryP
  <2>3. AValue' = AValue
    BY <1>8, <2>2 DEF AValue, SynchInv, SynchTypeOK, Sem
  <2>4. Abstract!MonitorNext
    BY Zenon, <1>1, <1>4, <1>6, <1>8, <2>1, <2>2, <2>3, AbstractAcquire
  <2> QED
    BY <2>4 DEF MonitorStep
<1>9. CASE value[s] > 0 /\ s \in Semaphore
  <2>1. owner' = owner /\ value' = [value EXCEPT ![s] = @ - 1]
    BY <1>9 DEF TryP
  <2>2. AValue[s] > 0 /\ AValue' = [AValue EXCEPT ![s] = @ - 1]
    BY Zenon, <1>9, <2>1 DEF AValue, SynchInv, SynchTypeOK, Sem
  <2>3. Abstract!MonitorNext
    BY Zenon, <1>1, <1>4, <1>6, <1>9, <2>1, <2>2, AbstractP
  <2> QED
    BY <2>3 DEF MonitorStep
<1>10. value[s] = 0 \/ value[s] > 0
  BY DEF TryP
<1> QED
  BY <1>7, <1>8, <1>9, <1>10 DEF Sem

\* The Acquire at the end of Wait.
LEMMA ReturnView ==
  ASSUME SynchInv, SynchInv', currentThread \in Thread, NEW l \in Lock,
         TryP(l, "Reacquire"), AWaking[currentThread] = l,
         doing[currentThread].op \in {"Wait", "Reacquire"}
  PROVE  MonitorStep
<1> DEFINE me == currentThread
<1>1. l \in Sem /\ l # NULL
  BY Zenon DEF Sem
<1>2. \A c \in Condition : queue'[c] = queue[c]
  BY Zenon, <1>1 DEF TryP, SynchInv, SynchTypeOK, Sem
<1>3. /\ doing'[me].op \in {"none", "Reacquire"}
      /\ \A t \in Thread : t # me => doing'[t] = doing[t]
  BY DEF TryP, Become, None, SynchInv, SynchTypeOK
<1>4. /\ AWaiting' = AWaiting
      /\ \A t \in Thread : t # me => AWaking'[t] = AWaking[t]
  BY <1>2, <1>3, OtherView
<1>5. AWaking = [t \in Thread |-> AWaking[t]]
  BY DEF AWaking
<1>6. CASE value[l] = 0
  <2>1. /\ UNCHANGED <<value, owner>>
        /\ doing' = [doing EXCEPT ![me] = [op |-> "Reacquire", obj |-> l]]
    BY <1>6 DEF TryP, Become
  <2>2. doing'[me].op = "Reacquire" /\ doing'[me].obj = l
    BY Zenon, <2>1 DEF SynchInv, SynchTypeOK
  <2>3. AWaking'[me] = AWaking[me]
    BY <2>2, WakingFacts DEF WakingIs
  <2>4. AWaking' = AWaking
    BY <1>4, <1>5, <2>3, WakingEquals
  <2> QED
    BY Zenon, <1>4, <2>1, <2>4 DEF MonitorStep, AValue
<1>7. CASE value[l] > 0
  <2>1. owner[l] = NULL
    BY <1>7 DEF SynchInv, MutualExclusion
  <2>2. /\ owner' = [owner EXCEPT ![l] = me] /\ value' = [value EXCEPT ![l] = @ - 1]
        /\ doing' = [doing EXCEPT ![me] = None]
    BY <1>7 DEF TryP, Become
  <2>3. AValue' = AValue
    BY <1>1, <2>2 DEF AValue, SynchInv, SynchTypeOK, Sem
  <2>4. doing'[me].op = "none"
    BY Zenon, <2>2 DEF SynchInv, SynchTypeOK, None
  <2>5. AWaking'[me] = NULL
    BY <2>4, WakingFacts DEF WakingIs
  <2>6. PICK f : f = [AWaking EXCEPT ![me] = NULL]
    BY Zenon
  <2>7. f = [t \in Thread |-> f[t]] /\ \A t \in Thread : AWaking'[t] = f[t]
    BY <1>4, <1>5, <2>5, <2>6
  <2>8. AWaking' = [AWaking EXCEPT ![me] = NULL]
    BY <2>6, <2>7, WakingEquals
  <2>9. Abstract!MonitorNext
    BY Zenon, <1>1, <1>4, <2>1, <2>2, <2>3, <2>8, AbstractWaitReturns
  <2> QED
    BY <2>9 DEF MonitorStep
<1>8. value[l] = 0 \/ value[l] > 0
  BY DEF TryP
<1> QED
  BY <1>6, <1>7, <1>8

\* V, by a thread or by an interrupt handler; and Release, but for its owner.
LEMMA GiveView ==
  ASSUME SynchInv, SynchInv', NEW s \in Sem, DoV(s), UNCHANGED doing
  PROVE  /\ UNCHANGED <<AWaiting, AWaking>>
         /\ s \in Semaphore => AValue' = [AValue EXCEPT ![s] = @ + 1]
         /\ s \in Lock => AValue' = AValue
<1>1. \A c \in Condition : queue'[c] = queue[c]
  BY UnitOfV DEF Object
<1>2. AWaiting' = AWaiting /\ \A t \in Thread : AWaking'[t] = AWaking[t]
  BY <1>1, OtherView
<1>3. AWaking = [t \in Thread |-> AWaking[t]]
  BY DEF AWaking
<1>4. AWaking' = AWaking
  BY Zenon, <1>2, <1>3, WakingEquals
<1>5. value' = [value EXCEPT ![s] = @ + 1] /\ value \in [Sem -> Nat]
  BY DEF DoV, SynchInv, SynchTypeOK
<1>6. s \in Semaphore => AValue' = [AValue EXCEPT ![s] = @ + 1]
  BY Zenon, <1>5 DEF AValue, Sem
<1>7. s \in Lock => AValue' = AValue
  BY <1>5 DEF AValue, Sem
<1> QED
  BY <1>2, <1>4, <1>6, <1>7

\* Wait queues its caller, who waits for a signal.
LEMMA WaitView ==
  ASSUME SynchInv, SynchInv', BroadcasterInv, NEW c \in Condition, Wait(c)
  PROVE  MonitorStep
<1>1. PICK me, l : me = currentThread /\ l = CondLock[c]
  BY Zenon
<1>2. /\ InCode /\ CondLock[c] \in held[me]
      /\ doing' = [doing EXCEPT ![me] = [op |-> "Wait", obj |-> c]]
      /\ owner' = [owner EXCEPT ![CondLock[c]] = NULL]
      /\ value' = [value EXCEPT ![CondLock[c]] = @ + 1]
  BY Zenon, <1>1 DEF Wait, Become
<1>3. me \in Thread /\ doing[me].op = "none" /\ doing[me].obj = NULL
  BY <1>1, <1>2, CallerFacts
<1>4. AFree(me)
  BY Zenon, <1>3, FreeFacts
<1>5. ~Broadcasting(c)
  BY <1>2, <1>3, BroadcastAlone
<1>6. /\ doing'[me].op = "Wait" /\ doing'[me].obj = c
      /\ \A t \in Thread : t # me => doing'[t] = doing[t]
  BY <1>2, <1>3 DEF SynchInv, SynchTypeOK
<1>7. ASSUME NEW d PROVE Broadcasting(d)' <=> Broadcasting(d)
  BY <1>3, <1>6, BroadcastingFacts DEF SynchInv
<1>8. /\ queue'[c] = Append(queue[c], me)
      /\ \A d \in Condition : d # c => queue'[d] = queue[d]
  <2>1. l \in Lock
    BY <1>1
  <2> QED
    BY <1>1, <2>1, UnitOfWait DEF Object, Sem
<1>9. AWaiting' = [AWaiting EXCEPT ![c] = Append(@, me)]
  BY Zenon, <1>5, <1>7, <1>8 DEF AWaiting
<1>10. Range(queue'[c]) = Range(queue[c]) \cup {me}
  <2>1. queue[c] \in Seq(Thread) /\ IsInjective(queue[c]) /\ me \notin Range(queue[c])
    BY <1>1, <1>2, CallerFacts DEF SynchInv, SynchTypeOK, QueuesExact, Object
  <2> QED
    BY <1>3, <1>8, <2>1, AppendFacts
<1>11. \A t \in Thread : AWaking'[t] = AWaking[t]
  <2>1. AWaking[me] = NULL
    BY Zenon, <1>3, WakingFacts DEF WakingIs
  <2>2. Unsignalled(me)'
    BY Zenon, <1>5, <1>6, <1>7, <1>10 DEF Unsignalled
  <2>3. AWaking'[me] = NULL
    BY <1>3, <2>2, WakingFacts DEF WakingIs
  <2>4. ASSUME NEW t \in Thread, t # me PROVE AWaking'[t] = AWaking[t]
    BY Zenon, <1>6, <1>7, <1>8, <1>10, <2>4, SameWaking
  <2> QED
    BY Zenon, <2>1, <2>3, <2>4
<1>12. AWaking' = AWaking
  <2>1. AWaking = [t \in Thread |-> AWaking[t]]
    BY Zenon DEF AWaking
  <2> QED
    BY <1>11, <2>1, WakingEquals
<1>13. AValue' = AValue
  BY <1>2 DEF AValue, SynchInv, SynchTypeOK, Sem
<1>14. owner[CondLock[c]] = me
  BY <1>2, <1>3 DEF SynchInv, MutualExclusion
<1>15. Abstract!MonitorNext
  BY Zenon, <1>2, <1>3, <1>4, <1>9, <1>12, <1>13, <1>14, AbstractWait
<1> QED
  BY <1>15 DEF MonitorStep

\* Signal passes the lock's name to the first thread of the queue.
LEMMA SignalView ==
  ASSUME SynchInv, SynchInv', BroadcasterInv, NEW c \in Condition, Signal(c)
  PROVE  MonitorStep
<1> DEFINE me == currentThread
<1>1. /\ InCode /\ CondLock[c] \in held[me] /\ UNCHANGED <<value, owner, doing>>
      /\ queue' = [queue EXCEPT ![c] = Rest(@)]
  BY DEF Signal
<1>2. me \in Thread /\ doing[me].op = "none" /\ AFree(me)
  BY Zenon, <1>1, CallerFacts, FreeFacts
<1>3. ~Broadcasting(c)
  BY <1>1, <1>2, BroadcastAlone
<1>4. ASSUME NEW d PROVE Broadcasting(d)' <=> Broadcasting(d)
  BY <1>1 DEF Broadcasting
<1>5. /\ queue[c] \in Seq(Thread) /\ queue'[c] = Rest(queue[c])
      /\ \A d \in Condition : d # c => queue'[d] = queue[d]
  BY <1>1 DEF SynchInv, SynchTypeOK
<1>6. AValue' = AValue
  BY <1>1 DEF AValue
<1>7. AWaking = [t \in Thread |-> AWaking[t]]
  BY DEF AWaking
<1>8. CASE queue[c] = <<>>
  <2>1. queue'[c] = queue[c]
    BY <1>5, <1>8 DEF Rest
  <2>2. AWaiting' = AWaiting
    BY Zenon, <1>4, <1>5, <2>1, SameWaiting
  <2>3. \A t \in Thread : AWaking'[t] = AWaking[t]
    BY <1>1, <1>4, <1>5, <2>1, SameWaking
  <2> QED
    BY <1>1, <1>6, <1>7, <2>2, <2>3, WakingEquals DEF MonitorStep
<1>9. CASE queue[c] # <<>>
  <2>1. PICK w : w = Head(queue[c])
    BY Zenon
  <2>2. /\ w \in Thread /\ w \in Range(queue[c])
        /\ Range(Tail(queue[c])) = Range(queue[c]) \ {w}
    <3>1. IsInjective(queue[c])
      BY DEF SynchInv, QueuesExact
    <3> QED
      BY Zenon, <1>5, <1>9, <2>1, <3>1, TailFacts
  <2>3. queue'[c] = Tail(queue[c])
    BY <1>5, <1>9 DEF Rest
  <2>4. AWaiting[c] = queue[c] /\ AWaiting' = [AWaiting EXCEPT ![c] = Tail(@)]
    BY Zenon, <1>3, <1>4, <1>5, <2>3 DEF AWaiting
  <2>5. AWaking'[w] = CondLock[c]
    <3>1. doing'[w].op = "Wait" /\ doing'[w].obj = c
      BY <1>1, <2>2 DEF SynchInv, QueuesExact
    <3>2. ~Unsignalled(w)'
      BY <2>2, <2>3, <3>1 DEF Unsignalled
    <3> QED
      BY Zenon, <2>2, <3>1, <3>2, WakingFacts DEF WakingIs
  <2>6. ASSUME NEW t \in Thread, t # w PROVE AWaking'[t] = AWaking[t]
    BY Zenon, <1>1, <1>4, <1>5, <2>2, <2>3, <2>6, SameWaking
  <2>7. PICK f : f = [AWaking EXCEPT ![w] = CondLock[c]]
    BY Zenon
  <2>8. f = [t \in Thread |-> f[t]] /\ \A t \in Thread : AWaking'[t] = f[t]
    BY <1>7, <2>2, <2>5, <2>6, <2>7
  <2>9. AWaking' = [AWaking EXCEPT ![Head(AWaiting[c])] = CondLock[c]]
    BY <2>1, <2>4, <2>7, <2>8, WakingEquals
  <2>10. owner[CondLock[c]] = me
    BY Zenon, <1>1, <1>2 DEF SynchInv, MutualExclusion
  <2>11. Abstract!MonitorNext
    BY Zenon, <1>1, <1>2, <1>6, <1>9, <2>4, <2>9, <2>10, AbstractSignal
  <2> QED
    BY <2>11 DEF MonitorStep
<1> QED
  BY <1>8, <1>9

\* Broadcast: the first step of its loop signals every waiter, as Monitor sees
\* it; with nobody waiting there is no other step.
LEMMA BroadcastView ==
  ASSUME SynchInv, SynchInv', BroadcasterInv, NEW c \in Condition, Broadcast(c)
  PROVE  MonitorStep
<1>1. PICK me : me = currentThread
  BY Zenon
<1>2. InCode /\ CondLock[c] \in held[me] /\ BroadcastLoop(c) /\ UNCHANGED <<value, owner>>
  BY Zenon, <1>1 DEF Broadcast, BroadcastLoop
<1>3. /\ me \in Thread /\ doing[me].op = "none" /\ doing[me].obj = NULL /\ AFree(me)
  BY <1>1, <1>2, CallerFacts, FreeFacts
<1>4. ~Broadcasting(c)
  BY <1>2, <1>3, BroadcastAlone
<1>5. AValue' = AValue /\ AWaiting[c] = queue[c] /\ queue \in [Object -> Seq(Thread)]
  BY <1>2, <1>4 DEF AValue, AWaiting, SynchInv, SynchTypeOK, Object
<1>6. AWaking = [t \in Thread |-> AWaking[t]]
  BY DEF AWaking
<1>7. CASE queue[c] = <<>>
  <2>1. queue' = queue /\ doing' = [doing EXCEPT ![me] = None]
    BY <1>1, <1>2, <1>7 DEF BroadcastLoop, Become
  <2>2. doing[me] = None
    BY <1>3 DEF SynchInv, SynchTypeOK, None
  <2>3. doing' = doing
    BY <2>1, <2>2 DEF SynchInv, SynchTypeOK
  <2>4. AWaiting' = AWaiting /\ \A t \in Thread : AWaking'[t] = AWaking[t]
    BY Zenon, <2>1, <2>3, OtherView
  <2> QED
    BY Zenon, <1>2, <1>5, <1>6, <2>4, WakingEquals DEF MonitorStep
<1>8. CASE queue[c] # <<>>
  <2>1. /\ queue' = [queue EXCEPT ![c] = Rest(@)]
        /\ doing' = [doing EXCEPT ![me] = [op |-> "Broadcast", obj |-> c]]
    BY Zenon, <1>1, <1>2, <1>8 DEF BroadcastLoop, Become
  <2>2. /\ doing'[me].op = "Broadcast" /\ doing'[me].obj = c
        /\ \A t \in Thread : t # me => doing'[t] = doing[t]
        /\ \A d \in Condition : d # c => queue'[d] = queue[d]
    BY Zenon, <1>3, <1>5, <2>1 DEF SynchInv, SynchTypeOK, Object
  <2>3. Broadcasting(c)'
    BY Zenon, <1>3, <2>2, BroadcastingFacts DEF SynchInv
  <2>4. ASSUME NEW d, d # c PROVE Broadcasting(d)' <=> Broadcasting(d)
    BY <1>3, <2>2, <2>4, BroadcastingFacts DEF SynchInv
  <2>5. AWaiting' = [AWaiting EXCEPT ![c] = <<>>]
    BY Zenon, <2>2, <2>3, <2>4 DEF AWaiting
  <2>6. ASSUME NEW t \in Thread, t \in Range(queue[c]) PROVE AWaking'[t] = CondLock[c]
    <3>1. doing[t].op = "Wait" /\ doing[t].obj = c
      BY Zenon, <2>6 DEF SynchInv, QueuesExact
    <3>2. doing'[t].op = "Wait" /\ doing'[t].obj = c
      BY Zenon, <1>3, <2>2, <3>1
    <3>3. ~Unsignalled(t)'
      BY Zenon, <2>3, <3>2 DEF Unsignalled
    <3> QED
      BY Zenon, <3>2, <3>3, WakingFacts DEF WakingIs
  <2>7. ASSUME NEW t \in Thread, t \notin Range(queue[c]) PROVE AWaking'[t] = AWaking[t]
    <3>1. CASE t = me
      BY Zenon, <1>3, <2>2, <3>1, WakingFacts DEF WakingIs
    <3>2. CASE t # me /\ ~(doing[t].op = "Wait" /\ doing[t].obj = c)
      <4>1. doing'[t] = doing[t]
        BY Zenon, <2>2, <3>2
      <4>2. doing[t].op = "Wait" => doing[t].obj \in Condition /\ doing[t].obj # c
        BY Zenon, <3>2 DEF SynchInv, DoingInv
      <4>3. Unsignalled(t)' <=> Unsignalled(t)
        BY Zenon, <2>2, <2>4, <4>1, <4>2 DEF Unsignalled
      <4> QED
        BY Zenon, <4>1, <4>3, WakingFacts DEF WakingIs
    <3>3. CASE t # me /\ doing[t].op = "Wait" /\ doing[t].obj = c
      <4>1. doing'[t].op = "Wait" /\ doing'[t].obj = c
        BY Zenon, <2>2, <3>3
      <4>2. ~Unsignalled(t) /\ ~Unsignalled(t)'
        BY <2>3, <2>7, <3>3, <4>1 DEF Unsignalled
      <4> QED
        BY <3>3, <4>1, <4>2, WakingFacts DEF WakingIs
    <3> QED
      BY Zenon, <3>1, <3>2, <3>3
  <2>8. PICK f : f = [u \in Thread |-> IF u \in Range(AWaiting[c]) THEN CondLock[c]
                                       ELSE AWaking[u]]
    BY Zenon
  <2>9. f = [t \in Thread |-> f[t]]
    BY Zenon, <2>8
  <2>10. \A t \in Thread : AWaking'[t] = f[t]
    BY <1>5, <2>6, <2>7, <2>8
  <2>11. AWaking' = f
    BY Zenon, <2>9, <2>10, WakingEquals
  <2>12. owner[CondLock[c]] = me
    BY <1>2, <1>3 DEF SynchInv, MutualExclusion
  <2>13. Abstract!MonitorNext
    BY Zenon, <1>2, <1>3, <1>5, <2>5, <2>8, <2>11, <2>12, AbstractBroadcast
  <2> QED
    BY <2>13 DEF MonitorStep
<1> QED
  BY <1>7, <1>8

\* The rest of Broadcast's loop is invisible.
LEMMA ResumeBroadcastView ==
  ASSUME SynchInv, SynchInv', BroadcasterInv, ResumeBroadcast
  PROVE  MonitorStep
<1>1. PICK me, c : me = currentThread /\ c = doing[currentThread].obj
  BY Zenon
<1>2. me \in Thread /\ doing[me].op = "Broadcast" /\ doing[me].obj = c /\ BroadcastLoop(c)
  BY Zenon, <1>1, ResumedFacts DEF ResumeBroadcast
<1>3. c \in Condition /\ CondLock[c] \in held[me] /\ Broadcasting(c)
  BY Zenon, <1>2, BroadcastingFacts DEF SynchInv, DoingInv, BroadcasterInv
<1>4. \A u \in Thread : doing[u].op = "Broadcast" /\ doing[u].obj = c => u = me
  <2>1. \A u \in Thread : CondLock[c] \in held[u] => owner[CondLock[c]] = u
    BY Zenon, <1>3 DEF SynchInv, MutualExclusion
  <2> QED
    BY Zenon, <1>2, <1>3, <2>1 DEF BroadcasterInv
<1>5. UNCHANGED <<value, owner>> /\ queue \in [Object -> Seq(Thread)] /\ c \in Object
  BY <1>2, <1>3 DEF BroadcastLoop, SynchInv, SynchTypeOK, Object
<1>6. AValue' = AValue
  BY <1>5 DEF AValue
<1>7. AWaking = [t \in Thread |-> AWaking[t]]
  BY DEF AWaking
<1>8. CASE queue[c] # <<>>
  <2>1. /\ queue' = [queue EXCEPT ![c] = Rest(@)]
        /\ doing' = [doing EXCEPT ![me] = [op |-> "Broadcast", obj |-> c]]
    BY Zenon, <1>1, <1>2, <1>8 DEF BroadcastLoop, Become
  <2>2. doing' = doing
    <3>1. doing[me] = [op |-> "Broadcast", obj |-> c]
      BY Zenon, <1>2 DEF SynchInv, SynchTypeOK
    <3> QED
      BY Zenon, <2>1, <3>1 DEF SynchInv, SynchTypeOK
  <2>3. \A d \in Condition : d # c => queue'[d] = queue[d]
    BY Zenon, <1>5, <2>1 DEF Object
  <2>4. ASSUME NEW d PROVE Broadcasting(d)' <=> Broadcasting(d)
    BY Zenon, <2>2 DEF Broadcasting
  <2>5. AWaiting' = AWaiting
    BY Zenon, <1>3, <2>3, <2>4, SameWaiting
  <2>6. ASSUME NEW t \in Thread PROVE AWaking'[t] = AWaking[t]
    <3>1. doing[t].op = "Wait" => doing[t].obj \in Condition
      BY Zenon DEF SynchInv, DoingInv
    <3>2. Unsignalled(t)' <=> Unsignalled(t)
      BY <1>3, <2>2, <2>3, <2>4, <3>1 DEF Unsignalled
    <3> QED
      BY Zenon, <2>2, <3>2, WakingFacts DEF WakingIs
  <2> QED
    BY Zenon, <1>5, <1>6, <1>7, <2>5, <2>6, WakingEquals DEF MonitorStep
<1>9. CASE queue[c] = <<>>
  <2>1. queue' = queue /\ doing' = [doing EXCEPT ![me] = None]
    BY Zenon, <1>1, <1>2, <1>9 DEF BroadcastLoop, Become
  <2>2. doing'[me].op = "none" /\ \A t \in Thread : t # me => doing'[t] = doing[t]
    BY Zenon, <1>2, <2>1 DEF SynchInv, SynchTypeOK, None
  <2>3. ~Broadcasting(c)'
    BY <1>4, <2>2, BroadcastingFacts DEF SynchInv
  <2>4. ASSUME NEW d, d # c PROVE Broadcasting(d)' <=> Broadcasting(d)
    BY <1>2, <2>2, <2>4, BroadcastingFacts DEF SynchInv
  <2>5. AWaiting' = AWaiting
    BY Zenon, <1>3, <1>9, <2>1, <2>3, <2>4 DEF AWaiting
  <2>6. ASSUME NEW t \in Thread PROVE AWaking'[t] = AWaking[t]
    <3>1. CASE t = me
      BY Zenon, <1>2, <2>2, <3>1, WakingFacts DEF WakingIs
    <3>2. CASE t # me
      <4>1. Range(queue[c]) = {}
        BY <1>9 DEF Range
      <4>2. Unsignalled(t)' <=> Unsignalled(t)
        BY <1>3, <2>1, <2>2, <2>3, <2>4, <3>2, <4>1 DEF Unsignalled
      <4> QED
        BY <2>2, <3>2, <4>2, WakingFacts DEF WakingIs
    <3> QED
      BY Zenon, <3>1, <3>2
  <2> QED
    BY <1>5, <1>6, <1>7, <2>5, <2>6, WakingEquals DEF MonitorStep
<1> QED
  BY <1>8, <1>9

\* Only the thread that runs leaves a lock or a routine, and a broadcaster
\* leaves neither before its loop ends.
LEMMA BroadcasterStep ==
  ASSUME SynchInv, SynchInv', BroadcasterInv, SynchOp
  PROVE  BroadcasterInv'
<1> DEFINE Keeps == \A t \in Thread :
              \/ doing'[t] = doing[t] /\ held[t] \subseteq held'[t]
              \/ doing'[t].op # "Broadcast"
              \/ CondLock[doing'[t].obj] \in held'[t]
<1>1. SUFFICES Keeps
  BY Zenon DEF BroadcasterInv
<1>2. ASSUME NEW s \in Sem, NEW r \in {"P", "Reacquire"}, TryP(s, r), currentThread \in Thread
      PROVE  Keeps
  <2>1. /\ doing'[currentThread].op # "Broadcast"
        /\ \A t \in Thread : t # currentThread => doing'[t] = doing[t] /\ held'[t] = held[t]
    BY <1>2 DEF TryP, Become, None, SynchInv, SynchTypeOK
  <2> QED
    BY Zenon, <2>1
<1>3. ASSUME NEW s \in Sem, P(s) PROVE Keeps
  BY Zenon, <1>2, <1>3, CallerFacts DEF P
<1>4. CASE UNCHANGED <<doing, held>>
  BY Zenon, <1>4
<1>5. ASSUME InCode, NEW l, held' = [held EXCEPT ![currentThread] = @ \ {l}],
             doing' = doing \/ \E c : Become([op |-> "Wait", obj |-> c])
      PROVE  Keeps
  <2>1. currentThread \in Thread /\ doing[currentThread].op = "none"
    BY Zenon, <1>5, CallerFacts
  <2>2. doing'[currentThread].op \in {"none", "Wait"}
    BY <1>5, <2>1 DEF Become, SynchInv, SynchTypeOK
  <2>3. \A t \in Thread : t # currentThread => doing'[t] = doing[t] /\ held'[t] = held[t]
    BY Zenon, <1>5, <2>1 DEF Become, SynchInv, SynchTypeOK
  <2> QED
    BY Zenon, <2>2, <2>3
<1>6. ASSUME NEW c \in Condition, BroadcastLoop(c), currentThread \in Thread,
             CondLock[c] \in held[currentThread]
      PROVE  Keeps
  <2>1. /\ held' = held
        /\ doing'[currentThread].op = "none" \/ doing'[currentThread].obj = c
        /\ \A t \in Thread : t # currentThread => doing'[t] = doing[t]
    BY <1>6 DEF BroadcastLoop, Become, None, SynchInv, SynchTypeOK
  <2> QED
    BY Zenon, <1>6, <2>1
<1>7. ASSUME NEW c \in Condition, Broadcast(c) PROVE Keeps
  BY Zenon, <1>6, <1>7, CallerFacts DEF Broadcast
<1>8. CASE ResumeP
  <2>1. currentThread \in Thread
    BY Zenon, <1>8, ResumedFacts DEF ResumeP
  <2>2. /\ TryP(doing[currentThread].obj, doing[currentThread].op)
        /\ doing[currentThread].op \in {"P", "Reacquire"} /\ doing[currentThread].obj \in Sem
    BY Zenon, <1>8, <2>1 DEF ResumeP, SynchInv, DoingInv, Sem
  <2> QED
    BY Zenon, <1>2, <2>1, <2>2
<1>9. CASE ResumeWait
  <2>1. currentThread \in Thread
    BY Zenon, <1>9, ResumedFacts DEF ResumeWait
  <2>2. /\ TryP(CondLock[doing[currentThread].obj], "Reacquire")
        /\ CondLock[doing[currentThread].obj] \in Sem
    BY Zenon, <1>9, <2>1 DEF ResumeWait, SynchInv, DoingInv, Sem
  <2> QED
    BY Zenon, <1>2, <2>1, <2>2
<1>10. CASE ResumeBroadcast
  <2>1. currentThread \in Thread
    BY Zenon, <1>10, ResumedFacts DEF ResumeBroadcast
  <2>2. /\ BroadcastLoop(doing[currentThread].obj) /\ doing[currentThread].obj \in Condition
        /\ CondLock[doing[currentThread].obj] \in held[currentThread]
    BY <1>10, <2>1 DEF ResumeBroadcast, SynchInv, DoingInv, BroadcasterInv
  <2> QED
    BY Zenon, <1>6, <2>1, <2>2
<1>11. ASSUME NEW l \in Lock, Release(l) PROVE Keeps
  BY Zenon, <1>5, <1>11 DEF Release
<1>12. ASSUME NEW c \in Condition, Wait(c) PROVE Keeps
  BY Zenon, <1>5, <1>12 DEF Wait
<1>13. (\E s \in Semaphore : V(s)) \/ (\E c \in Condition : Signal(c))
          \/ (\E d \in Device : DeviceV(d)) => UNCHANGED <<doing, held>>
  BY DEF V, Signal, DeviceV
<1> QED
  BY Zenon, <1>3, <1>4, <1>7, <1>8, <1>9, <1>10, <1>11, <1>12, <1>13 DEF SynchOp

\* Each step of a routine is one step of Monitor, or none.
LEMMA SynchOpView ==
  ASSUME SynchInv, SynchInv', BroadcasterInv, SynchOp
  PROVE  MonitorStep
<1>1. ASSUME NEW s \in Sem, P(s) PROVE MonitorStep
  BY <1>1, CallerFacts, TakeView DEF P
<1>2. ASSUME NEW s \in Semaphore, DoV(s), UNCHANGED <<owner, doing>> PROVE MonitorStep
  <2>1. Abstract!MonitorNext
    BY <1>2, GiveView, AbstractV DEF Sem
  <2> QED
    BY <2>1 DEF MonitorStep
<1>3. ASSUME NEW s \in Semaphore, V(s) PROVE MonitorStep
  BY Zenon, <1>2, <1>3 DEF V
<1>4. ASSUME NEW d \in Device, DeviceV(d) PROVE MonitorStep
  <2>1. DevSem[d] \in Semaphore
    OBVIOUS
  <2> QED
    BY <1>2, <1>4, <2>1 DEF DeviceV
<1>5. ASSUME NEW l \in Lock, Release(l) PROVE MonitorStep
  <2>1. /\ DoV(l) /\ InCode /\ l \in held[currentThread] /\ doing' = doing
        /\ owner' = [owner EXCEPT ![l] = NULL]
    BY Zenon, <1>5 DEF Release
  <2>2. UNCHANGED <<AValue, AWaiting, AWaking>>
    BY Zenon, <2>1, GiveView DEF Sem
  <2>3. currentThread \in Thread /\ AFree(currentThread)
    BY Zenon, <2>1, CallerFacts, FreeFacts
  <2>4. owner[l] = currentThread
    BY <2>1, <2>3 DEF SynchInv, MutualExclusion
  <2>5. Abstract!MonitorNext
    BY Zenon, <2>1, <2>2, <2>3, <2>4, AbstractRelease
  <2> QED
    BY <2>5 DEF MonitorStep
<1>6. CASE ResumeP
  <2>1. PICK s, r : s = doing[currentThread].obj /\ r = doing[currentThread].op
    BY Zenon
  <2>2. currentThread \in Thread /\ r \in {"P", "Reacquire"} /\ TryP(s, r)
    BY Zenon, <1>6, <2>1, ResumedFacts DEF ResumeP
  <2>3. CASE r = "P"
    <3>1. s \in Sem
      BY Zenon, <2>1, <2>2, <2>3 DEF SynchInv, DoingInv
    <3> QED
      BY <2>1, <2>2, <2>3, <3>1, TakeView
  <2>4. CASE r = "Reacquire"
    <3>1. s \in Lock
      BY Zenon, <2>1, <2>2, <2>4 DEF SynchInv, DoingInv
    <3>2. AWaking[currentThread] = s
      BY Zenon, <2>1, <2>2, <2>4, WakingFacts DEF WakingIs
    <3> QED
      BY <2>1, <2>2, <2>4, <3>1, <3>2, ReturnView
  <2> QED
    BY <2>2, <2>3, <2>4
<1>7. CASE ResumeWait
  <2>1. PICK c, l : c = doing[currentThread].obj /\ l = CondLock[c]
    BY Zenon
  <2>2. /\ currentThread \in Thread /\ doing[currentThread].op = "Wait"
        /\ TryP(l, "Reacquire") /\ \A o \in Object : currentThread \notin Range(queue[o])
    BY Zenon, <1>7, <2>1, ResumedFacts DEF ResumeWait
  <2>3. c \in Condition /\ l \in Lock
    BY Zenon, <2>1, <2>2 DEF SynchInv, DoingInv
  <2>4. ~Unsignalled(currentThread)
    BY Zenon, <2>1, <2>2, <2>3 DEF Unsignalled, Object
  <2>5. AWaking[currentThread] = l
    BY <2>1, <2>2, <2>4, WakingFacts DEF WakingIs
  <2> QED
    BY <2>2, <2>3, <2>5, ReturnView
<1> QED
  BY Zenon, <1>1, <1>3, <1>4, <1>5, <1>6, <1>7, WaitView, SignalView, BroadcastView,
     ResumeBroadcastView DEF SynchOp
=============================================================================
