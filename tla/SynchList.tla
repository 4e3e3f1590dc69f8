------------------------------ MODULE SynchList ------------------------------
(***************************************************************************)
(* The synchronized list of threads/synchlist.cc: Append, Remove and       *)
(* Mapcar under one lock and the condition listEmpty.  Items are numbered  *)
(* in the order in which Append puts them on the list.                     *)
(***************************************************************************)
EXTENDS Client

CONSTANTS
  lock, listEmpty,
  MaxItems       \* bound: items ever appended

ASSUME SynchListAssumption ==
  /\ lock \in Lock /\ listEmpty \in Condition /\ CondLock[listEmpty] = lock
  /\ MaxItems \in Nat /\ IsFiniteSet(Thread)

VARIABLES
  list,          \* SynchList::list
  appended,      \* how many items have been appended so far
  removed        \* the item the last Remove to finish returned

listVars == <<list, appended, removed>>

ListTypeOK ==
  /\ list \in Seq(1 .. MaxItems)
  /\ appended \in 0 .. MaxItems
  /\ removed \in 0 .. MaxItems

ListInit ==
  /\ list = <<>>
  /\ appended = 0
  /\ removed = 0

\* The bound: items appended and Appends under way.
ItemsLeft ==
  appended + Cardinality({t \in Thread : pc[t] \in {"Append", "append"}}) < MaxItems

\* Append, Remove or Mapcar is called.
CallList(t) ==
  /\ \/ Step(t, "idle", "Append") /\ ItemsLeft
     \/ Step(t, "idle", "Remove")
     \/ Step(t, "idle", "Mapcar")
  /\ UNCHANGED <<monitorVars, list, appended, removed>>

ListAcquire(t) ==
  /\ \/ Step(t, "Append", "append")
     \/ Step(t, "Remove", "test")
     \/ Step(t, "Mapcar", "Release")
  /\ Acquire(t, lock)
  /\ UNCHANGED <<list, appended, removed>>

ListRelease(t) ==
  /\ Step(t, "Release", "idle")
  /\ Release(t, lock)
  /\ UNCHANGED <<list, appended, removed>>

\* Mutant: Append signals only when the list was empty.
Wake_OnlyIfEmpty(t) ==
  \/ list = <<>> /\ Signal(t, listEmpty)
  \/ list # <<>> /\ UNCHANGED monitorVars

Wake(t) == Signal(t, listEmpty)

Put(item) == list' = Append(list, item)

DoAppend(t) ==
  /\ Step(t, "append", "Release")
  /\ Put(appended + 1)
  /\ Wake(t)
  /\ appended' = appended + 1
  /\ UNCHANGED removed

WaitEmpty(t) ==
  /\ Step(t, "test", "Wait") \/ Step(t, "retest", "Wait")
  /\ list = <<>>
  /\ Wait(t, listEmpty)
  /\ UNCHANGED <<list, appended, removed>>

WokenUp(t) ==
  /\ Step(t, "Wait", "retest")
  /\ WaitReturns(t)
  /\ UNCHANGED <<list, appended, removed>>

\* The end of the while loop in Remove.
Ready(t) == list # <<>>

\* List::Remove returns NULL from an empty list (item 0).
DoRemove(t) ==
  /\ Step(t, "test", "idle") \/ Step(t, "retest", "idle")
  /\ Ready(t)
  /\ removed' = IF list = <<>> THEN 0 ELSE Head(list)
  /\ list' = IF list = <<>> THEN <<>> ELSE Tail(list)
  /\ Release(t, lock)
  /\ UNCHANGED appended

ListNext ==
  \E t \in Thread :
    \/ CallList(t) \/ ListAcquire(t) \/ ListRelease(t) \/ DoAppend(t)
    \/ WaitEmpty(t) \/ WokenUp(t) \/ DoRemove(t)

\* The list by itself; module Clients runs it beside other services.
ListSpec ==
  /\ MonitorInit /\ ListInit /\ pc = [t \in Thread |-> "idle"]
  /\ [][ListNext]_<<monitorVars, pc, listVars>>

-----------------------------------------------------------------------------
(* Properties.                                                             *)

\* Remove returns every item once, in the order of the Appends, and never the
\* NULL its assertion excludes.
InOrder ==
  /\ [][removed' # removed => removed' = removed + 1]_listVars
  /\ [](list = [i \in 1 .. appended - removed |-> removed + i])

\* The threads that have been signalled and have not yet looked at the list.
OnTheirWay == {t \in Thread : pc[t] = "retest" \/ waking[t] # NULL}

\* A thread waits for an item only if every item on the list has a signalled
\* thread coming for it: Append's one Signal per item is enough even when
\* other threads' Removes slip in before the signalled ones.
NobodyWaitsForNothing ==
  waiting[listEmpty] # <<>> => Len(list) <= Cardinality(OnTheirWay)

\* SynchList hands every item to one Remove, in order, and keeps no thread
\* waiting beside an item that nobody is coming for.
ListExact == InOrder /\ [](ListTypeOK /\ NobodyWaitsForNothing)
==============================================================================
