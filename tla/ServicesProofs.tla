---------------------------- MODULE ServicesProofs ----------------------------
(***************************************************************************)
(* Proofs about three clients of the monitors, each on its own and for any *)
(* number of threads: the synchronized list, the barrier and the message   *)
(* table.                                                                  *)
(***************************************************************************)
EXTENDS SynchList, Barrier, Messages, FiniteSetTheorems, TLAPS

USE MonitorAssumption

-----------------------------------------------------------------------------
(* The queue of a condition.                                               *)

\* List::Append adds exactly its argument, and keeps a list without
\* repetitions free of them when the argument is not on the list.
LEMMA AppendFacts ==
  ASSUME NEW S, NEW s \in Seq(S), NEW e \in S
  PROVE  /\ Append(s, e) \in Seq(S)
         /\ Append(s, e) # <<>>
         /\ Range(Append(s, e)) = Range(s) \cup {e}
         /\ IsInjective(s) /\ e \notin Range(s) => IsInjective(Append(s, e))
<1>1. /\ Append(s, e) \in Seq(S)
      /\ Append(s, e) # <<>>
      /\ Len(Append(s, e)) = Len(s) + 1
      /\ \A i \in 1 .. Len(s) : Append(s, e)[i] = s[i]
      /\ Append(s, e)[Len(s) + 1] = e
  OBVIOUS
<1>2. /\ Len(s) \in Nat
      /\ DOMAIN s = 1 .. Len(s)
      /\ DOMAIN Append(s, e) = 1 .. Len(s) + 1
  BY <1>1
<1>3. Range(Append(s, e)) = Range(s) \cup {e}
  BY <1>1, <1>2 DEF Range
<1>4. ASSUME IsInjective(s), e \notin Range(s)
      PROVE  IsInjective(Append(s, e))
  BY <1>1, <1>2, <1>4 DEF IsInjective, Range
<1> QED
  BY <1>1, <1>3, <1>4

\* List::Remove on a nonempty list without repetitions takes away exactly
\* the first element.
LEMMA TailFacts ==
  ASSUME NEW S, NEW s \in Seq(S), s # <<>>, IsInjective(s)
  PROVE  /\ Head(s) \in S
         /\ Head(s) \in Range(s)
         /\ Tail(s) \in Seq(S)
         /\ Range(Tail(s)) = Range(s) \ {Head(s)}
         /\ IsInjective(Tail(s))
<1>1. /\ Head(s) \in S
      /\ Tail(s) \in Seq(S)
      /\ Len(Tail(s)) = Len(s) - 1
      /\ \A i \in 1 .. Len(Tail(s)) : Tail(s)[i] = s[i + 1]
  OBVIOUS
<1>2. /\ Len(s) \in Nat \ {0}
      /\ DOMAIN s = 1 .. Len(s)
      /\ DOMAIN Tail(s) = 1 .. Len(s) - 1
  BY <1>1
<1>3. Head(s) = s[1]
  BY <1>2
<1>4. Head(s) \in Range(s)
  BY <1>2, <1>3 DEF Range
<1>5. ASSUME NEW x \in Range(Tail(s))  PROVE  x \in Range(s) \ {Head(s)}
  <2>1. PICK i \in 1 .. Len(s) - 1 : x = s[i + 1]
    BY <1>1, <1>2, <1>5 DEF Range
  <2> QED
    BY <1>2, <1>3, <2>1 DEF Range, IsInjective
<1>6. ASSUME NEW x \in Range(s) \ {Head(s)}  PROVE  x \in Range(Tail(s))
  <2>1. PICK i \in 1 .. Len(s) : x = s[i] /\ i # 1
    BY <1>2, <1>3, <1>6 DEF Range
  <2>2. i - 1 \in 1 .. Len(s) - 1 /\ Tail(s)[i - 1] = s[i]
    BY <1>1, <1>2, <2>1
  <2> QED
    BY Zenon, <1>2, <2>1, <2>2 DEF Range
<1>7. IsInjective(Tail(s))
  BY <1>1, <1>2 DEF IsInjective
<1> QED
  BY <1>1, <1>4, <1>5, <1>6, <1>7

\* A list holds elements of its type only.
LEMMA QueueRange ==
  ASSUME NEW S, NEW s \in Seq(S)
  PROVE  Range(s) \subseteq S
BY DEF Range

\* Two lists of the same length with the same elements are the same.
LEMMA SameList ==
  ASSUME NEW S, NEW s \in Seq(S), NEW u \in Seq(S), Len(s) = Len(u),
         \A i \in 1 .. Len(s) : s[i] = u[i]
  PROVE  s = u
OBVIOUS

-----------------------------------------------------------------------------
(* SynchList.                                                              *)

USE SynchListAssumption

ListLabel == {"idle", "Append", "append", "Remove", "test", "Wait", "retest", "Mapcar",
          "Release"}

ListLocked == {"append", "test", "retest", "Release"}

ListTypeInv ==
  /\ MonitorTypeOK
  /\ pc \in [Thread -> ListLabel]
  /\ appended \in Nat /\ removed \in Nat /\ removed <= appended

\* One thread at a time works on the list.
ListHolderInv == \A t \in Thread : holder[lock] = t <=> pc[t] \in ListLocked

\* The threads queued on listEmpty, and those signalled, are inside Wait.
ListWaitInv ==
  /\ IsInjective(waiting[listEmpty])
  /\ \A t \in Range(waiting[listEmpty]) : pc[t] = "Wait" /\ waking[t] = NULL
  /\ \A t \in Thread : waking[t] # NULL => pc[t] = "Wait" /\ waking[t] = lock

\* The list holds the items appended and not yet removed, in order.
Items(r, a) == [i \in 1 .. a - r |-> r + i]
OrderInv == list = Items(removed, appended)

Appending == {t \in Thread : pc[t] \in {"Append", "append"}}
BoundInv == appended + Cardinality(Appending) <= MaxItems

ListInv == /\ ListTypeInv /\ ListHolderInv /\ ListWaitInv /\ OrderInv /\ BoundInv
           /\ NobodyWaitsForNothing

\* A run of consecutive numbers as a list: Append and Remove at its ends.
LEMMA ItemsFacts ==
  ASSUME NEW r \in Nat, NEW a \in Nat, r <= a
  PROVE  /\ Items(r, a) \in Seq(Nat)
         /\ \A N \in Nat : a <= N => Items(r, a) \in Seq(1 .. N)
         /\ Len(Items(r, a)) = a - r
         /\ Items(r, a) = <<>> <=> r = a
         /\ Append(Items(r, a), a + 1) = Items(r, a + 1)
         /\ r # a => Head(Items(r, a)) = r + 1 /\ Tail(Items(r, a)) = Items(r + 1, a)
<1>1. Items(r, a) \in Seq(Nat) /\ Len(Items(r, a)) = a - r
  BY DEF Items
<1>2. ASSUME NEW N \in Nat, a <= N PROVE Items(r, a) \in Seq(1 .. N)
  BY <1>2 DEF Items
<1>3. Items(r, a) = <<>> <=> r = a
  BY <1>1
<1>4. Append(Items(r, a), a + 1) = Items(r, a + 1)
  <2>1. Items(r, a + 1) \in Seq(Nat) /\ Len(Items(r, a + 1)) = a + 1 - r
    BY DEF Items
  <2>2. /\ Append(Items(r, a), a + 1) \in Seq(Nat)
        /\ Len(Append(Items(r, a), a + 1)) = a + 1 - r
        /\ \A i \in 1 .. a - r : Append(Items(r, a), a + 1)[i] = Items(r, a)[i]
        /\ Append(Items(r, a), a + 1)[a - r + 1] = a + 1
    BY <1>1
  <2>3. \A i \in 1 .. a + 1 - r : Append(Items(r, a), a + 1)[i] = Items(r, a + 1)[i]
    BY <2>2 DEF Items
  <2> QED
    BY Zenon, <2>1, <2>2, <2>3, SameList
<1>5. ASSUME r # a
      PROVE  Head(Items(r, a)) = r + 1 /\ Tail(Items(r, a)) = Items(r + 1, a)
  <2>1. Items(r + 1, a) \in Seq(Nat) /\ Len(Items(r + 1, a)) = a - r - 1
    BY <1>5 DEF Items
  <2>2. /\ Tail(Items(r, a)) \in Seq(Nat)
        /\ Len(Tail(Items(r, a))) = a - r - 1
        /\ \A i \in 1 .. a - r - 1 : Tail(Items(r, a))[i] = Items(r, a)[i + 1]
    BY <1>1, <1>3, <1>5
  <2>3. \A i \in 1 .. a - r - 1 : Tail(Items(r, a))[i] = Items(r + 1, a)[i]
    BY <2>2 DEF Items
  <2>4. Tail(Items(r, a)) = Items(r + 1, a)
    BY Zenon, <2>1, <2>2, <2>3, SameList
  <2>5. Head(Items(r, a)) = Items(r, a)[1]
    BY <1>1, <1>3, <1>5
  <2>6. Items(r, a)[1] = r + 1
    BY <1>5 DEF Items
  <2> QED
    BY <2>4, <2>5, <2>6
<1> QED
  BY <1>1, <1>2, <1>3, <1>4, <1>5

\* Nobody has called the list, and it is empty.
LEMMA InitListInv ==
  ASSUME MonitorInit, ListInit, pc = [t \in Thread |-> "idle"]
  PROVE  ListInv
<1>1. ListTypeInv
  BY DEF MonitorInit, ListInit, ListTypeInv, MonitorTypeOK, ListLabel
<1>2. ListHolderInv
  BY DEF MonitorInit, ListHolderInv, ListLocked
<1>3. waiting[listEmpty] = <<>>
  BY DEF MonitorInit
<1>4. ListWaitInv
  BY <1>3 DEF MonitorInit, ListWaitInv, Range, IsInjective
<1>5. OrderInv
  <2>1. Items(0, 0) = <<>>
    BY ItemsFacts
  <2> QED
    BY <2>1 DEF ListInit, OrderInv
<1>6. BoundInv
  <2>1. Appending = {}
    BY DEF Appending
  <2> QED
    BY <2>1, FS_EmptySet DEF ListInit, BoundInv
<1>7. NobodyWaitsForNothing
  BY <1>3 DEF NobodyWaitsForNothing
<1> QED
  BY <1>1, <1>2, <1>4, <1>5, <1>6, <1>7 DEF ListInv

\* The sets of threads that are counted are finite.
LEMMA SetsFinite ==
  /\ IsFiniteSet(Appending) /\ Cardinality(Appending) \in Nat
  /\ IsFiniteSet(OnTheirWay) /\ Cardinality(OnTheirWay) \in Nat
BY FS_Subset, FS_CardinalityType DEF Appending, OnTheirWay

\* A step that concerns neither the list nor the condition.
LEMMA ListQuietStep ==
  ASSUME ListInv, NEW t \in Thread, NEW b \in ListLabel, pc' = [pc EXCEPT ![t] = b],
         UNCHANGED <<waiting, waking, list, appended, removed>>,
         pc[t] \notin {"Wait", "retest"}, b \notin {"Wait", "retest"}
  PROVE  /\ ListWaitInv' /\ OrderInv' /\ NobodyWaitsForNothing'
         /\ (pc[t] \in {"Append", "append"} <=> b \in {"Append", "append"}) => BoundInv'
<1>1. pc'[t] = b /\ \A u \in Thread : u # t => pc'[u] = pc[u]
  BY DEF ListInv, ListTypeInv
<1>2. ListWaitInv'
  <2>1. t \notin Range(waiting[listEmpty]) /\ waking[t] = NULL
    BY DEF ListInv, ListWaitInv
  <2>2. Range(waiting[listEmpty]) \subseteq Thread
    BY QueueRange DEF ListInv, ListTypeInv, MonitorTypeOK
  <2> QED
    BY <1>1, <2>1, <2>2 DEF ListInv, ListWaitInv
<1>3. OrderInv'
  BY DEF ListInv, OrderInv
<1>4. NobodyWaitsForNothing'
  <2>1. OnTheirWay' = OnTheirWay
    BY <1>1 DEF OnTheirWay
  <2> QED
    BY <2>1 DEF ListInv, NobodyWaitsForNothing
<1>5. ASSUME pc[t] \in {"Append", "append"} <=> b \in {"Append", "append"}
      PROVE  BoundInv'
  <2>1. Appending' = Appending
    BY <1>1, <1>5 DEF Appending
  <2> QED
    BY <2>1 DEF ListInv, BoundInv
<1> QED
  BY <1>2, <1>3, <1>4, <1>5

\* Append, Remove or Mapcar is called; the bound leaves room for an Append.
LEMMA CallListKeepsInv ==
  ASSUME ListInv, NEW t \in Thread, CallList(t)
  PROVE  ListInv'
<1>1. PICK b \in {"Append", "Remove", "Mapcar"} :
        /\ pc[t] = "idle" /\ pc' = [pc EXCEPT ![t] = b]
        /\ b = "Append" => ItemsLeft
        /\ UNCHANGED <<value, holder, waiting, waking, list, appended, removed>>
  BY DEF CallList, Step, monitorVars
<1>2. b \in ListLabel /\ pc'[t] = b /\ \A u \in Thread : u # t => pc'[u] = pc[u]
  BY <1>1 DEF ListInv, ListTypeInv, ListLabel
<1>3. ListTypeInv' /\ ListHolderInv'
  BY <1>1, <1>2 DEF ListInv, ListTypeInv, MonitorTypeOK, ListHolderInv, ListLocked
<1>4. ListWaitInv' /\ OrderInv' /\ NobodyWaitsForNothing' /\ (b # "Append" => BoundInv')
  BY Zenon, <1>1, <1>2, ListQuietStep
<1>5. ASSUME b = "Append" PROVE BoundInv'
  <2>1. Appending' = Appending \cup {t} /\ t \notin Appending
    BY <1>1, <1>2, <1>5 DEF Appending
  <2>2. Cardinality(Appending') = Cardinality(Appending) + 1
    BY Zenon, <2>1, SetsFinite, FS_AddElement
  <2> QED
    BY <1>1, <1>5, <2>2, SetsFinite DEF ItemsLeft, Appending, BoundInv, ListInv, ListTypeInv
<1> QED
  BY <1>3, <1>4, <1>5 DEF ListInv

\* Acquire: nobody else works on the list.
LEMMA ListAcquireKeepsInv ==
  ASSUME ListInv, NEW t \in Thread, ListAcquire(t)
  PROVE  ListInv'
<1>1. PICK b \in {"append", "test", "Release"} :
        /\ pc' = [pc EXCEPT ![t] = b]
        /\ pc[t] \in {"Append", "Remove", "Mapcar"}
        /\ pc[t] = "Append" <=> b = "append"
        /\ holder[lock] = NULL
        /\ holder' = [holder EXCEPT ![lock] = t]
        /\ UNCHANGED <<value, waiting, waking, list, appended, removed>>
  BY DEF ListAcquire, Step, Acquire
<1>2. b \in ListLabel
  BY DEF ListLabel
<1>3. ListTypeInv' /\ ListHolderInv'
  BY <1>1, <1>2 DEF ListInv, ListTypeInv, MonitorTypeOK, ListHolderInv, ListLocked
<1>4. ListWaitInv' /\ OrderInv' /\ NobodyWaitsForNothing' /\ BoundInv'
  BY Zenon, <1>1, <1>2, ListQuietStep
<1> QED
  BY <1>3, <1>4 DEF ListInv

\* Release, at the end of Append and of Mapcar.
LEMMA ListReleaseKeepsInv ==
  ASSUME ListInv, NEW t \in Thread, ListRelease(t)
  PROVE  ListInv'
<1>1. /\ pc[t] = "Release" /\ pc' = [pc EXCEPT ![t] = "idle"]
      /\ holder' = [holder EXCEPT ![lock] = NULL]
      /\ UNCHANGED <<value, waiting, waking, list, appended, removed>>
  BY DEF ListRelease, Step, Release
<1>2. "idle" \in ListLabel
  BY DEF ListLabel
<1>3. ListTypeInv' /\ ListHolderInv'
  BY <1>1, <1>2 DEF ListInv, ListTypeInv, MonitorTypeOK, ListHolderInv, ListLocked
<1>4. ListWaitInv' /\ OrderInv' /\ NobodyWaitsForNothing' /\ BoundInv'
  BY Zenon, <1>1, <1>2, ListQuietStep
<1> QED
  BY <1>3, <1>4 DEF ListInv

\* Append puts one item on the list and wakes one thread for it, if one waits.
LEMMA DoAppendKeepsInv ==
  ASSUME ListInv, NEW t \in Thread, DoAppend(t)
  PROVE  ListInv'
<1>0. PICK q : q = waiting[listEmpty]
  OBVIOUS
<1>1. /\ pc[t] = "append" /\ pc' = [pc EXCEPT ![t] = "Release"]
      /\ list' = Append(list, appended + 1)
      /\ appended' = appended + 1
      /\ UNCHANGED <<value, holder, removed>>
      /\ \/ /\ q # <<>>
            /\ waking' = [waking EXCEPT ![Head(q)] = lock]
            /\ waiting' = [waiting EXCEPT ![listEmpty] = Tail(q)]
         \/ q = <<>> /\ UNCHANGED <<waking, waiting>>
  BY <1>0 DEF DoAppend, Step, Put, Wake, Signal
<1>2. "Release" \in ListLabel /\ pc'[t] = "Release" /\ \A u \in Thread : u # t => pc'[u] = pc[u]
  BY <1>1 DEF ListInv, ListTypeInv, ListLabel
<1>3. q \in Seq(Thread) /\ IsInjective(q) /\ Range(q) \subseteq Thread
  BY <1>0, QueueRange DEF ListInv, ListTypeInv, MonitorTypeOK, ListWaitInv
<1>4. q # <<>> => /\ Head(q) \in Thread /\ Head(q) \in Range(q)
                  /\ Tail(q) \in Seq(Thread) /\ IsInjective(Tail(q))
                  /\ Range(Tail(q)) = Range(q) \ {Head(q)}
  BY <1>3, TailFacts
<1>5. t \notin Range(q) /\ waking[t] = NULL
  BY <1>0, <1>1 DEF ListInv, ListWaitInv
<1>6. ListTypeInv' /\ ListHolderInv'
  <2>1. waking' \in [Thread -> Lock \cup {NULL}] /\ waiting' \in [Condition -> Seq(Thread)]
    <3>1. /\ waking \in [Thread -> Lock \cup {NULL}]
          /\ waiting \in [Condition -> Seq(Thread)]
      BY DEF ListInv, ListTypeInv, MonitorTypeOK
    <3>2. CASE q # <<>>
      <4>1. \A h \in Thread : [waking EXCEPT ![h] = lock] \in [Thread -> Lock \cup {NULL}]
        BY <3>1
      <4>2. \A r \in Seq(Thread) :
              [waiting EXCEPT ![listEmpty] = r] \in [Condition -> Seq(Thread)]
        BY <3>1
      <4>3. /\ waking' = [waking EXCEPT ![Head(q)] = lock]
            /\ waiting' = [waiting EXCEPT ![listEmpty] = Tail(q)]
        BY <1>1, <3>2, Zenon
      <4> QED
        BY <1>4, <3>2, <4>1, <4>2, <4>3, Zenon
    <3>3. CASE q = <<>>
      BY <1>1, <3>1, <3>3
    <3> QED
      BY <3>2, <3>3
  <2>2. appended' \in Nat /\ removed' \in Nat /\ removed' <= appended'
    BY <1>1 DEF ListInv, ListTypeInv
  <2> QED
    BY Zenon, <1>1, <1>2, <2>1, <2>2 DEF ListInv, ListTypeInv, MonitorTypeOK, ListHolderInv, ListLocked
<1>7. ListWaitInv'
  <2>1. CASE q # <<>>
    <3>1. /\ waiting'[listEmpty] = Tail(q)
          /\ waking'[Head(q)] = lock
          /\ \A u \in Thread : u # Head(q) => waking'[u] = waking[u]
      BY <1>1, <1>4, <2>1 DEF ListInv, ListTypeInv, MonitorTypeOK
    <3> QED
      BY <1>0, <1>2, <1>3, <1>4, <1>5, <2>1, <3>1 DEF ListInv, ListWaitInv
  <2>2. CASE q = <<>>
    <3>1. waiting' = waiting /\ waking' = waking
      BY <1>1, <2>2
    <3> QED
      BY <1>0, <1>2, <1>3, <1>5, <3>1 DEF ListInv, ListWaitInv
  <2> QED
    BY <2>1, <2>2
<1>8. OrderInv' /\ Len(list') = Len(list) + 1 /\ Len(list) \in Nat
  <2>1. /\ list = Items(removed, appended)
        /\ removed \in Nat /\ appended \in Nat /\ removed <= appended
    BY DEF ListInv, OrderInv, ListTypeInv
  <2>2. appended + 1 \in Nat /\ removed <= appended + 1
    BY <2>1
  <2>3. /\ Append(Items(removed, appended), appended + 1) = Items(removed, appended + 1)
        /\ Len(Items(removed, appended)) = appended - removed
    BY <2>1, ItemsFacts, Zenon
  <2>4. Len(Items(removed, appended + 1)) = appended + 1 - removed
    <3>1. \A r, a \in Nat : r <= a => Len(Items(r, a)) = a - r
      BY Zenon, ItemsFacts
    <3> QED
      BY <2>1, <2>2, <3>1
  <2>5. list' = Items(removed, appended + 1)
    BY <1>1, <2>1, <2>3, Zenon
  <2>6. OrderInv'
    BY <1>1, <2>5 DEF OrderInv
  <2>7. Len(list') = appended + 1 - removed /\ Len(list) = appended - removed
    BY <2>1, <2>3, <2>4, <2>5, Zenon
  <2> QED
    BY <2>1, <2>6, <2>7
<1>9. BoundInv'
  <2>1. Appending' = Appending \ {t} /\ t \in Appending
    BY <1>1, <1>2 DEF Appending
  <2>2. Cardinality(Appending') = Cardinality(Appending) - 1
    BY Zenon, <2>1, SetsFinite, FS_RemoveElement
  <2> QED
    BY <1>1, <2>2, SetsFinite DEF ListInv, ListTypeInv, BoundInv
<1>10. NobodyWaitsForNothing'
  <2>1. CASE q # <<>>
    <3>1. /\ waking'[Head(q)] = lock
          /\ \A u \in Thread : u # Head(q) => waking'[u] = waking[u]
      BY <1>1, <1>4, <2>1 DEF ListInv, ListTypeInv, MonitorTypeOK
    <3>2. Head(q) \notin OnTheirWay
      BY <1>0, <1>4, <2>1 DEF ListInv, ListWaitInv, OnTheirWay
    <3>3. OnTheirWay' = OnTheirWay \cup {Head(q)}
      BY <1>1, <1>2, <1>4, <2>1, <3>1 DEF OnTheirWay
    <3>4. Cardinality(OnTheirWay') = Cardinality(OnTheirWay) + 1
      BY Zenon, <3>2, <3>3, SetsFinite, FS_AddElement
    <3>5. Len(list) <= Cardinality(OnTheirWay)
      BY <1>0, <2>1 DEF ListInv, NobodyWaitsForNothing
    <3> QED
      BY <1>8, <3>4, <3>5, SetsFinite DEF NobodyWaitsForNothing
  <2>2. CASE q = <<>>
    BY Zenon, <1>0, <1>1, <2>2 DEF NobodyWaitsForNothing
  <2> QED
    BY <2>1, <2>2
<1> QED
  BY <1>6, <1>7, <1>8, <1>9, <1>10 DEF ListInv

\* Remove finds the list empty and waits.
LEMMA WaitEmptyKeepsInv ==
  ASSUME ListInv, NEW t \in Thread, WaitEmpty(t)
  PROVE  ListInv'
<1>0. PICK q : q = waiting[listEmpty]
  OBVIOUS
<1>1. /\ pc[t] \in {"test", "retest"} /\ pc' = [pc EXCEPT ![t] = "Wait"]
      /\ list = <<>>
      /\ holder' = [holder EXCEPT ![lock] = NULL]
      /\ waiting' = [waiting EXCEPT ![listEmpty] = Append(q, t)]
      /\ UNCHANGED <<value, waking, list, appended, removed>>
  BY <1>0 DEF WaitEmpty, Step, Wait
<1>2. "Wait" \in ListLabel /\ pc'[t] = "Wait" /\ \A u \in Thread : u # t => pc'[u] = pc[u]
  BY <1>1 DEF ListInv, ListTypeInv, ListLabel
<1>3. q \in Seq(Thread) /\ IsInjective(q) /\ Range(q) \subseteq Thread
  BY <1>0, QueueRange DEF ListInv, ListTypeInv, MonitorTypeOK, ListWaitInv
<1>4. t \notin Range(q) /\ waking[t] = NULL
  BY <1>0, <1>1 DEF ListInv, ListWaitInv
<1>5. /\ Append(q, t) \in Seq(Thread) /\ IsInjective(Append(q, t))
      /\ Range(Append(q, t)) = Range(q) \cup {t}
  BY <1>3, <1>4, AppendFacts
<1>6. ListTypeInv' /\ ListHolderInv'
  <2>1. waiting' \in [Condition -> Seq(Thread)]
    BY <1>1, <1>5 DEF ListInv, ListTypeInv, MonitorTypeOK
  <2> QED
    BY <1>1, <1>2, <2>1 DEF ListInv, ListTypeInv, MonitorTypeOK, ListHolderInv, ListLocked
<1>7. ListWaitInv'
  <2>1. waiting'[listEmpty] = Append(q, t)
    BY <1>1 DEF ListInv, ListTypeInv, MonitorTypeOK
  <2> QED
    BY <1>0, <1>1, <1>2, <1>3, <1>4, <1>5, <2>1 DEF ListInv, ListWaitInv
<1>8. OrderInv'
  BY Zenon, <1>1 DEF ListInv, OrderInv
<1>9. BoundInv'
  <2>1. Appending' = Appending
    BY <1>1, <1>2 DEF Appending
  <2> QED
    BY <1>1, <2>1 DEF ListInv, BoundInv
<1>10. NobodyWaitsForNothing'
  <2>1. OnTheirWay' \subseteq Thread
    BY DEF OnTheirWay
  <2>2. Cardinality(OnTheirWay') \in Nat
    BY <2>1, FS_Subset, FS_CardinalityType
  <2>3. Len(list') = 0
    BY <1>1
  <2> QED
    BY <2>2, <2>3 DEF NobodyWaitsForNothing
<1> QED
  BY <1>6, <1>7, <1>8, <1>9, <1>10 DEF ListInv

\* A signalled thread has the lock again and looks at the list once more.
LEMMA WokenUpKeepsInv ==
  ASSUME ListInv, NEW t \in Thread, WokenUp(t)
  PROVE  ListInv'
<1>1. waking[t] = lock
  BY DEF WokenUp, WaitReturns, ListInv, ListWaitInv
<1>2. /\ pc[t] = "Wait" /\ pc' = [pc EXCEPT ![t] = "retest"]
      /\ holder[lock] = NULL
      /\ holder' = [holder EXCEPT ![lock] = t]
      /\ waking' = [waking EXCEPT ![t] = NULL]
      /\ UNCHANGED <<value, waiting, list, appended, removed>>
  BY <1>1 DEF WokenUp, Step, WaitReturns
<1>3. /\ "retest" \in ListLabel /\ pc'[t] = "retest" /\ waking'[t] = NULL
      /\ \A u \in Thread : u # t => pc'[u] = pc[u] /\ waking'[u] = waking[u]
  BY <1>2 DEF ListInv, ListTypeInv, MonitorTypeOK, ListLabel
<1>4. ListTypeInv' /\ ListHolderInv'
  BY <1>2, <1>3 DEF ListInv, ListTypeInv, MonitorTypeOK, ListHolderInv, ListLocked
<1>5. ListWaitInv'
  <2>1. t \notin Range(waiting[listEmpty])
    BY <1>1 DEF ListInv, ListWaitInv
  <2>2. Range(waiting[listEmpty]) \subseteq Thread
    BY QueueRange DEF ListInv, ListTypeInv, MonitorTypeOK
  <2> QED
    BY <1>2, <1>3, <2>1, <2>2 DEF ListInv, ListWaitInv
<1>6. OrderInv'
  BY <1>2 DEF ListInv, OrderInv
<1>7. BoundInv'
  <2>1. Appending' = Appending
    BY <1>2, <1>3 DEF Appending
  <2> QED
    BY <1>2, <2>1 DEF ListInv, BoundInv
<1>8. NobodyWaitsForNothing'
  <2>1. OnTheirWay' = OnTheirWay
    BY <1>1, <1>2, <1>3 DEF OnTheirWay
  <2> QED
    BY <1>2, <2>1 DEF ListInv, NobodyWaitsForNothing
<1> QED
  BY <1>4, <1>5, <1>6, <1>7, <1>8 DEF ListInv

\* What Remove takes off a list that is not empty.
LEMMA RemoveFacts ==
  ASSUME ListInv, NEW t \in Thread, DoRemove(t)
  PROVE  /\ removed' = removed + 1 /\ removed' <= appended
         /\ list' = Items(removed', appended)
         /\ Len(list') = Len(list) - 1 /\ Len(list) \in Nat
<1>1. /\ list = Items(removed, appended)
      /\ removed \in Nat /\ appended \in Nat /\ removed <= appended
  BY DEF ListInv, OrderInv, ListTypeInv
<1>2. list # <<>> /\ removed' = Head(list) /\ list' = Tail(list)
  BY DEF DoRemove, Ready
<1>3. removed # appended
  BY <1>1, <1>2, ItemsFacts, Zenon
<1>4. /\ Head(Items(removed, appended)) = removed + 1
      /\ Tail(Items(removed, appended)) = Items(removed + 1, appended)
      /\ Len(Items(removed, appended)) = appended - removed
  <2>1. \A r, a \in Nat : r <= a /\ r # a =>
          /\ Head(Items(r, a)) = r + 1
          /\ Tail(Items(r, a)) = Items(r + 1, a)
          /\ Len(Items(r, a)) = a - r
    BY Zenon, ItemsFacts
  <2> QED
    BY <1>1, <1>3, <2>1, Zenon
<1>5. removed' = removed + 1 /\ list' = Items(removed + 1, appended)
  BY <1>1, <1>2, <1>4, Zenon
<1>6. Len(Items(removed + 1, appended)) = appended - (removed + 1)
  <2>1. \A r, a \in Nat : r <= a => Len(Items(r, a)) = a - r
    BY Zenon, ItemsFacts
  <2> QED
    BY <1>1, <1>3, <2>1
<1>7. Len(list') = appended - (removed + 1) /\ Len(list) = appended - removed
  BY <1>1, <1>4, <1>5, <1>6, Zenon
<1>8. list' = Items(removed', appended)
  BY <1>5, Zenon
<1> QED
  BY <1>1, <1>3, <1>5, <1>7, <1>8

\* Remove takes the first item, whether or not it had to wait.
LEMMA DoRemoveKeepsInv ==
  ASSUME ListInv, NEW t \in Thread, DoRemove(t)
  PROVE  ListInv'
<1>1. /\ pc[t] \in {"test", "retest"} /\ pc' = [pc EXCEPT ![t] = "idle"]
      /\ holder' = [holder EXCEPT ![lock] = NULL]
      /\ UNCHANGED <<value, waiting, waking, appended>>
  BY DEF DoRemove, Step, Release
<1>2. "idle" \in ListLabel /\ pc'[t] = "idle" /\ \A u \in Thread : u # t => pc'[u] = pc[u]
  BY <1>1 DEF ListInv, ListTypeInv, ListLabel
<1>3. waking[t] = NULL /\ t \notin Range(waiting[listEmpty])
  BY <1>1 DEF ListInv, ListWaitInv
<1>4. ListTypeInv' /\ ListHolderInv'
  <2>1. appended' \in Nat /\ removed' \in Nat /\ removed' <= appended'
    BY <1>1, RemoveFacts DEF ListInv, ListTypeInv
  <2> QED
    BY <1>1, <1>2, <2>1 DEF ListInv, ListTypeInv, MonitorTypeOK, ListHolderInv, ListLocked
<1>5. ListWaitInv'
  <2>1. Range(waiting[listEmpty]) \subseteq Thread
    BY QueueRange DEF ListInv, ListTypeInv, MonitorTypeOK
  <2> QED
    BY <1>1, <1>2, <1>3, <2>1 DEF ListInv, ListWaitInv
<1>6. OrderInv'
  BY <1>1, RemoveFacts DEF OrderInv
<1>7. BoundInv'
  <2>1. Appending' = Appending
    BY <1>1, <1>2 DEF Appending
  <2> QED
    BY <1>1, <2>1 DEF ListInv, BoundInv
<1>8. NobodyWaitsForNothing'
  <2>1. OnTheirWay' = OnTheirWay \ {t}
    BY <1>1, <1>2, <1>3 DEF OnTheirWay
  <2>2. Cardinality(OnTheirWay') \in {Cardinality(OnTheirWay), Cardinality(OnTheirWay) - 1}
    BY Zenon, <2>1, SetsFinite, FS_RemoveElement
  <2>3. waiting[listEmpty] # <<>> => Len(list) <= Cardinality(OnTheirWay)
    BY DEF ListInv, NobodyWaitsForNothing
  <2>4. Len(list') = Len(list) - 1 /\ Len(list) \in Nat
    BY RemoveFacts
  <2> QED
    BY <1>1, <2>2, <2>3, <2>4, SetsFinite DEF NobodyWaitsForNothing
<1> QED
  BY <1>4, <1>5, <1>6, <1>7, <1>8 DEF ListInv

\* The inductive invariant of the list: its items, the lock, the queue of the
\* condition and the threads on their way.
THEOREM SynchListCorrect == ListSpec => []ListInv
<1> DEFINE vars == <<monitorVars, pc, listVars>>
<1>1. MonitorInit /\ ListInit /\ pc = [t \in Thread |-> "idle"] => ListInv
  BY InitListInv
<1>2. ListInv /\ [ListNext]_vars => ListInv'
  <2>1. ASSUME ListInv, ListNext PROVE ListInv'
    BY <2>1, CallListKeepsInv, ListAcquireKeepsInv, ListReleaseKeepsInv, DoAppendKeepsInv,
       WaitEmptyKeepsInv, WokenUpKeepsInv, DoRemoveKeepsInv DEF ListNext
  <2>2. ASSUME ListInv, UNCHANGED vars PROVE ListInv'
    <3> USE <2>2 DEF monitorVars, listVars
    <3>1. ListTypeInv' /\ ListHolderInv' /\ ListWaitInv' /\ OrderInv'
      BY DEF ListInv, ListTypeInv, MonitorTypeOK, ListHolderInv, ListWaitInv, OrderInv
    <3>2. Appending' = Appending /\ OnTheirWay' = OnTheirWay
      BY DEF Appending, OnTheirWay
    <3>3. BoundInv' /\ NobodyWaitsForNothing'
      BY <3>2 DEF ListInv, BoundInv, NobodyWaitsForNothing
    <3> QED
      BY <3>1, <3>3 DEF ListInv
  <2> QED
    BY <2>1, <2>2
<1> QED
  BY <1>1, <1>2, PTL DEF ListSpec

\* SynchList hands out every item once and in order, and nobody sleeps beside an
\* item no signalled thread is coming for, for any number of threads and items.
THEOREM ListIsExact == ListSpec => ListExact
<1> DEFINE vars == <<monitorVars, pc, listVars>>
<1>1. ListInv /\ [ListNext]_vars => [removed' # removed => removed' = removed + 1]_listVars
  <2> SUFFICES ASSUME ListInv, [ListNext]_vars
               PROVE  removed' = removed \/ removed' = removed + 1
    OBVIOUS
  <2>1. ASSUME NEW t \in Thread, DoRemove(t) PROVE removed' = removed + 1
    BY <2>1, RemoveFacts
  <2> QED
    BY <2>1 DEF ListNext, CallList, ListAcquire, ListRelease, DoAppend, WaitEmpty, WokenUp,
                listVars
<1>2. ListInv => /\ list = [i \in 1 .. appended - removed |-> removed + i]
                 /\ ListTypeOK /\ NobodyWaitsForNothing
  <2> SUFFICES ASSUME ListInv
               PROVE  /\ list = [i \in 1 .. appended - removed |-> removed + i]
                      /\ ListTypeOK /\ NobodyWaitsForNothing
    OBVIOUS
  <2>1. appended \in Nat /\ removed \in Nat /\ removed <= appended /\ appended <= MaxItems
    BY SetsFinite DEF ListInv, ListTypeInv, BoundInv
  <2>2. list = Items(removed, appended)
    BY DEF ListInv, OrderInv
  <2>3. Items(removed, appended) \in Seq(1 .. MaxItems)
    BY <2>1, ItemsFacts
  <2>4. ListTypeOK
    BY <2>1, <2>2, <2>3 DEF ListTypeOK
  <2> QED
    BY <2>2, <2>4 DEF ListInv, Items
<1> QED
  BY <1>1, <1>2, SynchListCorrect, PTL DEF ListSpec, ListExact, InOrder

HIDE SynchListAssumption


-----------------------------------------------------------------------------
(* Barrier.                                                                *)

USE BarrierAssumption

BarrierLabel == {"idle", "Barrier.Acquire", "Barrier.count", "Barrier.Wait", "Barrier.Release"}

BarrierTypeInv == MonitorTypeOK /\ BarrierTypeOK /\ pc \in [Thread -> BarrierLabel]

\* A thread has returned from all its calls but the one it is in.
CallsInv ==
  \A t \in Thread : calls[t] = IF pc[t] = "idle" THEN passed[t] ELSE passed[t] + 1

\* Before the barrier opens nobody is on the way out.
ClosedInv ==
  barrierCnt < max_num =>
    \A t \in Thread : pc[t] # "Barrier.Release" /\ passed[t] = 0 /\ waking[t] = NULL

QueueInv ==
  Len(waiting[barrierCond]) =
    IF barrierCnt < max_num THEN barrierCnt ELSE barrierCnt - max_num

BarrierInv == BarrierTypeInv /\ CallsInv /\ ClosedInv /\ QueueInv

\* Nobody has called Barrier.
LEMMA InitBarrierInv ==
  ASSUME MonitorInit, BarrierInit, pc = [t \in Thread |-> "idle"]
  PROVE  BarrierInv
<1>1. BarrierTypeInv
  BY DEF MonitorInit, BarrierInit, BarrierTypeInv, MonitorTypeOK, BarrierTypeOK, BarrierLabel
<1>2. CallsInv /\ ClosedInv
  BY DEF MonitorInit, BarrierInit, CallsInv, ClosedInv
<1>3. QueueInv
  <2>1. waiting[barrierCond] = <<>> /\ Len(<<>>) = 0
    BY DEF MonitorInit
  <2> QED
    BY <2>1 DEF BarrierInit, QueueInv
<1> QED
  BY <1>1, <1>2, <1>3 DEF BarrierInv

\* Barrier is called, and takes the lock.
LEMMA EnterKeepsInv ==
  ASSUME BarrierInv, NEW t \in Thread, CallBarrier(t) \/ BarrierAcquire(t)
  PROVE  BarrierInv'
<1>1. CASE CallBarrier(t)
  <2>1. /\ pc[t] = "idle" /\ pc' = [pc EXCEPT ![t] = "Barrier.Acquire"]
        /\ calls[t] < MaxCalls
        /\ calls' = [calls EXCEPT ![t] = @ + 1]
        /\ UNCHANGED <<value, holder, waiting, waking, barrierCnt, passed>>
    BY <1>1 DEF CallBarrier, Step, monitorVars
  <2>2. BarrierTypeInv'
    BY <2>1 DEF BarrierInv, BarrierTypeInv, MonitorTypeOK, BarrierTypeOK, BarrierLabel
  <2>3. CallsInv' /\ ClosedInv' /\ QueueInv'
    BY <2>1 DEF BarrierInv, BarrierTypeInv, BarrierTypeOK, CallsInv, ClosedInv, QueueInv
  <2> QED
    BY <2>2, <2>3 DEF BarrierInv
<1>2. CASE BarrierAcquire(t)
  <2>1. /\ pc[t] = "Barrier.Acquire" /\ pc' = [pc EXCEPT ![t] = "Barrier.count"]
        /\ holder' = [holder EXCEPT ![barrierLock] = t]
        /\ UNCHANGED <<value, waiting, waking, barrierCnt, calls, passed>>
    BY <1>2 DEF BarrierAcquire, Step, Acquire
  <2>2. BarrierTypeInv'
    BY <2>1 DEF BarrierInv, BarrierTypeInv, MonitorTypeOK, BarrierTypeOK, BarrierLabel
  <2>3. CallsInv' /\ ClosedInv' /\ QueueInv'
    BY <2>1 DEF BarrierInv, BarrierTypeInv, CallsInv, ClosedInv, QueueInv
  <2> QED
    BY <2>2, <2>3 DEF BarrierInv
<1> QED
  BY <1>1, <1>2

\* A thread arrives: the one that makes the count max_num empties the queue, any
\* other joins it.
LEMMA ArriveKeepsInv ==
  ASSUME BarrierInv, NEW t \in Thread, Arrive(t)
  PROVE  BarrierInv'
<1>0. PICK q : q = waiting[barrierCond]
  OBVIOUS
<1>1. q \in Seq(Thread) /\ barrierCnt \in Nat /\ barrierCnt' = barrierCnt + 1
  BY <1>0 DEF Arrive, BarrierInv, BarrierTypeInv, MonitorTypeOK, BarrierTypeOK
<1>2. CASE /\ Step(t, "Barrier.count", "Barrier.Release")
           /\ Full(barrierCnt') /\ Open(t)
  <2>1. /\ pc[t] = "Barrier.count" /\ pc' = [pc EXCEPT ![t] = "Barrier.Release"]
        /\ barrierCnt' = max_num
        /\ waking' = [u \in Thread |-> IF u \in Range(q) THEN barrierLock ELSE waking[u]]
        /\ waiting' = [waiting EXCEPT ![barrierCond] = <<>>]
        /\ UNCHANGED <<value, holder, calls, passed>>
    BY <1>0, <1>2 DEF Arrive, Step, Full, Open, Broadcast
  <2>2. BarrierTypeInv'
    <3>1. waking' \in [Thread -> Lock \cup {NULL}]
      BY <2>1 DEF BarrierInv, BarrierTypeInv, MonitorTypeOK
    <3>2. waiting' \in [Condition -> Seq(Thread)]
      BY <2>1 DEF BarrierInv, BarrierTypeInv, MonitorTypeOK
    <3> QED
      BY <1>1, <2>1, <3>1, <3>2 DEF BarrierInv, BarrierTypeInv, MonitorTypeOK, BarrierTypeOK, BarrierLabel
  <2>3. CallsInv' /\ ClosedInv'
    BY <2>1 DEF BarrierInv, BarrierTypeInv, CallsInv, ClosedInv
  <2>4. QueueInv'
    <3>1. waiting'[barrierCond] = <<>> /\ Len(<<>>) = 0
      BY <2>1 DEF BarrierInv, BarrierTypeInv, MonitorTypeOK
    <3> QED
      BY <2>1, <3>1 DEF QueueInv
  <2> QED
    BY <2>2, <2>3, <2>4 DEF BarrierInv
<1>3. CASE /\ Step(t, "Barrier.count", "Barrier.Wait")
           /\ ~Full(barrierCnt') /\ Wait(t, barrierCond)
  <2>1. /\ pc[t] = "Barrier.count" /\ pc' = [pc EXCEPT ![t] = "Barrier.Wait"]
        /\ barrierCnt' # max_num
        /\ holder' = [holder EXCEPT ![barrierLock] = NULL]
        /\ waiting' = [waiting EXCEPT ![barrierCond] = Append(q, t)]
        /\ UNCHANGED <<value, waking, calls, passed>>
    BY <1>0, <1>3 DEF Arrive, Step, Full, Wait
  <2>2. Append(q, t) \in Seq(Thread) /\ Len(Append(q, t)) = Len(q) + 1
    BY <1>1
  <2>3. BarrierTypeInv'
    <3>1. waiting' \in [Condition -> Seq(Thread)]
      BY <2>1, <2>2 DEF BarrierInv, BarrierTypeInv, MonitorTypeOK
    <3> QED
      BY <1>1, <2>1, <3>1 DEF BarrierInv, BarrierTypeInv, MonitorTypeOK, BarrierTypeOK, BarrierLabel
  <2>4. CallsInv' /\ ClosedInv'
    BY <1>1, <2>1 DEF BarrierInv, BarrierTypeInv, CallsInv, ClosedInv
  <2>5. QueueInv'
    <3>1. waiting'[barrierCond] = Append(q, t)
      BY <2>1 DEF BarrierInv, BarrierTypeInv, MonitorTypeOK
    <3>2. Len(waiting'[barrierCond]) = Len(waiting[barrierCond]) + 1
      BY <1>0, <2>2, <3>1, Zenon
    <3> QED
      BY <1>1, <2>1, <3>2 DEF BarrierInv, QueueInv
  <2> QED
    BY <2>3, <2>4, <2>5 DEF BarrierInv
<1> QED
  BY <1>2, <1>3 DEF Arrive

\* A woken thread has the lock again: the barrier is open.
LEMMA WokenKeepsInv ==
  ASSUME BarrierInv, NEW t \in Thread, Woken(t)
  PROVE  BarrierInv'
<1>1. /\ pc[t] = "Barrier.Wait" /\ pc' = [pc EXCEPT ![t] = "Barrier.Release"]
      /\ waking[t] # NULL
      /\ holder' = [holder EXCEPT ![waking[t]] = t]
      /\ waking' = [waking EXCEPT ![t] = NULL]
      /\ UNCHANGED <<value, waiting, barrierCnt, calls, passed>>
  BY DEF Woken, Step, WaitReturns
<1>2. ~(barrierCnt < max_num)
  BY <1>1 DEF BarrierInv, ClosedInv
<1>3. BarrierTypeInv'
  BY <1>1 DEF BarrierInv, BarrierTypeInv, MonitorTypeOK, BarrierTypeOK, BarrierLabel
<1>4. CallsInv' /\ ClosedInv' /\ QueueInv'
  BY <1>1, <1>2 DEF BarrierInv, BarrierTypeInv, CallsInv, ClosedInv, QueueInv
<1> QED
  BY <1>3, <1>4 DEF BarrierInv

\* Barrier returns.
LEMMA BarrierReleaseKeepsInv ==
  ASSUME BarrierInv, NEW t \in Thread, BarrierRelease(t)
  PROVE  BarrierInv'
<1>1. /\ pc[t] = "Barrier.Release" /\ pc' = [pc EXCEPT ![t] = "idle"]
      /\ holder' = [holder EXCEPT ![barrierLock] = NULL]
      /\ passed' = [passed EXCEPT ![t] = @ + 1]
      /\ UNCHANGED <<value, waiting, waking, barrierCnt, calls>>
  BY DEF BarrierRelease, Step, Release
<1>2. ~(barrierCnt < max_num)
  BY <1>1 DEF BarrierInv, ClosedInv
<1>3. passed[t] + 1 \in 0 .. MaxCalls
  BY <1>1 DEF BarrierInv, CallsInv, BarrierTypeInv, BarrierTypeOK
<1>4. BarrierTypeInv'
  BY <1>1, <1>3 DEF BarrierInv, BarrierTypeInv, MonitorTypeOK, BarrierTypeOK, BarrierLabel
<1>5. CallsInv' /\ ClosedInv' /\ QueueInv'
  BY <1>1, <1>2 DEF BarrierInv, BarrierTypeInv, BarrierTypeOK, CallsInv, ClosedInv, QueueInv
<1> QED
  BY <1>4, <1>5 DEF BarrierInv

\* Nobody passes before max_num threads have arrived, and the barrier opens once:
\* whoever arrives after the first max_num stays on the queue of its condition.
THEOREM BarrierOpensOnce == BarrierSpec => []OpensOnce
<1> DEFINE vars == <<monitorVars, pc, barrierVars>>
<1>1. MonitorInit /\ BarrierInit /\ pc = [t \in Thread |-> "idle"] => BarrierInv
  BY InitBarrierInv
<1>2. BarrierInv /\ [BarrierNext]_vars => BarrierInv'
  <2>1. ASSUME BarrierInv, BarrierNext PROVE BarrierInv'
    BY <2>1, EnterKeepsInv, ArriveKeepsInv, WokenKeepsInv, BarrierReleaseKeepsInv
       DEF BarrierNext
  <2>2. ASSUME BarrierInv, UNCHANGED vars PROVE BarrierInv'
    BY <2>2 DEF BarrierInv, BarrierTypeInv, MonitorTypeOK, BarrierTypeOK, CallsInv, ClosedInv,
                QueueInv, monitorVars, barrierVars
  <2> QED
    BY <2>1, <2>2
<1>3. BarrierInv => OpensOnce
  <2> SUFFICES ASSUME BarrierInv PROVE OpensOnce
    OBVIOUS
  <2>1. ASSUME NEW t \in Thread, pc[t] = "Barrier.Release" \/ passed[t] > 0
        PROVE  barrierCnt >= max_num
    <3>1. passed[t] \in Nat /\ barrierCnt \in Nat
      BY DEF BarrierInv, BarrierTypeInv, BarrierTypeOK
    <3>2. ~(barrierCnt < max_num)
      BY <2>1, <3>1 DEF BarrierInv, ClosedInv
    <3> QED
      BY <3>1, <3>2
  <2> QED
    BY <2>1 DEF BarrierInv, BarrierTypeInv, QueueInv, OpensOnce
<1> QED
  BY <1>1, <1>2, <1>3, PTL DEF BarrierSpec

HIDE BarrierAssumption

-----------------------------------------------------------------------------
(* Messages.                                                               *)

USE MessagesAssumption

Entry == [des : Thread, n : 1 .. sent, gets : 0 .. Len(got)]

TableInv ==
  /\ sent \in Nat
  /\ got \in Seq(1 .. sent) /\ IsInjective(got)
  /\ DOMAIN msg \subseteq Slot /\ IsFiniteSet(DOMAIN msg)
  /\ msg \in [DOMAIN msg -> Entry]

\* Every message sent is in one place.
OncePerMessage ==
  /\ \A i, j \in DOMAIN msg : msg[i].n = msg[j].n => i = j
  /\ \A i \in DOMAIN msg, k \in DOMAIN got : msg[i].n # got[k]
  /\ \A m \in 1 .. sent : \/ \E i \in DOMAIN msg : msg[i].n = m
                          \/ \E k \in DOMAIN got : got[k] = m

\* A message above a free slot was sent before some GetMsg freed the slot.
FreeBelow ==
  \A i \in DOMAIN msg, k \in Slot \ DOMAIN msg : k < i => msg[i].gets < Len(got)

Overtaking ==
  \A i, j \in DOMAIN msg : i < j /\ msg[i].n > msg[j].n => msg[i].gets > msg[j].gets

MessagesInv == TableInv /\ OncePerMessage /\ FreeBelow /\ Overtaking

\* The loops over the table find its lowest free, or matching, entry.
LEMMA LowestSlot ==
  ASSUME NEW S \in SUBSET Nat, S # {}
  PROVE  FirstIn(S) \in S /\ \A j \in S : FirstIn(S) <= j
<1>1. PICK R : R = {ss \in Nat \X Nat : ss[1] < ss[2]}
  BY Zenon
<1>2. IsWellFoundedOn(R, Nat)
  BY <1>1, NatLessThanWellFounded DEF OpToRel
<1>3. PICK i \in S : \A j \in S : ~(<<j, i>> \in R)
  BY Zenon, <1>2, WFMin
<1>4. ASSUME NEW j \in S PROVE i <= j
  <2>1. <<j, i>> \in Nat \X Nat /\ <<j, i>>[1] = j /\ <<j, i>>[2] = i
    OBVIOUS
  <2>2. ~(j < i)
    BY <1>1, <1>3, <2>1
  <2> QED
    BY <2>1, <2>2
<1> QED
  BY Zenon, <1>4 DEF FirstIn

\* The invariant holds of an empty server.
LEMMA InitMessagesInv == MessagesInit => MessagesInv
BY FS_EmptySet DEF MessagesInit, MessagesInv, TableInv, OncePerMessage, FreeBelow,
                   Overtaking, IsInjective, Entry

\* SendMsg fills the lowest free slot.
LEMMA SendMsgKeepsInv ==
  ASSUME MessagesInv, NEW t \in Thread, NEW des \in Thread, SendMsg(t, des)
  PROVE  MessagesInv'
<1> USE DEF MessagesInv
<1>1. PICK k : k = FirstIn(Slot \ DOMAIN msg)
  OBVIOUS
<1>2. k \in Slot /\ k \notin DOMAIN msg /\ \A j \in Slot \ DOMAIN msg : k <= j
  BY Zenon, <1>1, LowestSlot DEF SendMsg
<1>3. PICK e : e = [des |-> des, n |-> sent + 1, gets |-> Len(got)]
  BY Zenon
<1>4. sent' = sent + 1 /\ got' = got /\ sent \in Nat
      /\ msg' = [i \in DOMAIN msg \cup {k} |-> IF i \in DOMAIN msg THEN msg[i] ELSE e]
  BY <1>1, <1>3 DEF SendMsg, TableInv
<1>5. /\ DOMAIN msg' = DOMAIN msg \cup {k}
      /\ msg'[k] = e
      /\ \A i \in DOMAIN msg : msg'[i] = msg[i]
  BY <1>2, <1>4
<1>6. /\ k \in Nat /\ DOMAIN msg \subseteq Nat
      /\ e.n = sent + 1 /\ e.gets = Len(got) /\ e.des = des
      /\ Len(got) \in Nat /\ DOMAIN got = 1 .. Len(got)
      /\ \A i \in DOMAIN got : got[i] \in 1 .. sent
  BY <1>2, <1>3 DEF TableInv
<1>7. \A i \in DOMAIN msg : msg[i].n \in 1 .. sent /\ msg[i].gets \in 0 .. Len(got)
  BY DEF TableInv, Entry
<1>8. TableInv'
  <2>1. IsFiniteSet(DOMAIN msg')
    <3>1. IsFiniteSet(DOMAIN msg)
      BY DEF TableInv
    <3>2. IsFiniteSet(DOMAIN msg \cup {k})
      BY <3>1, FS_AddElement
    <3> QED
      BY <1>5, <3>2
  <2>2. got' \in Seq(1 .. sent') /\ IsInjective(got')
    BY <1>4, <1>6 DEF TableInv
  <2>3. \A i \in DOMAIN msg' : msg'[i] \in Entry'
    <3>1. \A i \in DOMAIN msg : msg[i] \in Entry'
      BY <1>4 DEF TableInv, Entry
    <3>2. e \in Entry'
      BY <1>3, <1>4, <1>6 DEF Entry
    <3> QED
      BY <1>5, <3>1, <3>2
  <2>4. msg' \in [DOMAIN msg' -> Entry']
    BY Zenon, <1>4, <1>5, <2>3
  <2> QED
    BY <1>2, <1>4, <1>5, <2>1, <2>2, <2>4 DEF TableInv
<1>9. OncePerMessage'
  <2>1. \A i, j \in DOMAIN msg' : msg'[i].n = msg'[j].n => i = j
    BY <1>4, <1>5, <1>6, <1>7 DEF OncePerMessage
  <2>2. \A i \in DOMAIN msg', m \in DOMAIN got' : msg'[i].n # got'[m]
    BY <1>4, <1>5, <1>6 DEF OncePerMessage
  <2>3. ASSUME NEW m \in 1 .. sent'
        PROVE  \/ \E i \in DOMAIN msg' : msg'[i].n = m
               \/ \E i \in DOMAIN got' : got'[i] = m
    <3>1. CASE m = sent + 1
      BY <1>5, <1>6, <3>1
    <3>2. CASE m \in 1 .. sent
      BY <1>4, <1>5, <3>2 DEF OncePerMessage
    <3> QED
      <4>1. m = sent + 1 \/ m \in 1 .. sent
        BY <1>4, <2>3
      <4> QED
        BY Zenon, <3>1, <3>2, <4>1
  <2> QED
    BY <2>1, <2>2, <2>3 DEF OncePerMessage
<1>10. FreeBelow'
  <2> SUFFICES ASSUME NEW i \in DOMAIN msg', NEW j \in Slot \ DOMAIN msg', j < i
               PROVE  msg'[i].gets < Len(got')
    BY DEF FreeBelow
  <2>1. j \in Slot \ DOMAIN msg /\ k <= j
    BY <1>2, <1>5
  <2>2. i \in DOMAIN msg
    BY <1>2, <1>5, <1>6, <2>1
  <2> QED
    BY Zenon, <1>4, <1>5, <2>1, <2>2 DEF FreeBelow
<1>11. Overtaking'
  BY <1>2, <1>4, <1>5, <1>6, <1>7 DEF Overtaking, FreeBelow
<1> QED
  BY <1>8, <1>9, <1>10, <1>11

\* GetMsg takes the caller's lowest entry, and every message that stays was
\* sent before this one was received.
LEMMA GetMsgKeepsInv ==
  ASSUME MessagesInv, NEW t \in Thread, GetMsg(t)
  PROVE  MessagesInv'
<1> USE DEF MessagesInv
<1>1. PICK k : k = FirstIn({i \in DOMAIN msg : msg[i].des = t})
  BY Zenon
<1>2. k \in DOMAIN msg
  <2>1. {i \in DOMAIN msg : msg[i].des = t} \in SUBSET Nat
    BY DEF TableInv
  <2>2. {i \in DOMAIN msg : msg[i].des = t} # {}
    BY DEF GetMsg
  <2>3. k \in {i \in DOMAIN msg : msg[i].des = t}
    BY <1>1, <2>1, <2>2, LowestSlot
  <2> QED
    BY <2>3
<1>3. /\ sent' = sent /\ got' = Append(got, msg[k].n)
      /\ msg' = [i \in DOMAIN msg \ {k} |-> msg[i]]
  BY <1>1 DEF GetMsg, Invalidate, Restrict
<1>4. /\ DOMAIN msg' = DOMAIN msg \ {k}
      /\ \A i \in DOMAIN msg \ {k} : msg'[i] = msg[i]
  BY <1>3
<1>5. /\ sent \in Nat /\ got \in Seq(1 .. sent)
      /\ Len(got) \in Nat /\ DOMAIN got = 1 .. Len(got)
      /\ \A i \in DOMAIN msg : msg[i].n \in 1 .. sent /\ msg[i].gets \in 0 .. Len(got)
  BY DEF TableInv, Entry
<1>6. PICK n, g : n = Len(got) /\ g = got' /\ n \in Nat
  BY Zenon, <1>5
<1>7. /\ g \in Seq(1 .. sent) /\ Len(g) = n + 1
      /\ DOMAIN got = 1 .. n /\ DOMAIN g = 1 .. n + 1
      /\ g[n + 1] = msg[k].n
      /\ \A i \in 1 .. n : g[i] = got[i]
  BY <1>2, <1>3, <1>5, <1>6
<1>8. TableInv'
  <2>1. IsFiniteSet(DOMAIN msg')
    <3>1. IsFiniteSet(DOMAIN msg)
      BY DEF TableInv
    <3>2. IsFiniteSet(DOMAIN msg \ {k})
      BY <3>1, FS_RemoveElement
    <3> QED
      BY <1>4, <3>2
  <2>2. IsInjective(got')
    <3>1. \A i \in 1 .. n : got[i] # msg[k].n
      BY <1>2, <1>7 DEF OncePerMessage
    <3>2. \A i, j \in 1 .. n : got[i] = got[j] => i = j
      BY <1>7 DEF TableInv, IsInjective
    <3>3. ASSUME NEW i \in 1 .. n + 1, NEW j \in 1 .. n + 1, g[i] = g[j]
          PROVE  i = j
      BY <1>6, <1>7, <3>1, <3>2, <3>3
    <3> QED
      BY <1>6, <1>7, <3>3 DEF IsInjective
  <2>3. \A i \in DOMAIN msg' : msg'[i] \in Entry'
    BY <1>3, <1>4, <1>5, <1>6, <1>7 DEF TableInv, Entry
  <2>4. msg' \in [DOMAIN msg' -> Entry']
    BY <1>3, <1>4, <2>3
  <2> QED
    BY <1>3, <1>4, <1>5, <1>6, <1>7, <2>1, <2>2, <2>4 DEF TableInv
<1>9. OncePerMessage'
  <2>1. \A i, j \in DOMAIN msg' : msg'[i].n = msg'[j].n => i = j
    BY <1>4 DEF OncePerMessage
  <2>2. \A i \in DOMAIN msg', m \in DOMAIN got' : msg'[i].n # got'[m]
    <3>1. \A i \in DOMAIN msg \ {k}, m \in 1 .. n : msg[i].n # got[m]
      BY <1>7 DEF OncePerMessage
    <3>2. \A i \in DOMAIN msg \ {k} : msg[i].n # msg[k].n
      BY <1>2 DEF OncePerMessage
    <3>3. \A i \in DOMAIN msg \ {k}, m \in 1 .. n + 1 : msg[i].n # g[m]
      BY <1>6, <1>7, <3>1, <3>2
    <3> QED
      BY <1>4, <1>6, <1>7, <3>3
  <2>3. ASSUME NEW m \in 1 .. sent'
        PROVE  \/ \E i \in DOMAIN msg' : msg'[i].n = m
               \/ \E i \in DOMAIN got' : got'[i] = m
    <3>1. CASE \E i \in DOMAIN got : got[i] = m
      BY <1>5, <1>6, <1>7, <3>1
    <3>2. CASE msg[k].n = m
      <4>1. n + 1 \in DOMAIN got' /\ got'[n + 1] = m
        BY <1>6, <1>7, <3>2
      <4> QED
        BY <4>1
    <3>3. CASE \E i \in DOMAIN msg \ {k} : msg[i].n = m
      BY <1>4, <3>3
    <3> QED
      <4>1. \/ \E i \in DOMAIN msg : msg[i].n = m
            \/ \E i \in DOMAIN got : got[i] = m
        BY <1>3, <2>3 DEF OncePerMessage
      <4> QED
        BY Zenon, <3>1, <3>2, <3>3, <4>1
  <2> QED
    BY Zenon, <2>1, <2>2, <2>3 DEF OncePerMessage
<1>10. FreeBelow'
  BY <1>4, <1>5, <1>6, <1>7 DEF FreeBelow
<1>11. Overtaking'
  BY <1>4 DEF Overtaking
<1> QED
  BY <1>8, <1>9, <1>10, <1>11

\* The invariant is inductive.
THEOREM MessagesCorrect == MessagesSpec => []MessagesInv
<1>1. MessagesInit => MessagesInv
  BY InitMessagesInv
<1>2. ASSUME MessagesInv, [MessagesNext]_<<monitorVars, pc, messageVars>>
      PROVE  MessagesInv'
  <2>1. CASE MessagesNext
    BY <1>2, <2>1, SendMsgKeepsInv, GetMsgKeepsInv DEF MessagesNext
  <2>2. CASE UNCHANGED messageVars
    BY <1>2, <2>2 DEF messageVars, MessagesInv, TableInv, OncePerMessage, FreeBelow,
                      Overtaking, Entry
  <2> QED
    BY <1>2, <2>1, <2>2
<1> QED
  BY <1>1, <1>2, PTL DEF MessagesSpec

\* What the table promises follows from the invariant.
LEMMA InvGivesMessagesExact ==
  ASSUME MessagesInv
  PROVE  MessagesExact
<1> USE DEF MessagesInv
<1>1. PICK there : there = {msg[i].n : i \in DOMAIN msg}
  BY Zenon
<1>2. /\ sent \in Nat /\ got \in Seq(1 .. sent)
      /\ Len(got) \in Nat /\ DOMAIN got = 1 .. Len(got)
      /\ \A i \in DOMAIN msg : msg[i].n \in 1 .. sent
  BY DEF TableInv, Entry
<1>3. Cardinality(there) = Cardinality(DOMAIN msg)
  <2>1. PICK f : f = [i \in DOMAIN msg |-> msg[i].n]
    BY Zenon
  <2>2. f \in Bijection(DOMAIN msg, there)
    BY <1>1, <2>1 DEF OncePerMessage, Bijection, Injection, Surjection, IsInjective
  <2>3. ExistsBijection(DOMAIN msg, there)
    BY <2>2 DEF ExistsBijection
  <2>4. IsFiniteSet(DOMAIN msg)
    BY DEF TableInv
  <2> QED
    BY <2>3, <2>4, FS_Bijection
<1>4. Cardinality(Range(got)) = Len(got)
  <2>1. got \in Bijection(1 .. Len(got), Range(got))
    BY <1>2 DEF TableInv, Bijection, Injection, Surjection, IsInjective, Range
  <2>2. ExistsBijection(1 .. Len(got), Range(got))
    BY <2>1 DEF ExistsBijection
  <2> QED
    BY <1>2, <2>2, FS_CountingElements
<1>5. there \cup Range(got) = 1 .. sent /\ there \cap Range(got) = {}
  BY <1>1, <1>2 DEF OncePerMessage, Range
<1> QED
  BY <1>1, <1>3, <1>4, <1>5 DEF MessagesExact, Overtaking

\* SendMsg and GetMsg neither lose a message nor deliver one twice, and one
\* message overtakes another only through a slot freed in between.
THEOREM MessagesAreExact == MessagesSpec => []MessagesExact
BY MessagesCorrect, InvGivesMessagesExact, PTL
===============================================================================
