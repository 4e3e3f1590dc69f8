------------------------------ MODULE ItemList ------------------------------
(***************************************************************************)
(* What a List promises (the comments of threads/list.cc): a sequence of   *)
(* items with keys, put in at either end or by key, and taken at the front.*)
(***************************************************************************)
EXTENDS Integers, Sequences

CONSTANTS Items, Keys

VARIABLES queue,    \* the items and keys, front to back
          result    \* what the last call returned, or applied a function to

itemVars == <<queue, result>>

Entry(i, k) == [item |-> i, key |-> k]

ListInit == queue = <<>> /\ result = <<>>

AtBack(i) == queue' = Append(queue, Entry(i, 0)) /\ result' = <<>>

AtFront(i) == queue' = <<Entry(i, 0)>> \o queue /\ result' = <<>>

\* Before the first larger key, so behind all equal ones of a sorted list.
ByKey(i, k) ==
    \E n \in 0 .. Len(queue) :
        /\ \A m \in 1 .. n : queue[m].key <= k
        /\ n < Len(queue) => queue[n + 1].key > k
        /\ queue' = SubSeq(queue, 1, n) \o <<Entry(i, k)>> \o SubSeq(queue, n + 1, Len(queue))
        /\ result' = <<>>

TakeFront ==
    \/ queue = <<>> /\ result' = <<>> /\ UNCHANGED queue
    \/ queue # <<>> /\ result' = <<Head(queue)>> /\ queue' = Tail(queue)

LookAtFront ==
    /\ result' = IF queue = <<>> THEN <<>> ELSE <<Head(queue)>>
    /\ UNCHANGED queue

ApplyToAll == result' = queue /\ UNCHANGED queue

Discard == queue' = <<>> /\ result' = <<>>

ListNext ==
    \/ \E i \in Items : AtBack(i) \/ AtFront(i) \/ \E k \in Keys : ByKey(i, k)
    \/ TakeFront \/ LookAtFront \/ ApplyToAll \/ Discard

ListSpec == ListInit /\ [][ListNext]_itemVars
=============================================================================
