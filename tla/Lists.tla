------------------------------- MODULE Lists --------------------------------
(***************************************************************************)
(* The singly linked list under every queue of the kernel                  *)
(* (threads/list.cc), and the two stacks of c++example/inheritstack.cc:    *)
(* an array, and a list of the same make (c++example/list.cc).             *)
(***************************************************************************)
EXTENDS Integers, Sequences, FiniteSets

CONSTANTS ListElements,   \* the memory for ListElement objects
          NULL, Items, Keys,
          StackSizes      \* sizes of an ArrayStack

VARIABLES first, last,    \* List
          element,        \* the fields of every ListElement
          heap,           \* the elements allocated
          result,         \* what the last call returned or applied func to
          array,          \* ArrayStack
          test            \* a run of Stack::SelfTest

listVars == <<first, last, element, heap, result>>
stackVars == <<array, test>>

ListElement(i, k) == [item |-> i, key |-> k, next |-> NULL]
Freed == ListElement(NULL, 0)
Entry(e) == [item |-> element[e].item, key |-> element[e].key]

\* The n-th element after the first one, and the elements in their order.
Nth ==
    LET nth[n \in 0 .. Cardinality(ListElements)] ==
            IF n = 0 THEN first
            ELSE IF nth[n - 1] = NULL THEN NULL ELSE element[nth[n - 1]].next
    IN  nth
Walked == {n \in DOMAIN Nth : Nth[n] # NULL}
Contents == [n \in 1 .. Cardinality(Walked) |-> Entry(Nth[n - 1])]

-----------------------------------------------------------------------------
(* List                                                                     *)

ListsInit ==
    /\ first = NULL /\ last = NULL
    /\ element = [e \in ListElements |-> Freed]
    /\ heap = {}
    /\ result = <<>>

IsEmpty == first = NULL

\* new ListElement(i, k)
Allocate(e) == e \notin heap /\ heap' = heap \cup {e} /\ result' = <<>>

\* The only element of the list.
Sole(e, i, k) ==
    /\ IsEmpty
    /\ first' = e /\ last' = e
    /\ element' = [element EXCEPT ![e] = ListElement(i, k)]

InFront(e, i, k) ==
    /\ first' = e
    /\ element' = [element EXCEPT ![e] = [ListElement(i, k) EXCEPT !.next = first]]
    /\ UNCHANGED last

Behind(e, i, k) ==
    /\ element' = [element EXCEPT ![e] = ListElement(i, k), ![last].next = e]
    /\ last' = e
    /\ UNCHANGED first

ListAppend(i) ==
    \E e \in ListElements :
        /\ Allocate(e)
        /\ Sole(e, i, 0) \/ (~IsEmpty /\ Behind(e, i, 0))

Prepend(i) ==
    \E e \in ListElements :
        /\ Allocate(e)
        /\ Sole(e, i, 0) \/ (~IsEmpty /\ InFront(e, i, 0))

\* The walk ends at p: the new element goes between p and its successor.
WalkEnds(p, k) == element[p].next # NULL => k < element[element[p].next].key

\* Mutant: a new last element is linked, but last stays.
SortedInsert_KeepsLast(i, k) ==
    \E e \in ListElements :
        /\ Allocate(e)
        /\ \/ Sole(e, i, k)
           \/ ~IsEmpty /\ k < element[first].key /\ InFront(e, i, k)
           \/ /\ ~IsEmpty /\ k >= element[first].key
              /\ \E n \in Walked :
                    /\ WalkEnds(Nth[n], k) /\ \A m \in 0 .. n - 1 : ~WalkEnds(Nth[m], k)
                    /\ element' = [element EXCEPT
                            ![e] = [ListElement(i, k) EXCEPT !.next = element[Nth[n]].next],
                            ![Nth[n]].next = e]
                    /\ UNCHANGED <<first, last>>

SortedInsert(i, k) ==
    \E e \in ListElements :
        /\ Allocate(e)
        /\ \/ Sole(e, i, k)
           \/ ~IsEmpty /\ k < element[first].key /\ InFront(e, i, k)
           \/ /\ ~IsEmpty /\ k >= element[first].key
              /\ \E n \in Walked :
                    /\ WalkEnds(Nth[n], k) /\ \A m \in 0 .. n - 1 : ~WalkEnds(Nth[m], k)
                    /\ IF element[Nth[n]].next = NULL THEN Behind(e, i, k)
                       ELSE /\ element' = [element EXCEPT
                                   ![e] = [ListElement(i, k) EXCEPT !.next = element[Nth[n]].next],
                                   ![Nth[n]].next = e]
                            /\ UNCHANGED <<first, last>>

\* Remove is SortedRemove without the key.
SortedRemove ==
    \/ IsEmpty /\ result' = <<>> /\ UNCHANGED <<first, last, element, heap>>
    \/ /\ ~IsEmpty
       /\ result' = <<Entry(first)>>
       /\ first' = IF first = last THEN NULL ELSE element[first].next
       /\ last' = IF first = last THEN NULL ELSE last
       /\ heap' = heap \ {first}
       /\ element' = [element EXCEPT ![first] = Freed]

ListHead ==
    /\ result' = IF IsEmpty THEN <<>> ELSE <<Entry(first)>>
    /\ UNCHANGED <<first, last, element, heap>>

Mapcar ==
    /\ result' = [n \in 1 .. Cardinality(Walked) |-> Entry(Nth[n - 1])]
    /\ UNCHANGED <<first, last, element, heap>>

\* ~List removes until Remove returns NULL, and no item is NULL.
DestroyList ==
    /\ heap' = heap \ {Nth[n] : n \in Walked}
    /\ element' = [e \in ListElements |-> IF e \in heap' THEN element[e] ELSE Freed]
    /\ first' = NULL /\ last' = NULL
    /\ result' = <<>>

ListsNext ==
    /\ \/ \E i \in Items : ListAppend(i) \/ Prepend(i) \/ \E k \in Keys : SortedInsert(i, k)
       \/ SortedRemove \/ ListHead \/ Mapcar \/ DestroyList
    /\ UNCHANGED stackVars

-----------------------------------------------------------------------------
(* Stack::SelfTest on an ArrayStack or a ListStack.                         *)

\* The first number that is pushed.
FirstCount == 17

StacksInit ==
    /\ \E sz \in StackSizes : array = [size |-> sz, top |-> 0, stack |-> [p \in 0 .. sz - 1 |-> 0]]
    /\ \E n \in 0 .. Cardinality(ListElements), s \in {"ArrayStack", "ListStack"} :
          test = [stack |-> s, numToPush |-> n, count |-> FirstCount, at |-> "push", out |-> <<>>]

NoTest == [stack |-> "none"]
NoArray == [size |-> 0]

Full(s) == s = "ArrayStack" /\ array.top = array.size
Empty(s) == IF s = "ArrayStack" THEN array.top = 0 ELSE IsEmpty

Push(s, v) ==
    \/ /\ s = "ArrayStack"
       /\ array' = [array EXCEPT !.stack[array.top] = v, !.top = @ + 1]
       /\ UNCHANGED listVars
    \/ s = "ListStack" /\ Prepend(v) /\ UNCHANGED array

Pop(s) ==
    \/ /\ s = "ArrayStack"
       /\ array' = [array EXCEPT !.top = @ - 1]
       /\ UNCHANGED listVars
    \/ s = "ListStack" /\ SortedRemove /\ UNCHANGED array

Popped(s) == IF s = "ArrayStack" THEN array.stack[array.top - 1] ELSE element[first].item

SelfTestPush ==
    /\ test.at = "push" /\ test.count < FirstCount + test.numToPush
    /\ IF Full(test.stack)
       THEN test' = [test EXCEPT !.at = "aborted"] /\ UNCHANGED <<listVars, array>>
       ELSE /\ Push(test.stack, test.count)
            /\ test' = [test EXCEPT !.count = @ + 1, !.out = Append(@, test.count)]

SelfTestPop ==
    /\ test.at \in {"push", "pop"} /\ test.count = FirstCount + test.numToPush
    /\ IF Empty(test.stack)
       THEN test' = [test EXCEPT !.at = "done"] /\ UNCHANGED <<listVars, array>>
       ELSE /\ Pop(test.stack)
            /\ test' = [test EXCEPT !.at = "pop", !.out = Append(@, Popped(test.stack))]

StacksNext == SelfTestPush \/ SelfTestPop

-----------------------------------------------------------------------------
(* Correctness.                                                             *)

\* Every allocated element is reached from first exactly once, last is the
\* last one of them, and no freed element is reached: nothing leaks and
\* nothing dangles, whatever calls were made.
ElementsExact ==
    /\ heap = {Nth[n] : n \in Walked}
    /\ Cardinality(Walked) = Cardinality(heap)
    /\ IsEmpty <=> last = NULL
    /\ ~IsEmpty => last = Nth[Cardinality(Walked) - 1]

Sequence == INSTANCE ItemList WITH
    queue <- Contents,
    Items <- Items \cup (FirstCount .. FirstCount + Cardinality(ListElements))

\* The linked list behaves as a sequence: each call has the effect on the items
\* in their order, and the result, that the comments of list.cc promise.
ImplementsSequence == Sequence!ListSpec

\* SelfTest prints the numbers it pushed and then the same ones backwards, on
\* either stack; only an ArrayStack can abort, when it is asked for more than
\* its size.
SelfTestExact ==
    test # NoTest =>
        LET pushed == [n \in 1 .. test.count - FirstCount |-> FirstCount + n - 1]
            back   == [n \in 1 .. Len(pushed) |-> pushed[Len(pushed) + 1 - n]]
        IN  /\ Len(test.out) <= 2 * Len(pushed)
            /\ test.out = SubSeq(pushed \o back, 1, Len(test.out))
            /\ test.at = "done" => test.out = pushed \o back
            /\ test.at = "aborted" => test.stack = "ArrayStack" /\ test.numToPush > array.size

\* The list is the sequence its callers take it for, without a leaked or
\* dangling element, and the stacks made from it and from an array are stacks.
ListsExact == ImplementsSequence /\ [](ElementsExact /\ SelfTestExact)
=============================================================================
