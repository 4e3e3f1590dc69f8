------------------------- MODULE UserProcessProofs -------------------------
(***************************************************************************)
(* Proofs about module UserProcess, for every number of threads, table     *)
(* entries, frames, pages and TLB entries.                                 *)
(***************************************************************************)
EXTENDS UserProcess, FiniteSetTheorems, WellFoundedInduction, TLAPS

USE UserProcessAssumption

-----------------------------------------------------------------------------
(* Lists, and the loops that find the lowest index.                        *)

\* List::Append, and the order of the TLB's loads: the new element is last, and
\* a list without repetitions stays so when the element was not on it.
LEMMA AppendFacts ==
  ASSUME NEW S, NEW s \in Seq(S), NEW e \in S
  PROVE  /\ Append(s, e) \in Seq(S)
         /\ Append(s, e) # <<>>
         /\ Range(Append(s, e)) = Range(s) \cup {e}
         /\ IsInjective(s) /\ e \notin Range(s) => IsInjective(Append(s, e))
<1>1. /\ Append(s, e) \in Seq(S)
      /\ Append(s, e) # <<>>
      /\ Len(Append(s, e)) = Len(s) + 1
      /\ \A i \in 1 .. Len(s) : Append(s, e)[i] = s[i]
      /\ Append(s, e)[Len(s) + 1] = e
  OBVIOUS
<1>2. /\ Len(s) \in Nat
      /\ DOMAIN s = 1 .. Len(s)
      /\ DOMAIN Append(s, e) = 1 .. Len(s) + 1
  BY <1>1
<1>3. Range(Append(s, e)) = Range(s) \cup {e}
  BY <1>1, <1>2 DEF Range
<1>4. ASSUME IsInjective(s), e \notin Range(s)
      PROVE  IsInjective(Append(s, e))
  BY <1>1, <1>2, <1>4 DEF IsInjective, Range
<1> QED
  BY <1>1, <1>3, <1>4

\* Taking the head of a list without repetitions takes exactly that element.
LEMMA TailFacts ==
  ASSUME NEW S, NEW s \in Seq(S), s # <<>>, IsInjective(s)
  PROVE  /\ Head(s) \in S
         /\ Head(s) \in Range(s)
         /\ Tail(s) \in Seq(S)
         /\ Range(Tail(s)) = Range(s) \ {Head(s)}
         /\ IsInjective(Tail(s))
<1>1. /\ Head(s) \in S
      /\ Tail(s) \in Seq(S)
      /\ Len(Tail(s)) = Len(s) - 1
      /\ \A i \in 1 .. Len(Tail(s)) : Tail(s)[i] = s[i + 1]
  OBVIOUS
<1>2. /\ Len(s) \in Nat \ {0}
      /\ DOMAIN s = 1 .. Len(s)
      /\ DOMAIN Tail(s) = 1 .. Len(s) - 1
  BY <1>1
<1>3. Head(s) = s[1]
  BY <1>2
<1>4. Head(s) \in Range(s)
  BY <1>2, <1>3 DEF Range
<1>5. ASSUME NEW x \in Range(Tail(s))  PROVE  x \in Range(s) \ {Head(s)}
  <2>1. PICK i \in 1 .. Len(s) - 1 : x = s[i + 1]
    BY <1>1, <1>2, <1>5 DEF Range
  <2> QED
    BY <1>2, <1>3, <2>1 DEF Range, IsInjective
<1>6. ASSUME NEW x \in Range(s) \ {Head(s)}  PROVE  x \in Range(Tail(s))
  <2>1. PICK i \in 1 .. Len(s) : x = s[i] /\ i # 1
    BY <1>2, <1>3, <1>6 DEF Range
  <2>2. i - 1 \in 1 .. Len(s) - 1 /\ Tail(s)[i - 1] = s[i]
    BY <1>1, <1>2, <2>1
  <2> QED
    BY Zenon, <1>2, <2>1, <2>2 DEF Range
<1>7. IsInjective(Tail(s))
  BY <1>1, <1>2 DEF IsInjective
<1> QED
  BY <1>1, <1>4, <1>5, <1>6, <1>7

\* The loops over the table of children, the bitmap and the TLB find the lowest
\* index they look for.
LEMMA LowestIndex ==
  ASSUME NEW S \in SUBSET Nat, S # {}
  PROVE  Min(S) \in S /\ \A j \in S : Min(S) <= j
<1>1. PICK R : R = {ss \in Nat \X Nat : ss[1] < ss[2]}
  BY Zenon
<1>2. IsWellFoundedOn(R, Nat)
  BY <1>1, NatLessThanWellFounded DEF OpToRel
<1>3. PICK i \in S : \A j \in S : ~(<<j, i>> \in R)
  BY Zenon, <1>2, WFMin
<1>4. ASSUME NEW j \in S PROVE i <= j
  <2>1. <<j, i>> \in Nat \X Nat /\ <<j, i>>[1] = j /\ <<j, i>>[2] = i
    OBVIOUS
  <2>2. ~(j < i)
    BY <1>1, <1>3, <2>1
  <2> QED
    BY <2>1, <2>2
<1>5. i \in S /\ \A j \in S : i =< j
  BY Zenon, <1>4
<1> QED
  BY Zenon, <1>5 DEF Min

-----------------------------------------------------------------------------
(* The inductive invariant.                                                *)

\* What each variable of the scheduler and of the families holds.
ProcessTypeInv ==
  /\ currentThread \in Thread /\ readyList \in Seq(Thread)
  /\ DOMAIN mode = Thread
  /\ child \in [Thread -> [Slot -> Thread \cup {NULL}]]
  /\ father \in [Thread -> Thread]
  /\ space \in [Thread -> Thread \cup {NULL}]
  /\ pageTable \in Thread

\* The threads that can run are the current one and those on the ready list,
\* each once.
ReadyInv ==
  /\ IsInjective(readyList) /\ currentThread \notin Range(readyList)
  /\ \A t \in Thread : t \in Alive <=> t = currentThread \/ t \in Range(readyList)

\* The first thread is its own father and never finishes, so the ready list is
\* never empty when another thread gives up the CPU.
MainInv == father[main] = main /\ mode[main].kind \in {"user", "join", "stuck"}

\* A thread that runs a program has an address space; so has the father whose
\* AddrSpace a forked thread will copy.
SpaceInv ==
  \A t \in Thread :
    /\ t \in Alive => mode[t].kind \in {"exec", "fork"} \/ space[t] # NULL
    /\ mode[t].kind = "fork" => mode[t].space \in Thread

\* FamilyExact with the count replaced by the entry itself, and no entry for a
\* thread that was not created or never used.
FamilyInv ==
  /\ \A t \in Thread, i \in Slot :
       child[t][i] # NULL =>
         /\ father[child[t][i]] = t
         /\ mode[child[t][i]].kind \notin {"none", "leaked", "exited"}
  /\ \A c \in Alive \ {main} : \E i \in Slot :
       \A j \in Slot : child[father[c]][j] = c <=> j = i

\* The frames in any page table have been handed out, and hold the page the
\* table has them for.
FrameInv ==
  /\ bitmap \subseteq Frame
  /\ table \in [Thread -> [Frame -> Page \cup {-1}]]
  /\ DOMAIN holds = Frame
  /\ \A s \in Thread, f \in Frame : table[s][f] # -1 => f \in bitmap
  /\ \A s \in Thread : \A f \in Frame \ {0} :
       table[s][f] # -1 => holds[f] = <<s, table[s][f]>>

\* The TLB's valid entries are those loaded, and an entry's count is the number
\* of loads since its own.
TLBInv == tlb # NULL =>
  /\ tlb \in [Entry -> Translation \cup {NULL}]
  /\ loads \in Seq(Entry) /\ IsInjective(loads)
  /\ \A e \in Entry : tlb[e] # NULL <=> e \in Range(loads)
  /\ \A i \in 1 .. Len(loads) : tlb[loads[i]].cnt = Len(loads) - i

UserProcessInv ==
  ProcessTypeInv /\ ReadyInv /\ MainInv /\ SpaceInv /\ FamilyInv /\ FrameInv /\ TLBInv
-----------------------------------------------------------------------------
(* The scheduler.                                                          *)

\* Scheduler::Run on a list of exactly the threads that can run.
LEMMA SwitchFacts ==
  ASSUME ProcessTypeInv, NEW q \in Seq(Thread), q # <<>>, IsInjective(q), Switch(q),
         \A t \in Thread : t \in Alive' <=> t \in Range(q)
  PROVE  /\ ReadyInv'
         /\ currentThread' \in Thread /\ currentThread' = Head(q)
         /\ readyList' \in Seq(Thread)
         /\ pageTable' = IF space[currentThread'] = NULL THEN pageTable
                         ELSE space[currentThread']
         /\ pageTable' \in Thread
<1>1. currentThread' = Head(q) /\ readyList' = Tail(q)
  BY Zenon DEF Switch
<1>2. /\ Head(q) \in Thread /\ Head(q) \in Range(q)
      /\ Tail(q) \in Seq(Thread) /\ Range(Tail(q)) = Range(q) \ {Head(q)}
      /\ IsInjective(Tail(q))
  BY Zenon, TailFacts
<1>3. ReadyInv'
  <2>1. /\ IsInjective(readyList') /\ currentThread' \notin Range(readyList')
        /\ \A t \in Thread :
             t \in Alive' <=> t = currentThread' \/ t \in Range(readyList')
    BY Zenon, <1>1, <1>2
  <2> QED
    BY Zenon, <2>1 DEF ReadyInv
<1>4. pageTable' = IF space[currentThread'] = NULL THEN pageTable
                   ELSE space[currentThread']
  BY Zenon, <1>1 DEF Switch, RestoreState
<1>5. pageTable' \in Thread
  BY <1>1, <1>2, <1>4 DEF ProcessTypeInv
<1> QED
  BY Zenon, <1>1, <1>2, <1>3, <1>4, <1>5

\* The thread a caller names is alive, and is not on the ready list.
LEMMA CurrentFacts ==
  ASSUME ProcessTypeInv, ReadyInv
  PROVE  /\ currentThread \in Thread /\ currentThread \in Alive
         /\ readyList \in Seq(Thread) /\ IsInjective(readyList)
         /\ currentThread \notin Range(readyList)
  BY Zenon DEF ProcessTypeInv, ReadyInv

\* Yield and the loop of Join: the caller goes to the end of the ready list.
LEMMA YieldReady ==
  ASSUME ProcessTypeInv, ReadyInv, Switch(Append(readyList, currentThread)), mode' = mode
  PROVE  /\ ReadyInv' /\ currentThread' \in Thread /\ readyList' \in Seq(Thread)
         /\ pageTable' = IF space[currentThread'] = NULL THEN pageTable
                         ELSE space[currentThread']
         /\ pageTable' \in Thread
<1>1. PICK q : q = Append(readyList, currentThread)
  BY Zenon
<1>2. /\ q \in Seq(Thread) /\ q # <<>> /\ IsInjective(q)
      /\ Range(q) = Range(readyList) \cup {currentThread}
  <2>1. /\ readyList \in Seq(Thread) /\ currentThread \in Thread
        /\ IsInjective(readyList) /\ currentThread \notin Range(readyList)
    BY Zenon, CurrentFacts
  <2> QED
    BY <1>1, <2>1, AppendFacts
<1>3. \A t \in Thread : t \in Alive' <=> t \in Range(q)
  <2>1. Alive' = Alive
    BY Zenon DEF Alive
  <2> QED
    BY Zenon, <2>1, <1>2 DEF ReadyInv
<1> QED
  BY Zenon, <1>1, <1>2, <1>3, SwitchFacts

\* Exec and Fork: the new thread and then the caller go to the end of the list.
LEMMA SpawnReady ==
  ASSUME ProcessTypeInv, ReadyInv, NEW n \in Thread, n \notin Alive,
         mode'[n].kind \in {"exec", "fork"},
         \A u \in Thread \ {n} : mode'[u] = mode[u],
         Switch(readyList \o <<n, currentThread>>)
  PROVE  /\ ReadyInv' /\ currentThread' \in Thread /\ readyList' \in Seq(Thread)
         /\ pageTable' = IF space[currentThread'] = NULL THEN pageTable
                         ELSE space[currentThread']
         /\ pageTable' \in Thread
<1>1. PICK r : r = Append(readyList, n)
  BY Zenon
<1>2. PICK q : q = Append(r, currentThread)
  BY Zenon
<1>3. n # currentThread /\ n \notin Range(readyList)
  BY Zenon DEF ReadyInv
<1>4. /\ r \in Seq(Thread) /\ IsInjective(r) /\ Range(r) = Range(readyList) \cup {n}
  BY Zenon, <1>1, <1>3, CurrentFacts, AppendFacts
<1>5. /\ q \in Seq(Thread) /\ q # <<>> /\ IsInjective(q)
      /\ Range(q) = Range(r) \cup {currentThread}
  <2>1. currentThread \in Thread /\ currentThread \notin Range(r)
    BY Zenon, <1>3, <1>4, CurrentFacts
  <2> QED
    BY <1>2, <1>4, <2>1, AppendFacts
<1>6. q = readyList \o <<n, currentThread>>
  BY <1>1, <1>2, CurrentFacts
<1>7. \A t \in Thread : t \in Alive' <=> t \in Alive \/ t = n
  BY DEF Alive
<1>8. \A t \in Thread : t \in Alive' <=> t \in Range(q)
  BY Zenon, <1>4, <1>5, <1>7 DEF ReadyInv
<1> QED
  BY Zenon, <1>5, <1>6, <1>8, SwitchFacts

\* Finish: the first thread is on the ready list, so there is a thread to run.
LEMMA FinishReady ==
  ASSUME ProcessTypeInv, ReadyInv, MainInv, currentThread # main,
         mode'[currentThread].kind \in {"failed", "exited"},
         \A u \in Thread \ {currentThread} : mode'[u] = mode[u],
         Switch(readyList)
  PROVE  /\ ReadyInv' /\ currentThread' \in Thread /\ readyList' \in Seq(Thread)
         /\ pageTable' = IF space[currentThread'] = NULL THEN pageTable
                         ELSE space[currentThread']
         /\ pageTable' \in Thread
<1>1. main \in Alive
  BY DEF Alive, MainInv
<1>2. main \in Range(readyList)
  BY Zenon, <1>1 DEF ReadyInv
<1>3. readyList # <<>>
  BY <1>2 DEF Range
<1>4. \A t \in Thread : t \in Alive' <=> t \in Alive /\ t # currentThread
  BY DEF Alive
<1>5. \A t \in Thread : t \in Alive' <=> t \in Range(readyList)
  BY Zenon, <1>4, CurrentFacts DEF ReadyInv
<1> QED
  BY Zenon, <1>3, <1>5, CurrentFacts, SwitchFacts

\* A step of the kernel that leaves the caller running.
LEMMA SameReady ==
  ASSUME ProcessTypeInv, ReadyInv, UNCHANGED <<currentThread, readyList>>,
         \A t \in Thread : t \in Alive' <=> t \in Alive
  PROVE  ReadyInv' /\ currentThread' \in Thread /\ readyList' \in Seq(Thread)
<1>1. currentThread' = currentThread /\ readyList' = readyList
  OBVIOUS
<1> QED
  BY Zenon, <1>1 DEF ReadyInv, ProcessTypeInv
-----------------------------------------------------------------------------
(* Families.                                                               *)

\* A step that makes no thread and ends none by Exit leaves the tables of
\* children exact.
LEMMA SameFamily ==
  ASSUME ProcessTypeInv, FamilyInv, UNCHANGED <<child, father>>,
         \A t \in Thread : t \in Alive' => t \in Alive,
         \A t \in Thread : mode[t].kind \notin {"none", "leaked", "exited"} =>
                            mode'[t].kind \notin {"none", "leaked", "exited"}
  PROVE  FamilyInv'
<1>1. child' = child /\ father' = father
  OBVIOUS
<1>2. ASSUME NEW t \in Thread, NEW i \in Slot, child[t][i] # NULL
      PROVE  /\ father[child[t][i]] = t
             /\ mode'[child[t][i]].kind \notin {"none", "leaked", "exited"}
  <2>1. child[t][i] \in Thread
    BY <1>2 DEF ProcessTypeInv
  <2>2. /\ father[child[t][i]] = t
        /\ mode[child[t][i]].kind \notin {"none", "leaked", "exited"}
    BY Zenon, <1>2 DEF FamilyInv
  <2> QED
    BY Zenon, <2>1, <2>2
<1>3. ASSUME NEW c \in Alive' \ {main}
      PROVE  \E i \in Slot : \A j \in Slot : child[father[c]][j] = c <=> j = i
  <2>1. c \in Thread
    BY Zenon, <1>3 DEF Alive
  <2>2. c \in Alive \ {main}
    BY Zenon, <1>3, <2>1
  <2> QED
    BY Zenon, <2>2 DEF FamilyInv
<1> QED
  BY <1>1, <1>2, <1>3 DEF FamilyInv

\* A thread that was not created is in no table.
LEMMA FreshUnlisted ==
  ASSUME ProcessTypeInv, FamilyInv, NEW n \in Thread, Fresh(n),
         NEW t \in Thread, NEW i \in Slot
  PROVE  child[t][i] # n
<1>1. SUFFICES ASSUME child[t][i] = n PROVE FALSE
  BY Zenon
<1>2. n # NULL
  OBVIOUS
<1>3. mode[n].kind \notin {"none", "leaked", "exited"}
  BY Zenon, <1>1, <1>2 DEF FamilyInv
<1> QED
  BY Zenon, <1>3 DEF Fresh

\* The free entry Exec and Fork take.
LEMMA FreeEntry ==
  ASSUME NEW t \in Thread, FreeSlots(t) # {}
  PROVE  FirstFree(t) \in Slot /\ child[t][FirstFree(t)] = NULL
<1>1. FreeSlots(t) \in SUBSET Nat
  BY DEF FreeSlots, Slot
<1>2. FirstFree(t) \in FreeSlots(t)
  BY Zenon, <1>1, LowestIndex DEF FirstFree
<1> QED
  BY Zenon, <1>2 DEF FreeSlots

\* Exec and Fork put the new thread in one entry of the caller's table, and
\* overwrite none.
LEMMA SpawnFamily ==
  ASSUME ProcessTypeInv, FamilyInv, NEW t \in Thread, NEW n \in Thread, Fresh(n), n # t,
         FreeSlots(t) # {}, child'[t][FirstFree(t)] = n,
         \A u \in Thread \ {t}, i \in Slot : child'[u][i] = child[u][i],
         \A i \in Slot \ {FirstFree(t)} : child'[t][i] = child[t][i],
         father'[n] = t, \A u \in Thread \ {n} : father'[u] = father[u],
         mode'[n].kind \in {"exec", "fork"},
         \A u \in Thread \ {n} : mode'[u] = mode[u]
  PROVE  FamilyInv'
<1>1. PICK k : k = FirstFree(t)
  BY Zenon
<1>2. /\ k \in Slot /\ child[t][k] = NULL /\ child'[t][k] = n
      /\ \A u \in Thread, i \in Slot : u # t \/ i # k => child'[u][i] = child[u][i]
  BY Zenon, <1>1, FreeEntry
<1>3. /\ child \in [Thread -> [Slot -> Thread \cup {NULL}]]
      /\ father \in [Thread -> Thread]
  BY Zenon DEF ProcessTypeInv
<1>4. \A u \in Thread, i \in Slot : child[u][i] # n
  BY Zenon, FreshUnlisted
<1>5. ASSUME NEW u \in Thread, NEW i \in Slot, child'[u][i] # NULL
      PROVE  /\ father'[child'[u][i]] = u
             /\ mode'[child'[u][i]].kind \notin {"none", "leaked", "exited"}
  <2>1. CASE u = t /\ i = k
    <3>1. child'[u][i] = n /\ father'[n] = t
      BY Zenon, <1>2, <2>1
    <3> QED
      BY <3>1, <2>1
  <2>2. CASE ~(u = t /\ i = k)
    <3>1. child'[u][i] = child[u][i] /\ child[u][i] # n
      BY Zenon, <1>2, <1>4, <2>2
    <3>2. child[u][i] \in Thread
      BY <1>3, <1>5, <3>1
    <3>3. /\ father'[child[u][i]] = father[child[u][i]]
          /\ mode'[child[u][i]] = mode[child[u][i]]
      BY Zenon, <3>1, <3>2
    <3>4. /\ father[child[u][i]] = u
          /\ mode[child[u][i]].kind \notin {"none", "leaked", "exited"}
      BY Zenon, <1>5, <3>1 DEF FamilyInv
    <3> QED
      BY Zenon, <3>1, <3>3, <3>4
  <2> QED
    BY Zenon, <2>1, <2>2
<1>6. ASSUME NEW c \in Alive' \ {main}
      PROVE  \E i \in Slot : \A j \in Slot : child'[father'[c]][j] = c <=> j = i
  <2>1. c \in Thread /\ mode'[c].kind \notin {"none", "leaked", "failed", "exited"}
    BY Zenon, <1>6 DEF Alive
  <2>2. CASE c = n
    <3>1. father'[c] = t
      BY Zenon, <2>2
    <3>2. \A j \in Slot : child'[t][j] = c <=> j = k
      BY <1>2, <1>4, <2>2
    <3> QED
      BY Zenon, <1>2, <3>1, <3>2
  <2>3. CASE c # n
    <3>1. father'[c] = father[c] /\ father[c] \in Thread /\ mode'[c] = mode[c]
      BY Zenon, <1>3, <2>1, <2>3
    <3>2. c \in Alive \ {main}
      BY Zenon, <1>6, <2>1, <3>1 DEF Alive
    <3>3. c # NULL
      BY <2>1
    <3>4. \A j \in Slot : child'[father[c]][j] = c <=> child[father[c]][j] = c
      BY Zenon, <1>2, <2>3, <3>1, <3>3
    <3>5. PICK i \in Slot : \A j \in Slot : child[father[c]][j] = c <=> j = i
      BY <3>2 DEF FamilyInv
    <3>6. \A j \in Slot : child'[father'[c]][j] = c <=> j = i
      BY <3>1, <3>4, <3>5
    <3> QED
      BY Zenon, <3>6
  <2> QED
    BY Zenon, <2>2, <2>3
<1> QED
  BY Zenon, <1>5, <1>6 DEF FamilyInv

\* Exit takes the caller out of its father's table, and only there was it.
LEMMA ExitFamily ==
  ASSUME ProcessTypeInv, FamilyInv, NEW t \in Thread,
         child' = Orphaned(t), father' = father,
         mode'[t].kind = "exited", \A u \in Thread \ {t} : mode'[u] = mode[u]
  PROVE  /\ FamilyInv'
         /\ child' \in [Thread -> [Slot -> Thread \cup {NULL}]]
<1>1. /\ child \in [Thread -> [Slot -> Thread \cup {NULL}]]
      /\ father \in [Thread -> Thread]
  BY Zenon DEF ProcessTypeInv
<1>2. /\ child' \in [Thread -> [Slot -> Thread \cup {NULL}]]
      /\ \A u \in Thread, i \in Slot :
           child'[u][i] = IF u = father[t] /\ child[u][i] = t THEN NULL ELSE child[u][i]
  BY <1>1 DEF Orphaned
<1>3. ASSUME NEW u \in Thread, NEW i \in Slot, child'[u][i] # NULL
      PROVE  /\ father[child'[u][i]] = u
             /\ mode'[child'[u][i]].kind \notin {"none", "leaked", "exited"}
  <2>1. child'[u][i] = child[u][i] /\ ~(u = father[t] /\ child[u][i] = t)
    BY Zenon, <1>2, <1>3
  <2>2. /\ father[child[u][i]] = u
        /\ mode[child[u][i]].kind \notin {"none", "leaked", "exited"}
    BY Zenon, <1>3, <2>1 DEF FamilyInv
  <2>3. child[u][i] # t /\ child[u][i] \in Thread
    BY <1>1, <1>3, <2>1, <2>2
  <2>4. mode'[child[u][i]] = mode[child[u][i]]
    BY Zenon, <2>3
  <2> QED
    BY Zenon, <2>1, <2>2, <2>4
<1>4. ASSUME NEW c \in Alive' \ {main}
      PROVE  \E i \in Slot : \A j \in Slot : child'[father[c]][j] = c <=> j = i
  <2>1. c \in Thread /\ mode'[c].kind \notin {"none", "leaked", "failed", "exited"}
    BY Zenon, <1>4 DEF Alive
  <2>2. c # t
    BY <2>1
  <2>3. mode'[c] = mode[c] /\ father[c] \in Thread
    BY Zenon, <1>1, <2>1, <2>2
  <2>4. c \in Alive \ {main}
    BY Zenon, <1>4, <2>1, <2>3 DEF Alive
  <2>5. c # NULL
    BY <2>1
  <2>6. \A j \in Slot : child'[father[c]][j] = c <=> child[father[c]][j] = c
    BY Zenon, <1>2, <2>2, <2>3, <2>5
  <2>7. PICK i \in Slot : \A j \in Slot : child[father[c]][j] = c <=> j = i
    BY <2>4 DEF FamilyInv
  <2>8. \A j \in Slot : child'[father[c]][j] = c <=> j = i
    BY <2>6, <2>7
  <2> QED
    BY Zenon, <2>8
<1> QED
  BY <1>2, <1>3, <1>4 DEF FamilyInv
-----------------------------------------------------------------------------
(* One lemma for each kind of step.                                        *)

ActorInv == ProcessTypeInv /\ ReadyInv /\ MainInv /\ SpaceInv /\ FamilyInv

\* The step OwnPageTable allows.
OwnStep ==
  \/ HasOwnTable' \/ fork_func(currentThread)
  \/ ~HasOwnTable /\ currentThread' = currentThread

\* Scheduler::Run gives the next thread its own page table.
LEMMA SwitchOwns ==
  ASSUME ProcessTypeInv', ReadyInv', SpaceInv', space' = space,
         pageTable' = IF space[currentThread'] = NULL THEN pageTable
                      ELSE space[currentThread']
  PROVE  OwnStep
<1>1. currentThread' \in Thread /\ currentThread' \in Alive'
  BY Zenon DEF ProcessTypeInv, ReadyInv
<1>2. mode'[currentThread'].kind \in {"exec", "fork"} \/ space'[currentThread'] # NULL
  BY Zenon, <1>1 DEF SpaceInv
<1>3. HasOwnTable'
  BY Zenon, <1>2 DEF HasOwnTable
<1> QED
  BY Zenon, <1>3 DEF OwnStep

\* Yield, and the loop of Join.
LEMMA YieldStep ==
  ASSUME ActorInv, Switch(Append(readyList, currentThread)), UNCHANGED familyVars
  PROVE  ActorInv' /\ OwnStep
<1>1. mode' = mode /\ child' = child /\ father' = father /\ space' = space
  BY DEF familyVars
<1>2. /\ ReadyInv' /\ currentThread' \in Thread /\ readyList' \in Seq(Thread)
      /\ pageTable' = IF space[currentThread'] = NULL THEN pageTable
                      ELSE space[currentThread']
      /\ pageTable' \in Thread
  BY Zenon, <1>1, YieldReady DEF ActorInv
<1>3. ProcessTypeInv'
  BY <1>1, <1>2 DEF ProcessTypeInv, ActorInv
<1>4. Alive' = Alive
  BY Zenon, <1>1 DEF Alive
<1>5. MainInv' /\ SpaceInv' /\ FamilyInv'
  BY <1>1, <1>4 DEF MainInv, SpaceInv, FamilyInv, ActorInv
<1>6. OwnStep
  BY Zenon, <1>1, <1>2, <1>3, <1>5, SwitchOwns
<1> QED
  BY Zenon, <1>2, <1>3, <1>5, <1>6 DEF ActorInv

\* Exec and Fork.
LEMMA SpawnStep ==
  ASSUME ActorInv, NEW t \in Thread, NEW n \in Thread, NEW start,
         start.kind \in {"exec", "fork"}, start.kind = "fork" => start.space = space[t],
         Spawn(t, n, start)
  PROVE  ActorInv' /\ OwnStep
<1>1. /\ t = currentThread /\ mode[t].kind = "user" /\ Fresh(n) /\ FreeSlots(t) # {}
      /\ child' = [child EXCEPT ![t][FirstFree(t)] = n]
      /\ father' = [father EXCEPT ![n] = t]
      /\ mode' = [mode EXCEPT ![n] = start]
      /\ Switch(readyList \o <<n, t>>)
      /\ space' = space
  BY Zenon DEF Spawn, Executes, Now
<1>2. n # t /\ n # main /\ n \notin Alive /\ t \in Alive
  BY <1>1 DEF Fresh, Alive, MainInv, ActorInv
<1>3. \A u \in Thread : mode'[u] = IF u = n THEN start ELSE mode[u]
  BY <1>1 DEF ProcessTypeInv, ActorInv
<1>4. mode'[n] = start /\ \A u \in Thread \ {n} : mode'[u] = mode[u]
  BY Zenon, <1>3
<1>5. /\ ReadyInv' /\ currentThread' \in Thread /\ readyList' \in Seq(Thread)
      /\ pageTable' = IF space[currentThread'] = NULL THEN pageTable
                      ELSE space[currentThread']
      /\ pageTable' \in Thread
  <2>1. Switch(readyList \o <<n, currentThread>>)
    BY Zenon, <1>1
  <2> QED
    BY Zenon, <1>2, <1>4, <2>1, SpawnReady DEF ActorInv
<1>6. /\ FamilyInv' /\ ProcessTypeInv'
  <2>1. PICK k : k = FirstFree(t)
    BY Zenon
  <2>2. k \in Slot
    BY Zenon, <1>1, <2>1, FreeEntry
  <2>3. /\ child' \in [Thread -> [Slot -> Thread \cup {NULL}]]
        /\ child'[t][k] = n
        /\ \A u \in Thread \ {t}, i \in Slot : child'[u][i] = child[u][i]
        /\ \A i \in Slot \ {k} : child'[t][i] = child[t][i]
    BY <1>1, <2>1, <2>2 DEF ProcessTypeInv, ActorInv
  <2>4. /\ father' \in [Thread -> Thread]
        /\ father'[n] = t /\ \A u \in Thread \ {n} : father'[u] = father[u]
    BY <1>1 DEF ProcessTypeInv, ActorInv
  <2>5. /\ ProcessTypeInv /\ FamilyInv /\ Fresh(n) /\ n # t /\ FreeSlots(t) # {}
        /\ mode'[n].kind \in {"exec", "fork"}
    BY Zenon, <1>1, <1>2, <1>4 DEF ActorInv
  <2>6. FamilyInv'
    BY Zenon, <1>4, <2>1, <2>3, <2>4, <2>5, SpawnFamily
  <2>7. ProcessTypeInv'
    BY <1>1, <1>5, <2>3, <2>4 DEF ProcessTypeInv, ActorInv
  <2> QED
    BY <2>6, <2>7
<1>7. MainInv'
  BY <1>1, <1>2, <1>3 DEF MainInv, ProcessTypeInv, ActorInv
<1>8. space[t] \in Thread
  BY Zenon, <1>1, <1>2 DEF SpaceInv, ProcessTypeInv, ActorInv
<1>9. SpaceInv'
  <2>1. ASSUME NEW u \in Thread
        PROVE  /\ u \in Alive' => mode'[u].kind \in {"exec", "fork"} \/ space'[u] # NULL
               /\ mode'[u].kind = "fork" => mode'[u].space \in Thread
    <3>1. CASE u = n
      BY Zenon, <1>3, <1>8, <3>1
    <3>2. CASE u # n
      <4>1. mode'[u] = mode[u]
        BY Zenon, <1>3, <3>2
      <4>2. u \in Alive' => u \in Alive
        BY Zenon, <4>1 DEF Alive
      <4> QED
        BY Zenon, <1>1, <4>1, <4>2 DEF SpaceInv, ActorInv
    <3> QED
      BY Zenon, <3>1, <3>2
  <2> QED
    BY Zenon, <2>1 DEF SpaceInv
<1>10. OwnStep
  BY Zenon, <1>1, <1>5, <1>6, <1>9, SwitchOwns
<1> QED
  BY Zenon, <1>5, <1>6, <1>7, <1>9, <1>10 DEF ActorInv

\* A thread that fails in exec_func or exits.
LEMMA FinishStep ==
  ASSUME ActorInv, currentThread # main, DOMAIN mode' = Thread,
         mode'[currentThread].kind \in {"failed", "exited"},
         \A u \in Thread \ {currentThread} : mode'[u] = mode[u],
         Switch(readyList), father' = father, space' = space,
         child' \in [Thread -> [Slot -> Thread \cup {NULL}]], FamilyInv'
  PROVE  ActorInv' /\ OwnStep
<1>1. /\ ReadyInv' /\ currentThread' \in Thread /\ readyList' \in Seq(Thread)
      /\ pageTable' = IF space[currentThread'] = NULL THEN pageTable
                      ELSE space[currentThread']
      /\ pageTable' \in Thread
  BY Zenon, FinishReady DEF ActorInv
<1>2. ProcessTypeInv'
  BY <1>1 DEF ProcessTypeInv, ActorInv
<1>3. MainInv'
  BY Zenon DEF MainInv, ActorInv
<1>4. SpaceInv'
  <2>1. ASSUME NEW u \in Thread
        PROVE  /\ u \in Alive' => mode'[u].kind \in {"exec", "fork"} \/ space'[u] # NULL
               /\ mode'[u].kind = "fork" => mode'[u].space \in Thread
    <3>1. CASE u = currentThread
      BY <3>1 DEF Alive
    <3>2. CASE u # currentThread
      <4>1. mode'[u] = mode[u]
        BY Zenon, <3>2
      <4>2. u \in Alive' => u \in Alive
        BY Zenon, <4>1 DEF Alive
      <4> QED
        BY Zenon, <4>1, <4>2 DEF SpaceInv, ActorInv
    <3> QED
      BY Zenon, <3>1, <3>2
  <2> QED
    BY Zenon, <2>1 DEF SpaceInv
<1>5. OwnStep
  BY Zenon, <1>1, <1>2, <1>4, SwitchOwns
<1> QED
  BY Zenon, <1>1, <1>2, <1>3, <1>4, <1>5 DEF ActorInv

\* A step that leaves the caller running: it changes what one thread t does,
\* and perhaps its address space.
LEMMA StayStep ==
  ASSUME ActorInv, UNCHANGED <<currentThread, readyList, child, father>>, NEW t \in Thread,
         DOMAIN mode' = Thread, \A u \in Thread \ {t} : mode'[u] = mode[u],
         space' \in [Thread -> Thread \cup {NULL}],
         \A u \in Thread \ {t} : space'[u] = space[u],
         pageTable' \in Thread,
         \/ /\ t \in Alive /\ mode'[t].kind \in {"user", "join", "stuck"}
            /\ space'[t] # NULL
         \/ Fresh(t) /\ mode'[t].kind = "leaked"
  PROVE  ActorInv'
<1>1. /\ currentThread' = currentThread /\ readyList' = readyList
      /\ child' = child /\ father' = father
  OBVIOUS
<1>2. \A u \in Thread : u \in Alive' <=> u \in Alive
  <2>1. ASSUME NEW u \in Thread, u # t PROVE u \in Alive' <=> u \in Alive
    BY Zenon, <2>1 DEF Alive
  <2>2. t \in Alive' <=> t \in Alive
    BY DEF Alive, Fresh
  <2> QED
    BY Zenon, <2>1, <2>2
<1>3. ReadyInv' /\ ProcessTypeInv'
  <2>1. ReadyInv'
    BY Zenon, <1>2, SameReady DEF ActorInv
  <2>2. ProcessTypeInv'
    BY <1>1 DEF ProcessTypeInv, ActorInv
  <2> QED
    BY <2>1, <2>2
<1>4. MainInv'
  <2>1. mode'[main].kind \in {"user", "join", "stuck"}
    BY DEF MainInv, Fresh, ActorInv
  <2> QED
    BY Zenon, <1>1, <2>1 DEF MainInv, ActorInv
<1>5. SpaceInv'
  <2>1. ASSUME NEW u \in Thread
        PROVE  /\ u \in Alive' => mode'[u].kind \in {"exec", "fork"} \/ space'[u] # NULL
               /\ mode'[u].kind = "fork" => mode'[u].space \in Thread
    <3>1. CASE u = t
      BY <3>1 DEF Alive
    <3>2. CASE u # t
      BY Zenon, <1>2, <3>2 DEF SpaceInv, ActorInv
    <3> QED
      BY Zenon, <3>1, <3>2
  <2> QED
    BY Zenon, <2>1 DEF SpaceInv
<1>6. FamilyInv'
  <2>1. \A u \in Thread : mode[u].kind \notin {"none", "leaked", "exited"} =>
                          mode'[u].kind \notin {"none", "leaked", "exited"}
    BY DEF Fresh
  <2> QED
    BY Zenon, <1>1, <1>2, <2>1, SameFamily DEF ActorInv
<1> QED
  BY Zenon, <1>3, <1>4, <1>5, <1>6 DEF ActorInv

\* What every step by the current thread t shares.
LEMMA CallerFacts ==
  ASSUME ActorInv, NEW t \in Thread, NEW k, Now(t, k)
  PROVE  t = currentThread /\ mode[t].kind = k /\ t \in Alive
  BY Zenon, CurrentFacts DEF Now, ActorInv

\* Exec, with a file that cannot be opened.
LEMMA ExecFailsStep ==
  ASSUME ActorInv, NEW t \in Thread, exec_funcFails(t)
  PROVE  ActorInv' /\ OwnStep
<1>1. /\ Now(t, "exec") /\ mode' = [mode EXCEPT ![t] = Mode("failed")]
      /\ Switch(readyList) /\ child' = child /\ father' = father /\ space' = space
  BY DEF exec_funcFails
<1>2. t = currentThread /\ mode[t].kind = "exec" /\ t \in Alive
  BY Zenon, <1>1, CallerFacts
<1>3. currentThread # main
  BY <1>2 DEF MainInv, ActorInv
<1>4. /\ DOMAIN mode' = Thread /\ mode'[t].kind = "failed"
      /\ \A u \in Thread \ {t} : mode'[u] = mode[u]
  BY <1>1 DEF Mode, ProcessTypeInv, ActorInv
<1>5. child' \in [Thread -> [Slot -> Thread \cup {NULL}]]
  BY Zenon, <1>1 DEF ProcessTypeInv, ActorInv
<1>6. FamilyInv'
  <2>1. \A u \in Thread : u \in Alive' => u \in Alive
    BY <1>2, <1>4 DEF Alive
  <2>2. \A u \in Thread : mode[u].kind \notin {"none", "leaked", "exited"} =>
                          mode'[u].kind \notin {"none", "leaked", "exited"}
    BY <1>4
  <2> QED
    BY Zenon, <1>1, <2>1, <2>2, SameFamily DEF ActorInv
<1> QED
  BY Zenon, <1>1, <1>2, <1>3, <1>4, <1>5, <1>6, FinishStep

\* Exit.
LEMMA ExitStep ==
  ASSUME ActorInv, NEW t \in Thread, Exit(t)
  PROVE  ActorInv' /\ OwnStep
<1>1. /\ Now(t, "user") /\ father[t] # t /\ child' = Orphaned(t)
      /\ mode' = [mode EXCEPT ![t] = Mode("exited")]
      /\ Switch(readyList) /\ father' = father /\ space' = space
  BY DEF Exit, Executes
<1>2. t = currentThread
  BY Zenon, <1>1, CallerFacts
<1>3. currentThread # main
  BY Zenon, <1>1, <1>2 DEF MainInv, ActorInv
<1>4. /\ DOMAIN mode' = Thread /\ mode'[t].kind = "exited"
      /\ \A u \in Thread \ {t} : mode'[u] = mode[u]
  BY <1>1 DEF Mode, ProcessTypeInv, ActorInv
<1>5. FamilyInv' /\ child' \in [Thread -> [Slot -> Thread \cup {NULL}]]
  BY Zenon, <1>1, <1>4, ExitFamily DEF ActorInv
<1> QED
  BY Zenon, <1>1, <1>2, <1>3, <1>4, <1>5, FinishStep

\* A thread whose page table and address space do not change still has its own
\* table if it had, when it ran a program before.
LEMMA StayOwns ==
  ASSUME mode[currentThread].kind \notin {"exec", "fork"},
         currentThread' = currentThread, pageTable' = pageTable, space' = space
  PROVE  OwnStep
  BY Zenon DEF OwnStep, HasOwnTable

\* Exec and Fork with no free entry.
LEMMA SpawnFailsStep ==
  ASSUME ActorInv, NEW t \in Thread, NEW n \in Thread, SpawnFails(t, n)
  PROVE  ActorInv' /\ OwnStep
<1>1. /\ Now(t, "user") /\ Fresh(n) /\ mode' = [mode EXCEPT ![n] = Mode("leaked")]
      /\ UNCHANGED <<currentThread, readyList, child, father>>
      /\ currentThread' = currentThread /\ pageTable' = pageTable /\ space' = space
  BY DEF SpawnFails, Executes
<1>2. t = currentThread /\ mode[t].kind = "user"
  BY Zenon, <1>1, CallerFacts
<1>3. /\ DOMAIN mode' = Thread /\ mode'[n].kind = "leaked"
      /\ \A u \in Thread \ {n} : mode'[u] = mode[u]
  BY <1>1 DEF Mode, ProcessTypeInv, ActorInv
<1>4. /\ space' \in [Thread -> Thread \cup {NULL}] /\ pageTable' \in Thread
      /\ \A u \in Thread \ {n} : space'[u] = space[u]
  BY Zenon, <1>1 DEF ProcessTypeInv, ActorInv
<1>5. ActorInv'
  BY Zenon, <1>1, <1>3, <1>4, StayStep
<1>6. OwnStep
  BY <1>1, <1>2, StayOwns
<1> QED
  BY Zenon, <1>5, <1>6

\* Join, its return, and a Join that finds no child: the caller has its address
\* space before and after.
LEMMA JoinStep ==
  ASSUME ActorInv, NEW t \in Thread, t = currentThread, mode[t].kind \in {"user", "join"},
         DOMAIN mode' = Thread, mode'[t].kind \in {"user", "join", "stuck"},
         \A u \in Thread \ {t} : mode'[u] = mode[u],
         UNCHANGED <<currentThread, readyList, pageTable, child, father, space>>
  PROVE  ActorInv' /\ OwnStep
<1>1. /\ UNCHANGED <<currentThread, readyList, child, father>>
      /\ currentThread' = currentThread /\ pageTable' = pageTable /\ space' = space
  OBVIOUS
<1>2. t \in Alive /\ space'[t] # NULL
  <2>1. t \in Alive
    BY Zenon, CurrentFacts DEF ActorInv
  <2> QED
    BY <1>1, <2>1 DEF SpaceInv, ActorInv
<1>3. /\ space' \in [Thread -> Thread \cup {NULL}] /\ pageTable' \in Thread
      /\ \A u \in Thread \ {t} : space'[u] = space[u]
  BY Zenon, <1>1 DEF ProcessTypeInv, ActorInv
<1>4. ActorInv'
  BY Zenon, <1>1, <1>2, <1>3, StayStep
<1>5. OwnStep
  BY <1>1, StayOwns
<1> QED
  BY Zenon, <1>4, <1>5

\* exec_func gives the thread an address space and page table of its own.
LEMMA ExecStep ==
  ASSUME ActorInv, NEW t \in Thread, exec_func(t)
  PROVE  ActorInv' /\ OwnStep
<1>1. /\ Now(t, "exec") /\ mode' = [mode EXCEPT ![t] = User]
      /\ space' = [space EXCEPT ![t] = t] /\ pageTable' = t
      /\ UNCHANGED <<currentThread, readyList, child, father>>
      /\ currentThread' = currentThread
  BY DEF exec_func
<1>2. t = currentThread /\ t \in Alive
  BY Zenon, <1>1, CallerFacts
<1>3. /\ DOMAIN mode' = Thread /\ mode'[t].kind = "user"
      /\ \A u \in Thread \ {t} : mode'[u] = mode[u]
  BY <1>1 DEF User, Mode, ProcessTypeInv, ActorInv
<1>4. /\ space' \in [Thread -> Thread \cup {NULL}]
      /\ space'[t] = t /\ \A u \in Thread \ {t} : space'[u] = space[u]
  BY <1>1 DEF ProcessTypeInv, ActorInv
<1>5. ActorInv'
  <2>1. space'[t] # NULL
    BY <1>4
  <2> QED
    BY Zenon, <1>1, <1>2, <1>3, <1>4, <2>1, StayStep
<1>6. OwnStep
  BY Zenon, <1>1, <1>2, <1>4 DEF OwnStep, HasOwnTable
<1> QED
  BY Zenon, <1>5, <1>6

\* fork_func gives the thread its father's address space.
LEMMA ForkStep ==
  ASSUME ActorInv, NEW t \in Thread, fork_func(t)
  PROVE  ActorInv' /\ OwnStep
<1>1. /\ Now(t, "fork") /\ mode' = [mode EXCEPT ![t] = User]
      /\ space' = [space EXCEPT ![t] = mode[t].space] /\ pageTable' = pageTable
      /\ UNCHANGED <<currentThread, readyList, child, father>>
  BY DEF fork_func
<1>2. t = currentThread /\ t \in Alive /\ mode[t].kind = "fork"
  BY Zenon, <1>1, CallerFacts
<1>3. /\ DOMAIN mode' = Thread /\ mode'[t].kind = "user"
      /\ \A u \in Thread \ {t} : mode'[u] = mode[u]
  BY <1>1 DEF User, Mode, ProcessTypeInv, ActorInv
<1>4. mode[t].space \in Thread
  BY Zenon, <1>2 DEF SpaceInv, ActorInv
<1>5. /\ space' \in [Thread -> Thread \cup {NULL}] /\ space'[t] # NULL
      /\ \A u \in Thread \ {t} : space'[u] = space[u]
  BY <1>1, <1>4 DEF ProcessTypeInv, ActorInv
<1>6. pageTable' \in Thread
  BY Zenon, <1>1 DEF ProcessTypeInv, ActorInv
<1>7. ActorInv'
  BY Zenon, <1>1, <1>2, <1>3, <1>5, <1>6, StayStep
<1>8. OwnStep
  BY Zenon, <1>2 DEF OwnStep
<1> QED
  BY Zenon, <1>7, <1>8
-----------------------------------------------------------------------------
(* Memory.                                                                 *)

\* Bitmap::Find: a frame never handed out, or frame 0 once all have been.
LEMMA FrameFound ==
  ASSUME FrameInv
  PROVE  findFrame \in Frame /\ (findFrame = 0 \/ findFrame \notin bitmap)
<1>1. CASE bitmap = Frame
  BY <1>1 DEF findFrame, Frame
<1>2. CASE bitmap # Frame
  <2>1. PICK S : S = Frame \ bitmap
    BY Zenon
  <2>2. S \in SUBSET Nat /\ S # {}
    <3>1. S \in SUBSET Nat
      BY <2>1 DEF Frame
    <3>2. S # {}
      BY Zenon, <1>2, <2>1 DEF FrameInv
    <3> QED
      BY <3>1, <3>2
  <2>3. findFrame \in S
    BY Zenon, <1>2, <2>1, <2>2, LowestIndex DEF findFrame
  <2> QED
    BY Zenon, <2>1, <2>3
<1> QED
  BY Zenon, <1>1, <1>2

\* The page fault handler makes a translation only for a frame no other table
\* has, unless it is frame 0.
LEMMA PageFaultStep ==
  ASSUME FrameInv, pageTable \in Thread, NEW t \in Thread, NEW vpn \in Page, PageFault(t, vpn)
  PROVE  FrameInv'
<1>1. PICK f : f = findFrame
  BY Zenon
<1>2. f \in Frame /\ (f = 0 \/ f \notin bitmap)
  BY Zenon, <1>1, FrameFound
<1>3. PICK p : p = pageTable
  BY Zenon
<1>4. /\ bitmap' = bitmap \cup {f}
      /\ table' = [table EXCEPT ![p][f] = vpn]
      /\ holds' = [holds EXCEPT ![f] = <<p, vpn>>]
  BY Zenon, <1>1, <1>3 DEF PageFault
<1>5. /\ bitmap \subseteq Frame /\ table \in [Thread -> [Frame -> Page \cup {-1}]]
      /\ DOMAIN holds = Frame /\ p \in Thread
  BY Zenon, <1>3 DEF FrameInv
<1>6. /\ table' \in [Thread -> [Frame -> Page \cup {-1}]]
      /\ \A s \in Thread, g \in Frame :
           table'[s][g] = IF s = p /\ g = f THEN vpn ELSE table[s][g]
  BY <1>2, <1>4, <1>5
<1>7. /\ DOMAIN holds' = Frame
      /\ \A g \in Frame : holds'[g] = IF g = f THEN <<p, vpn>> ELSE holds[g]
  BY <1>2, <1>4, <1>5
<1>8. bitmap' \subseteq Frame
  BY Zenon, <1>2, <1>4, <1>5
<1>9. ASSUME NEW s \in Thread, NEW g \in Frame, table'[s][g] # -1
      PROVE  /\ g \in bitmap'
             /\ g # 0 => holds'[g] = <<s, table'[s][g]>>
  <2>1. CASE g # f
    <3>1. table'[s][g] = table[s][g] /\ holds'[g] = holds[g]
      BY Zenon, <1>6, <1>7, <2>1
    <3>2. g \in bitmap /\ (g # 0 => holds[g] = <<s, table[s][g]>>)
      BY <1>9, <3>1 DEF FrameInv
    <3> QED
      BY Zenon, <1>4, <3>1, <3>2
  <2>2. CASE g = f /\ s = p
    <3>1. table'[s][g] = vpn /\ holds'[g] = <<s, vpn>>
      BY Zenon, <1>6, <1>7, <2>2
    <3> QED
      BY Zenon, <1>4, <2>2, <3>1
  <2>3. CASE g = f /\ s # p
    <3>1. table'[s][g] = table[s][g]
      BY Zenon, <1>6, <2>3
    <3>2. g \in bitmap
      BY Zenon, <1>9, <3>1 DEF FrameInv
    <3> QED
      BY Zenon, <1>2, <1>4, <2>3, <3>2
  <2> QED
    BY Zenon, <2>1, <2>2, <2>3
<1> QED
  BY <1>6, <1>7, <1>8, <1>9 DEF FrameInv

\* The counts after the handler has aged them.
LEMMA AgedFacts ==
  ASSUME TLBInv, tlb # NULL
  PROVE  /\ Aged \in [Entry -> Translation \cup {NULL}]
         /\ \A e \in Entry : Aged[e] = NULL <=> e \notin Range(loads)
         /\ \A i \in 1 .. Len(loads) : Aged[loads[i]].cnt = Len(loads) - i + 1
<1>1. /\ tlb \in [Entry -> Translation \cup {NULL}]
      /\ loads \in Seq(Entry)
      /\ \A e \in Entry : tlb[e] # NULL <=> e \in Range(loads)
      /\ \A i \in 1 .. Len(loads) : tlb[loads[i]].cnt = Len(loads) - i
  BY Zenon DEF TLBInv
<1>2. ASSUME NEW e \in Entry, tlb[e] # NULL
      PROVE  Aged[e] \in Translation /\ Aged[e].cnt = tlb[e].cnt + 1
  <2>1. PICK r \in Translation : r = tlb[e]
    BY <1>1, <1>2
  <2>2. Aged[e] = [r EXCEPT !.cnt = r.cnt + 1]
    BY <1>2, <2>1 DEF Aged
  <2> QED
    BY <2>1, <2>2 DEF Translation
<1>3. ASSUME NEW e \in Entry, tlb[e] = NULL PROVE Aged[e] = NULL
  BY Zenon, <1>3 DEF Aged
<1>4. \A r \in Translation : r # NULL
  OBVIOUS
<1>5. Aged \in [Entry -> Translation \cup {NULL}]
  <2>1. \A e \in Entry : Aged[e] \in Translation \cup {NULL}
    BY Zenon, <1>2, <1>3
  <2>2. Aged = [e \in Entry |-> Aged[e]]
    BY DEF Aged
  <2> QED
    BY <2>1, <2>2
<1>6. \A e \in Entry : Aged[e] = NULL <=> e \notin Range(loads)
  BY Zenon, <1>1, <1>2, <1>3, <1>4
<1>7. ASSUME NEW i \in 1 .. Len(loads) PROVE Aged[loads[i]].cnt = Len(loads) - i + 1
  <2>1. loads[i] \in Entry /\ loads[i] \in Range(loads)
    BY <1>1 DEF Range
  <2>2. Aged[loads[i]].cnt = tlb[loads[i]].cnt + 1
    BY Zenon, <1>1, <1>2, <2>1
  <2> QED
    BY <1>1, <2>2
<1> QED
  BY Zenon, <1>5, <1>6, <1>7

\* The entry the handler replaces is one that was not loaded or, when all were,
\* the one loaded longest ago.
LEMMA VictimFacts ==
  ASSUME TLBInv, tlb # NULL
  PROVE  /\ Victim(Aged) \in Entry
         /\ \/ Victim(Aged) \notin Range(loads)
            \/ loads # <<>> /\ Victim(Aged) = loads[1]
         /\ Entry \subseteq Range(loads) => loads # <<>> /\ Victim(Aged) = loads[1]
<1>1. PICK A : A = Aged
  BY Zenon
<1>2. /\ \A e \in Entry : A[e] = NULL <=> e \notin Range(loads)
      /\ \A i \in 1 .. Len(loads) : A[loads[i]].cnt = Len(loads) - i + 1
  BY Zenon, <1>1, AgedFacts
<1>3. loads \in Seq(Entry)
  BY Zenon DEF TLBInv
<1>4. CASE \E e \in Entry : A[e] = NULL
  <2>1. PICK S : S = {e \in Entry : A[e] = NULL}
    BY Zenon
  <2>2. S \in SUBSET Nat /\ S # {}
    BY <1>4, <2>1 DEF Entry
  <2>3. Victim(A) = Min(S)
    BY Zenon, <1>4, <2>1 DEF Victim
  <2>4. Victim(A) \in S
    BY Zenon, <2>2, <2>3, LowestIndex
  <2>5. Victim(A) \in Entry /\ Victim(A) \notin Range(loads)
    BY Zenon, <1>2, <2>1, <2>4
  <2> QED
    BY Zenon, <1>1, <2>5
<1>5. CASE ~ \E e \in Entry : A[e] = NULL
  <2>1. \A e \in Entry : e \in Range(loads)
    BY Zenon, <1>2, <1>5
  <2>2. loads # <<>> /\ Len(loads) \in Nat \ {0} /\ loads[1] \in Entry
    <3>1. 1 \in Entry
      BY DEF Entry
    <3>2. PICK i \in DOMAIN loads : loads[i] = 1
      BY <2>1, <3>1 DEF Range
    <3> QED
      BY <1>3, <3>2
  <2>3. PICK S : S = {e \in Entry : \A d \in Entry : A[e].cnt >= A[d].cnt}
    BY Zenon
  <2>4. \A d \in Entry : \E i \in 1 .. Len(loads) : d = loads[i] /\ A[d].cnt = Len(loads) - i + 1
    BY <1>2, <1>3, <2>1 DEF Range
  <2>5. A[loads[1]].cnt = Len(loads)
    <3>1. 1 \in 1 .. Len(loads) /\ Len(loads) - 1 + 1 = Len(loads)
      BY <2>2
    <3>2. A[loads[1]].cnt = Len(loads) - 1 + 1
      BY Zenon, <1>2, <3>1
    <3> QED
      BY <3>1, <3>2
  <2>6. loads[1] \in S
    <3>1. ASSUME NEW d \in Entry PROVE A[loads[1]].cnt >= A[d].cnt
      BY <2>2, <2>4, <2>5
    <3> QED
      BY Zenon, <2>2, <2>3, <3>1
  <2>7. S \in SUBSET Nat /\ S # {}
    BY <2>3, <2>6 DEF Entry
  <2>8. Victim(A) = Min(S)
    BY Zenon, <1>5, <2>3 DEF Victim
  <2>9. Victim(A) \in S
    BY Zenon, <2>7, <2>8, LowestIndex
  <2>10. Victim(A) \in Entry /\ A[Victim(A)].cnt >= A[loads[1]].cnt
    BY Zenon, <2>2, <2>3, <2>9
  <2>11. Victim(A) = loads[1]
    <3>1. PICK i \in 1 .. Len(loads) :
            Victim(A) = loads[i] /\ A[Victim(A)].cnt = Len(loads) - i + 1
      BY Zenon, <2>4, <2>10
    <3>2. i = 1
      BY <2>2, <2>5, <2>10, <3>1
    <3> QED
      BY <3>1, <3>2
  <2> QED
    BY Zenon, <1>1, <2>2, <2>10, <2>11
<1> QED
  BY Zenon, <1>4, <1>5
\* What is left of the order of loads when the replaced entry is taken out: the
\* others, in the same order, with counts that still say how long ago.
LEMMA WithoutFacts ==
  ASSUME TLBInv, tlb # NULL, NEW W, W = Without(loads, Victim(Aged))
  PROVE  /\ W \in Seq(Entry) /\ IsInjective(W) /\ Victim(Aged) \notin Range(W)
         /\ \A e \in Entry : e \in Range(W) <=> e \in Range(loads) /\ e # Victim(Aged)
         /\ \A i \in 1 .. Len(W) : Aged[W[i]].cnt = Len(W) - i + 1
<1>1. PICK v : v = Victim(Aged)
  BY Zenon
<1>2. loads \in Seq(Entry) /\ IsInjective(loads)
  BY Zenon DEF TLBInv
<1>3. \A i \in 1 .. Len(loads) : Aged[loads[i]].cnt = Len(loads) - i + 1
  BY Zenon, AgedFacts
<1>4. CASE v \notin Range(loads)
  <2>1. W = loads
    BY Zenon, <1>1, <1>4 DEF Without
  <2> QED
    BY Zenon, <1>1, <1>2, <1>3, <1>4, <2>1
<1>5. CASE v \in Range(loads)
  <2>1. loads # <<>> /\ v = loads[1]
    BY Zenon, <1>1, <1>5, VictimFacts
  <2>2. v = Head(loads)
    BY <1>2, <2>1
  <2>3. PICK at : at = CHOOSE i \in DOMAIN loads : loads[i] = v
    BY Zenon
  <2>4. at = 1
    <3>1. 1 \in DOMAIN loads
      BY <1>2, <2>1
    <3>2. at \in DOMAIN loads /\ loads[at] = v
      BY Zenon, <2>1, <2>3, <3>1
    <3> QED
      BY Zenon, <1>2, <2>1, <3>1, <3>2 DEF IsInjective
  <2>5. W = [i \in 1 .. Len(loads) - 1 |-> IF i < at THEN loads[i] ELSE loads[i + 1]]
    BY Zenon, <1>1, <1>5, <2>3 DEF Without
  <2>6. W = Tail(loads)
    <3>1. PICK T : T = Tail(loads)
      BY Zenon
    <3>2. Len(T) = Len(loads) - 1 /\ \A i \in 1 .. Len(loads) - 1 : T[i] = loads[i + 1]
      BY <1>2, <2>1, <3>1
    <3>3. \A i \in 1 .. Len(loads) - 1 : W[i] = loads[i + 1]
      BY <1>2, <2>4, <2>5
    <3>4. T = [i \in 1 .. Len(loads) - 1 |-> T[i]]
      <4>1. T \in Seq(Entry)
        BY <1>2, <2>1, <3>1, TailFacts
      <4> QED
        BY <3>2, <4>1
    <3>5. W = [i \in 1 .. Len(loads) - 1 |-> W[i]]
      BY <2>5
    <3> QED
      BY Zenon, <3>1, <3>2, <3>3, <3>4, <3>5
  <2>7. /\ Tail(loads) \in Seq(Entry) /\ IsInjective(Tail(loads))
        /\ Range(Tail(loads)) = Range(loads) \ {v}
    BY Zenon, <1>2, <2>1, <2>2, TailFacts
  <2>8. ASSUME NEW i \in 1 .. Len(W) PROVE Aged[W[i]].cnt = Len(W) - i + 1
    <3>1. /\ i + 1 \in 1 .. Len(loads) /\ W[i] = loads[i + 1]
          /\ Len(loads) - (i + 1) + 1 = Len(W) - i + 1
      BY <1>2, <2>1, <2>6
    <3>2. Aged[loads[i + 1]].cnt = Len(loads) - (i + 1) + 1
      BY Zenon, <1>3, <3>1
    <3> QED
      BY Zenon, <3>1, <3>2
  <2> QED
    BY Zenon, <1>1, <2>6, <2>7, <2>8
<1> QED
  BY Zenon, <1>4, <1>5

\* A TLB miss keeps the counts in step with the order of loads.
LEMMA RefillStep ==
  ASSUME TLBInv, FrameInv, pageTable \in Thread, NEW t \in Thread, NEW vpn \in Page,
         Refill(t, vpn)
  PROVE  TLBInv'
<1>1. PICK v : v = Victim(Aged)
  BY Zenon
<1>2. PICK A : A = Aged
  BY Zenon
<1>3. PICK W : W = Without(loads, v)
  BY Zenon
<1>4. PICK r : r = [virtualPage |-> table[pageTable][vpn], cnt |-> 0]
  BY Zenon
<1>5. tlb # NULL /\ tlb' = [A EXCEPT ![v] = r] /\ loads' = Append(W, v)
  BY Zenon, <1>1, <1>2, <1>3, <1>4 DEF Refill
<1>6. r \in Translation /\ r.cnt = 0 /\ r # NULL
  <2>1. vpn \in Frame
    BY DEF Page, Frame
  <2>2. table[pageTable][vpn] \in Int
    BY <2>1 DEF FrameInv, Page
  <2>3. r \in Translation /\ r.cnt = 0
    BY <1>4, <2>2 DEF Translation
  <2> QED
    BY <2>3
<1>7. /\ A \in [Entry -> Translation \cup {NULL}]
      /\ \A e \in Entry : A[e] = NULL <=> e \notin Range(loads)
  BY Zenon, <1>2, <1>5, AgedFacts
<1>8. v \in Entry
  BY Zenon, <1>1, <1>5, VictimFacts
<1>9. /\ W \in Seq(Entry) /\ IsInjective(W) /\ v \notin Range(W)
      /\ \A e \in Entry : e \in Range(W) <=> e \in Range(loads) /\ e # v
      /\ \A i \in 1 .. Len(W) : A[W[i]].cnt = Len(W) - i + 1
  BY Zenon, <1>1, <1>2, <1>3, <1>5, WithoutFacts
<1>10. /\ tlb' \in [Entry -> Translation \cup {NULL}]
       /\ tlb'[v] = r /\ \A e \in Entry \ {v} : tlb'[e] = A[e]
  BY <1>5, <1>6, <1>7, <1>8
<1>11. /\ loads' \in Seq(Entry) /\ IsInjective(loads')
       /\ Range(loads') = Range(W) \cup {v}
  BY <1>5, <1>8, <1>9, AppendFacts
<1>12. \A e \in Entry : tlb'[e] # NULL <=> e \in Range(loads')
  <2>1. ASSUME NEW e \in Entry, e # v PROVE tlb'[e] # NULL <=> e \in Range(loads')
    BY Zenon, <1>7, <1>9, <1>10, <1>11, <2>1
  <2>2. tlb'[v] # NULL /\ v \in Range(loads')
    BY Zenon, <1>6, <1>10, <1>11
  <2> QED
    BY Zenon, <2>1, <2>2
<1>13. ASSUME NEW i \in 1 .. Len(loads') PROVE tlb'[loads'[i]].cnt = Len(loads') - i
  <2>1. /\ Len(loads') = Len(W) + 1 /\ Len(W) \in Nat
        /\ loads'[Len(W) + 1] = v /\ \A j \in 1 .. Len(W) : loads'[j] = W[j]
    BY <1>5, <1>8, <1>9
  <2>2. CASE i = Len(W) + 1
    <3>1. tlb'[loads'[i]].cnt = 0
      BY Zenon, <1>6, <1>10, <2>1, <2>2
    <3> QED
      BY <2>1, <2>2, <3>1
  <2>3. CASE i # Len(W) + 1
    <3>1. i \in 1 .. Len(W) /\ Len(loads') - i = Len(W) - i + 1
      BY <2>1, <2>3
    <3>2. W[i] \in Entry /\ W[i] \in Range(W)
      BY <1>9, <3>1 DEF Range
    <3>3. loads'[i] = W[i] /\ tlb'[W[i]] = A[W[i]]
      BY Zenon, <1>9, <1>10, <2>1, <3>1, <3>2
    <3>4. A[W[i]].cnt = Len(W) - i + 1
      BY Zenon, <1>9, <3>1
    <3> QED
      BY Zenon, <3>1, <3>3, <3>4
  <2> QED
    BY Zenon, <2>2, <2>3
<1> QED
  BY Zenon, <1>10, <1>11, <1>12, <1>13 DEF TLBInv
-----------------------------------------------------------------------------
(* The theorems.                                                           *)

\* A step that does not touch memory.
LEMMA SameMemory ==
  ASSUME FrameInv, TLBInv, UNCHANGED pageVars
  PROVE  FrameInv' /\ TLBInv'
<1>1. /\ table' = table /\ bitmap' = bitmap /\ holds' = holds
      /\ tlb' = tlb /\ loads' = loads
  BY DEF pageVars, tlbVars
<1> QED
  BY Zenon, <1>1 DEF FrameInv, TLBInv

\* A step that touches memory alone.
LEMMA SameActors ==
  ASSUME ActorInv, UNCHANGED <<currentThread, readyList, pageTable, familyVars>>
  PROVE  ActorInv' /\ OwnStep
<1>1. /\ currentThread' = currentThread /\ readyList' = readyList /\ pageTable' = pageTable
      /\ mode' = mode /\ child' = child /\ father' = father /\ space' = space
  BY DEF familyVars
<1>2. Alive' = Alive
  BY Zenon, <1>1 DEF Alive
<1>3. ActorInv'
  BY <1>1, <1>2 DEF ActorInv, ProcessTypeInv, ReadyInv, MainInv, SpaceInv, FamilyInv
<1>4. HasOwnTable' <=> HasOwnTable
  BY Zenon, <1>1 DEF HasOwnTable
<1> QED
  BY Zenon, <1>1, <1>3, <1>4 DEF OwnStep

\* Every system call, step of the kernel and page fault keeps the invariant, and
\* is a step OwnPageTable allows.
LEMMA UserProcessStep ==
  ASSUME UserProcessInv, Next
  PROVE  UserProcessInv' /\ OwnStep
<1>1. ActorInv /\ FrameInv /\ TLBInv /\ pageTable \in Thread
  BY Zenon DEF UserProcessInv, ActorInv, ProcessTypeInv
<1>2. SUFFICES ActorInv' /\ FrameInv' /\ TLBInv' /\ OwnStep
  BY Zenon DEF UserProcessInv, ActorInv
<1>3. ASSUME NEW t \in Thread, Yield(t) \/ JoinWaits(t)
      PROVE  ActorInv' /\ FrameInv' /\ TLBInv' /\ OwnStep
  <2>1. /\ t = currentThread /\ Switch(Append(readyList, t))
        /\ UNCHANGED familyVars /\ UNCHANGED pageVars
    BY Zenon, <1>3 DEF Yield, JoinWaits, Now
  <2> QED
    BY Zenon, <1>1, <2>1, YieldStep, SameMemory
<1>4. ASSUME NEW t \in Thread, Exit(t)
      PROVE  ActorInv' /\ FrameInv' /\ TLBInv' /\ OwnStep
  <2>1. UNCHANGED pageVars
    BY <1>4 DEF Exit
  <2> QED
    BY Zenon, <1>1, <1>4, <2>1, ExitStep, SameMemory
<1>5. ASSUME NEW t \in Thread, exec_func(t) \/ exec_funcFails(t) \/ fork_func(t)
      PROVE  ActorInv' /\ FrameInv' /\ TLBInv' /\ OwnStep
  <2>1. UNCHANGED pageVars
    BY <1>5 DEF exec_func, exec_funcFails, fork_func
  <2> QED
    BY Zenon, <1>1, <1>5, <2>1, ExecStep, ExecFailsStep, ForkStep, SameMemory
<1>6. ASSUME NEW t \in Thread, JoinReturns(t)
      PROVE  ActorInv' /\ FrameInv' /\ TLBInv' /\ OwnStep
  <2>1. /\ t = currentThread /\ mode[t].kind = "join"
        /\ mode' = [mode EXCEPT ![t] = User] /\ UNCHANGED pageVars
        /\ UNCHANGED <<currentThread, readyList, pageTable, child, father, space>>
    BY <1>6 DEF JoinReturns, Now
  <2>2. /\ DOMAIN mode' = Thread /\ mode'[t].kind = "user"
        /\ \A u \in Thread \ {t} : mode'[u] = mode[u]
    BY <1>1, <2>1 DEF User, Mode, ProcessTypeInv, ActorInv
  <2>3. ActorInv' /\ OwnStep
    BY Zenon, <1>1, <2>1, <2>2, JoinStep
  <2> QED
    BY Zenon, <1>1, <2>1, <2>3, SameMemory
<1>7. ASSUME NEW t \in Thread, NEW id \in Thread, Join(t, id)
      PROVE  ActorInv' /\ FrameInv' /\ TLBInv' /\ OwnStep
  <2>1. /\ t = currentThread /\ mode[t].kind = "user" /\ UNCHANGED pageVars
        /\ UNCHANGED <<currentThread, readyList, pageTable, child, father, space>>
    BY <1>7 DEF Join, Executes, Now
  <2>2. PICK at : at = Min({i \in Slot : child[t][i] = id})
    BY Zenon
  <2>3. \/ mode' = [mode EXCEPT ![t] = [kind |-> "join", slot |-> at, id |-> id]]
        \/ mode' = mode \/ mode' = [mode EXCEPT ![t] = Mode("stuck")]
    BY <1>7, <2>2 DEF Join
  <2>4. /\ DOMAIN mode' = Thread /\ mode'[t].kind \in {"user", "join", "stuck"}
        /\ \A u \in Thread \ {t} : mode'[u] = mode[u]
    BY <1>1, <2>1, <2>3 DEF Mode, ProcessTypeInv, ActorInv
  <2>5. ActorInv' /\ OwnStep
    BY Zenon, <1>1, <2>1, <2>4, JoinStep
  <2> QED
    BY Zenon, <1>1, <2>1, <2>5, SameMemory
<1>8. ASSUME NEW t \in Thread, NEW n \in Thread, Exec(t, n) \/ Fork(t, n)
      PROVE  ActorInv' /\ FrameInv' /\ TLBInv' /\ OwnStep
  <2>1. PICK start : start = IF Exec(t, n) THEN Mode("exec")
                             ELSE [kind |-> "fork", space |-> space[t]]
    BY Zenon
  <2>2. /\ start.kind \in {"exec", "fork"}
        /\ start.kind = "fork" => start.space = space[t]
    <3>1. CASE start = Mode("exec")
      BY <3>1 DEF Mode
    <3>2. CASE start = [kind |-> "fork", space |-> space[t]]
      BY <3>2
    <3> QED
      BY Zenon, <2>1, <3>1, <3>2
  <2>3. Spawn(t, n, start)
    <3>1. CASE Exec(t, n)
      <4>1. start = Mode("exec")
        BY Zenon, <2>1, <3>1
      <4> QED
        BY <3>1, <4>1 DEF Exec
    <3>2. CASE ~Exec(t, n)
      <4>1. start = [kind |-> "fork", space |-> space[t]]
        BY Zenon, <2>1, <3>2
      <4> QED
        BY <1>8, <3>2, <4>1 DEF Fork
    <3> QED
      BY Zenon, <3>1, <3>2
  <2>4. UNCHANGED pageVars
    BY <2>3 DEF Spawn
  <2>5. ActorInv' /\ OwnStep
    BY <1>1, <2>2, <2>3, SpawnStep
  <2> QED
    BY Zenon, <1>1, <2>4, <2>5, SameMemory
<1>9. ASSUME NEW t \in Thread, NEW n \in Thread, SpawnFails(t, n)
      PROVE  ActorInv' /\ FrameInv' /\ TLBInv' /\ OwnStep
  <2>1. UNCHANGED pageVars
    BY <1>9 DEF SpawnFails
  <2> QED
    BY Zenon, <1>1, <1>9, <2>1, SpawnFailsStep, SameMemory
<1>10. ASSUME NEW t \in Thread, NEW vpn \in Page, PageFault(t, vpn)
       PROVE  ActorInv' /\ FrameInv' /\ TLBInv' /\ OwnStep
  <2>1. /\ UNCHANGED <<currentThread, readyList, pageTable, familyVars>>
        /\ tlb' = tlb /\ loads' = loads
    BY <1>10 DEF PageFault, tlbVars
  <2>2. FrameInv'
    BY Zenon, <1>1, <1>10, PageFaultStep
  <2>3. TLBInv'
    BY Zenon, <1>1, <2>1 DEF TLBInv
  <2> QED
    BY Zenon, <1>1, <2>1, <2>2, <2>3, SameActors
<1>11. ASSUME NEW t \in Thread, NEW vpn \in Page, Refill(t, vpn)
       PROVE  ActorInv' /\ FrameInv' /\ TLBInv' /\ OwnStep
  <2>1. /\ UNCHANGED <<currentThread, readyList, pageTable, familyVars>>
        /\ table' = table /\ bitmap' = bitmap /\ holds' = holds
    BY <1>11 DEF Refill
  <2>2. TLBInv'
    BY Zenon, <1>1, <1>11, RefillStep
  <2>3. FrameInv'
    BY Zenon, <1>1, <2>1 DEF FrameInv
  <2> QED
    BY Zenon, <1>1, <2>1, <2>2, <2>3, SameActors
<1> QED
  BY Zenon, <1>3, <1>4, <1>5, <1>6, <1>7, <1>8, <1>9, <1>10, <1>11 DEF Next, Kernel

\* The machine starts with the first thread in its program and all else empty.
LEMMA InitUserProcessInv == Init => UserProcessInv
<1> SUFFICES ASSUME Init PROVE UserProcessInv
  OBVIOUS
<1>1. ProcessTypeInv
  BY DEF Init, ProcessTypeInv
<1>2. Alive = {main}
  BY DEF Init, Alive, User, Mode
<1>3. ReadyInv
  BY <1>2 DEF Init, ReadyInv, IsInjective, Range
<1>4. MainInv
  BY DEF Init, MainInv, User, Mode
<1>5. SpaceInv
  BY <1>2 DEF Init, SpaceInv, User, Mode
<1>6. FamilyInv
  BY <1>2 DEF Init, FamilyInv
<1>7. FrameInv
  BY DEF Init, FrameInv
<1>8. TLBInv
  <2>1. loads = <<>> /\ (tlb # NULL => tlb = [e \in Entry |-> NULL])
    BY DEF Init
  <2> QED
    BY <2>1 DEF TLBInv, IsInjective, Range
<1> QED
  BY Zenon, <1>1, <1>3, <1>4, <1>5, <1>6, <1>7, <1>8 DEF UserProcessInv

\* The invariant holds in every state the system calls and page faults reach.
THEOREM UserProcessCorrect == Spec => []UserProcessInv
<1>1. ASSUME UserProcessInv, UNCHANGED vars PROVE UserProcessInv'
  <2>1. /\ UNCHANGED <<currentThread, readyList, pageTable, familyVars>>
        /\ UNCHANGED pageVars
    BY <1>1 DEF vars
  <2>2. ActorInv /\ FrameInv /\ TLBInv
    BY Zenon, <1>1 DEF UserProcessInv, ActorInv
  <2>3. ActorInv' /\ FrameInv' /\ TLBInv'
    BY Zenon, <2>1, <2>2, SameActors, SameMemory
  <2> QED
    BY Zenon, <2>3 DEF UserProcessInv, ActorInv
<1>2. UserProcessInv /\ [Next]_vars => UserProcessInv'
  BY Zenon, <1>1, UserProcessStep
<1> QED
  BY <1>2, InitUserProcessInv, PTL DEF Spec

\* Thread::child and Thread::father agree: an entry names a thread whose father
\* is the owner and which has not exited, and a living thread has one entry.
THEOREM FamiliesAreExact == Spec => []FamilyExact
<1>1. ASSUME UserProcessInv PROVE FamilyExact
  <2>1. ASSUME NEW c \in Alive \ {main}
        PROVE  Cardinality({i \in Slot : child[father[c]][i] = c}) = 1
    <3>1. PICK i \in Slot : \A j \in Slot : child[father[c]][j] = c <=> j = i
      BY <1>1, <2>1 DEF UserProcessInv, FamilyInv
    <3>2. {j \in Slot : child[father[c]][j] = c} = {i}
      BY <3>1
    <3> QED
      BY Zenon, <3>2, FS_Singleton
  <2>2. \A t \in Thread, i \in Slot : child[t][i] # NULL =>
          father[child[t][i]] = t /\ mode[child[t][i]].kind # "exited"
    BY <1>1 DEF UserProcessInv, FamilyInv
  <2> QED
    BY Zenon, <2>1, <2>2 DEF FamilyExact
<1> QED
  BY <1>1, UserProcessCorrect, PTL

\* A program runs with the page table of its own address space, except from
\* fork_func until the forked thread next gets the CPU.
THEOREM ProgramsHaveOwnTables == Spec => OwnPageTable
<1>1. UserProcessInv /\ [Next]_vars => [OwnStep]_vars
  BY Zenon, UserProcessStep
<1> QED
  BY <1>1, UserProcessCorrect, PTL DEF Spec, OwnPageTable, OwnStep

\* A translation in any frame but 0 leads to the page it was made for, and a
\* full TLB gives up the entry loaded longest ago.
THEOREM TranslationsAreExact == Spec => []TranslationsExact
<1>1. ASSUME UserProcessInv PROVE TranslationsExact
  <2>1. FrameInv /\ TLBInv
    BY Zenon, <1>1 DEF UserProcessInv
  <2>2. ASSUME tlb # NULL, Len(loads) = TLBSize
        PROVE  Victim(Aged) = Head(loads) /\ Aged[Victim(Aged)].cnt > 0
    <3>1. loads \in Seq(Entry) /\ IsInjective(loads)
      BY Zenon, <2>1, <2>2 DEF TLBInv
    <3>2. DOMAIN loads = Entry /\ loads \in [Entry -> Entry]
      BY <2>2, <3>1 DEF Entry
    <3>3. loads \in Injection(Entry, Entry)
      BY Zenon, <3>1, <3>2 DEF Injection, IsInjective
    <3>4. IsFiniteSet(Entry)
      BY FS_Interval DEF Entry
    <3>5. loads \in Surjection(Entry, Entry)
      BY Zenon, <3>3, <3>4, FS_Injection
    <3>6. Entry \subseteq Range(loads)
      BY Zenon, <3>2, <3>5 DEF Surjection, Range
    <3>7. loads # <<>> /\ Victim(Aged) = loads[1]
      BY Zenon, <2>1, <2>2, <3>6, VictimFacts
    <3>8. Victim(Aged) = Head(loads)
      BY <3>1, <3>7
    <3>9. 1 \in 1 .. Len(loads) /\ Len(loads) - 1 + 1 > 0
      BY <2>2
    <3>10. Aged[loads[1]].cnt = Len(loads) - 1 + 1
      BY Zenon, <2>1, <2>2, <3>9, AgedFacts
    <3> QED
      BY Zenon, <3>7, <3>8, <3>9, <3>10
  <2> QED
    BY Zenon, <2>1, <2>2 DEF TranslationsExact, FrameInv
<1> QED
  BY <1>1, UserProcessCorrect, PTL
=============================================================================
