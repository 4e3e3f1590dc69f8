----------------------------- MODULE UserProcess -----------------------------
(***************************************************************************)
(* User programs: the system calls Exec, Fork, Yield, Join and Exit and    *)
(* the page fault handler (userprog/exception.cc), address spaces          *)
(* (userprog/addrspace.cc) and the page table side of Machine::Translate   *)
(* (machine/translate.cc), with the UNIX file system, in which no file     *)
(* operation blocks.  The machine has a TLB (the build of vm/) or not.     *)
(*                                                                         *)
(* One CPU: currentThread makes all steps, and gives way to the head of    *)
(* the ready list in Yield, at a time slice and in Finish, as module       *)
(* Threads has it.  An address space is known by the thread that loaded    *)
(* it; a forked thread copies its father's AddrSpace and so has the same   *)
(* page table.  Page tables are indexed by frame.  Each "new Thread" is a  *)
(* fresh element of Thread; what pages contain is left out.                *)
(***************************************************************************)
EXTENDS Integers, Sequences, FiniteSetsExt, Functions

CONSTANTS Thread, main, NULL,
          MaxChild,          \* entries of Thread::child (10)
          NumPhysPages, numPages, TLBSize

\* A valid entry of the TLB.
Translation == [virtualPage : Int, cnt : Nat]

ASSUME UserProcessAssumption ==
  /\ main \in Thread /\ NULL \notin Thread \cup Translation
  /\ MaxChild \in Nat \ {0}
  /\ NumPhysPages \in Nat \ {0} /\ numPages \in 1 .. NumPhysPages
  /\ TLBSize \in Nat \ {0}

Frame == 0 .. NumPhysPages - 1
Slot == 1 .. MaxChild
Page == 0 .. numPages - 1
Entry == 1 .. TLBSize

VARIABLES
  currentThread, readyList,
  mode,        \* what each thread does when it has the CPU
  child, father,
  space,       \* the AddrSpace of each thread, by the thread that loaded it
  pageTable,   \* Machine::pageTable, likewise
  table,       \* space -> frame -> virtualPage, or -1
  bitmap,      \* the frames the machine's Bitmap has handed out
  holds,       \* history: frame -> the page last read into it
  tlb,         \* Machine::tlb: NULL, or an entry or NULL (not valid) for each index
  loads        \* history: the TLB indexes in the order they were last loaded

familyVars == <<mode, child, father, space>>
tlbVars == <<tlb, loads>>
pageVars == <<table, bitmap, holds, tlbVars>>
vars == <<currentThread, readyList, pageTable, familyVars, pageVars>>

Mode(k) == [kind |-> k]
User == Mode("user")

Init ==
  /\ currentThread = main /\ readyList = <<>>
  /\ mode = [t \in Thread |-> IF t = main THEN User ELSE Mode("none")]
  /\ child = [t \in Thread |-> [i \in Slot |-> NULL]]
  /\ father = [t \in Thread |-> t]
  /\ space = [t \in Thread |-> IF t = main THEN main ELSE NULL]
  /\ pageTable = main
  /\ table = [s \in Thread |-> [f \in Frame |-> -1]]
  /\ bitmap = {}
  /\ holds = [f \in Frame |-> <<NULL, -1>>]
  /\ tlb \in {NULL, [e \in Entry |-> NULL]}
  /\ loads = <<>>

Now(t, kind) == t = currentThread /\ mode[t].kind = kind

\* Translate finds page vpn; with a TLB, in the TLB alone.
Translates(vpn) ==
  IF tlb = NULL THEN \E f \in Frame : table[pageTable][f] = vpn
  ELSE \E e \in Entry : tlb[e] # NULL /\ tlb[e].virtualPage = vpn

\* A program in user mode executes an instruction only from a page it has.
Executes(t) == Now(t, "user") /\ \E vpn \in Page : Translates(vpn)

\* Mutant: the page table of the thread that ran before stays.
RestoreState_Skipped(t, s) == pageTable' = pageTable

\* Scheduler::Run ends with the new thread's AddrSpace::RestoreState, if it
\* has an address space.
RestoreState(t, s) == pageTable' = IF s[t] = NULL THEN pageTable ELSE s[t]

\* The head of list q runs next.
Switch(q) ==
  /\ currentThread' = Head(q) /\ readyList' = Tail(q)
  /\ RestoreState(Head(q), space)

-----------------------------------------------------------------------------
(* System calls.                                                            *)

\* Yield, called by the program or forced by the timer.
Yield(t) ==
  /\ Now(t, "user")
  /\ Switch(Append(readyList, t))
  /\ UNCHANGED <<familyVars, pageVars>>

Fresh(n) == mode[n].kind = "none"
FreeSlots(t) == {i \in Slot : child[t][i] = NULL}
FirstFree(t) == Min(FreeSlots(t))

\* Exec and Fork: a new thread that will run exec_func or fork_func; the
\* caller yields to it.
Spawn(t, n, start) ==
  /\ Executes(t) /\ Fresh(n) /\ FreeSlots(t) # {}
  /\ child' = [child EXCEPT ![t][FirstFree(t)] = n]
  /\ father' = [father EXCEPT ![n] = t]
  /\ mode' = [mode EXCEPT ![n] = start]
  /\ Switch(readyList \o <<n, t>>)
  /\ UNCHANGED <<space, pageVars>>

Exec(t, n) == Spawn(t, n, Mode("exec"))
Fork(t, n) == Spawn(t, n, [kind |-> "fork", space |-> space[t]])

\* Without a free entry the call fails and the new Thread is never used.
SpawnFails(t, n) ==
  /\ Executes(t) /\ Fresh(n) /\ FreeSlots(t) = {}
  /\ mode' = [mode EXCEPT ![n] = Mode("leaked")]
  /\ UNCHANGED <<currentThread, readyList, pageTable, child, father, space, pageVars>>

\* exec_func loads the program and runs it in an address space of its own.
exec_func(t) ==
  /\ Now(t, "exec")
  /\ mode' = [mode EXCEPT ![t] = User]
  /\ space' = [space EXCEPT ![t] = t]
  /\ pageTable' = t
  /\ UNCHANGED <<currentThread, readyList, child, father, pageVars>>

\* There is no such file: exec_func returns, and ThreadRoot calls Finish.
exec_funcFails(t) ==
  /\ Now(t, "exec")
  /\ mode' = [mode EXCEPT ![t] = Mode("failed")]
  /\ Switch(readyList)
  /\ UNCHANGED <<child, father, space, pageVars>>

\* fork_func copies the AddrSpace; it does not call RestoreState.
fork_func(t) ==
  /\ Now(t, "fork")
  /\ mode' = [mode EXCEPT ![t] = User]
  /\ space' = [space EXCEPT ![t] = mode[t].space]
  /\ UNCHANGED <<currentThread, readyList, pageTable, child, father, pageVars>>

\* Join: found is uninitialized when id is not in child.  If it happens to be
\* true, the loop tests the word after child, which is father.
Join(t, id) ==
  LET at == {i \in Slot : child[t][i] = id} IN
  /\ Executes(t) /\ mode[id].kind # "none" /\ id # t
  /\ IF at # {}
       THEN mode' = [mode EXCEPT ![t] = [kind |-> "join", slot |-> Min(at), id |-> id]]
       ELSE mode' \in {mode, [mode EXCEPT ![t] = Mode("stuck")]}
  /\ UNCHANGED <<currentThread, readyList, pageTable, child, father, space, pageVars>>

\* Mutant: the loop does not yield.
JoinWaits_Spins(t) ==
  /\ Now(t, "join") /\ child[t][mode[t].slot] # NULL
  /\ UNCHANGED vars

\* The loop of Join: it yields until the entry is empty.
JoinWaits(t) ==
  /\ \/ Now(t, "join") /\ child[t][mode[t].slot] # NULL
     \/ Now(t, "stuck")
  /\ Switch(Append(readyList, t))
  /\ UNCHANGED <<familyVars, pageVars>>

JoinReturns(t) ==
  /\ Now(t, "join") /\ child[t][mode[t].slot] = NULL
  /\ mode' = [mode EXCEPT ![t] = User]
  /\ UNCHANGED <<currentThread, readyList, pageTable, child, father, space, pageVars>>

\* Mutant: the exiting thread clears its own table of children.
Orphaned_Own(t) == [child EXCEPT ![t] = [i \in Slot |-> NULL]]

\* child once the exiting thread t is taken out of its father's.
Orphaned(t) ==
  [child EXCEPT ![father[t]] = [i \in Slot |-> IF @[i] = t THEN NULL ELSE @[i]]]

\* Exit.  The first thread has no father but itself, and returns to its program.
Exit(t) ==
  /\ Executes(t) /\ father[t] # t
  /\ child' = Orphaned(t)
  /\ mode' = [mode EXCEPT ![t] = Mode("exited")]
  /\ Switch(readyList)
  /\ UNCHANGED <<father, space, pageVars>>

-----------------------------------------------------------------------------
(* Memory.                                                                  *)

\* Bitmap::find; the page fault handler takes frame 0 when none is left.
findFrame == IF bitmap = Frame THEN 0 ELSE Min(Frame \ bitmap)

\* An instruction needs page vpn, and Translate does not find it.
PageFault(t, vpn) ==
  /\ Now(t, "user") /\ tlb = NULL /\ ~Translates(vpn)
  /\ bitmap' = bitmap \cup {findFrame}
  /\ table' = [table EXCEPT ![pageTable][findFrame] = vpn]
  /\ holds' = [holds EXCEPT ![findFrame] = <<pageTable, vpn>>]
  /\ UNCHANGED <<currentThread, readyList, pageTable, familyVars, tlbVars>>

Aged == [e \in Entry |-> IF tlb[e] = NULL THEN NULL ELSE [tlb[e] EXCEPT !.cnt = @ + 1]]

\* Mutant: the entry used last goes.
Victim_Newest(cache) ==
  IF \E e \in Entry : cache[e] = NULL THEN Min({e \in Entry : cache[e] = NULL})
  ELSE Min({e \in Entry : \A d \in Entry : cache[e].cnt <= cache[d].cnt})

\* The first entry that is not valid, or else the first with the highest count.
Victim(cache) ==
  IF \E e \in Entry : cache[e] = NULL THEN Min({e \in Entry : cache[e] = NULL})
  ELSE Min({e \in Entry : \A d \in Entry : cache[e].cnt >= cache[d].cnt})

\* The list q, on which e is at most once, without e.
Without(q, e) ==
  IF e \notin Range(q) THEN q
  ELSE LET at == CHOOSE i \in DOMAIN q : q[i] = e
       IN  [i \in 1 .. Len(q) - 1 |-> IF i < at THEN q[i] ELSE q[i + 1]]

\* With a TLB the handler loads the entry vpn of the page table, although the
\* table is indexed by frame.
Refill(t, vpn) ==
  /\ Now(t, "user") /\ tlb # NULL /\ ~Translates(vpn)
  /\ tlb' = [Aged EXCEPT ![Victim(Aged)] =
               [virtualPage |-> table[pageTable][vpn], cnt |-> 0]]
  /\ loads' = Append(Without(loads, Victim(Aged)), Victim(Aged))
  /\ UNCHANGED <<currentThread, readyList, pageTable, familyVars, table, bitmap, holds>>

Kernel(t) ==
  exec_func(t) \/ exec_funcFails(t) \/ fork_func(t) \/ JoinWaits(t) \/ JoinReturns(t)

Next ==
  \E t \in Thread :
    \/ Yield(t) \/ Exit(t) \/ Kernel(t)
    \/ \E n \in Thread : Exec(t, n) \/ Fork(t, n) \/ SpawnFails(t, n) \/ Join(t, n)
    \/ \E vpn \in Page : PageFault(t, vpn) \/ Refill(t, vpn)

\* The CPU does not stop in the kernel, and the timer interrupts a program.
Fairness == \A t \in Thread : WF_vars(Kernel(t)) /\ WF_vars(Yield(t))

Spec == Init /\ [][Next]_vars /\ Fairness
-----------------------------------------------------------------------------
(* Properties.                                                             *)

Alive == {t \in Thread : mode[t].kind \notin {"none", "leaked", "failed", "exited"}}

\* The table of children is exact: an entry names a thread whose father is the
\* table's owner and which has not exited; a living thread is in one entry of
\* its father's table.  What a failed Exec leaves behind stays in the table.
FamilyExact ==
  /\ \A t \in Thread, i \in Slot : LET c == child[t][i] IN
       c # NULL => father[c] = t /\ mode[c].kind # "exited"
  /\ \A c \in Alive \ {main} : Cardinality({i \in Slot : child[father[c]][i] = c}) = 1

HasOwnTable ==
  mode[currentThread].kind \notin {"exec", "fork"} => pageTable = space[currentThread]

\* A program runs with the page table of its own address space, but for one
\* way out: fork_func leaves the table of whichever program ran before it, and
\* the forked thread has it until it next gets the CPU.
OwnPageTable ==
  [][\/ HasOwnTable' \/ fork_func(currentThread)
     \/ ~HasOwnTable /\ currentThread' = currentThread]_vars

\* A translation in any frame but 0 leads to the page it was made for: frames
\* are never given back, and only frame 0 is taken from another page.  The
\* TLB's counts find the entry that was loaded longest ago, and some count is
\* above 0 whenever the TLB is full: the handler never uses index -1.
TranslationsExact ==
  /\ \A s \in Thread : \A f \in Frame \ {0} :
       table[s][f] # -1 => holds[f] = <<s, table[s][f]>>
  /\ tlb # NULL /\ Len(loads) = TLBSize =>
       /\ Victim(Aged) = Head(loads)
       /\ Aged[Victim(Aged)].cnt > 0

\* Join returns once the child has exited, whatever other programs do.  (With
\* a child whose Exec failed, or that was not the caller's, it may not return.)
\* And a thread that is ready gets the CPU: neither a program in a loop nor a
\* thread that waits in Join, even for ever, keeps it from running.
JoinEnds ==
  /\ \A t, c \in Thread :
       mode[t].kind = "join" /\ mode[t].id = c /\ mode[c].kind = "exited" ~> mode[t].kind = "user"
  /\ \A t \in Thread : t \in Range(readyList) ~> currentThread = t
==============================================================================
