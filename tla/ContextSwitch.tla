---------------------------- MODULE ContextSwitch ----------------------------
(***************************************************************************)
(* SWITCH and ThreadRoot for the four hosts (threads/switch.c, with the    *)
(* layout of threads/switch.h), and Thread::StackAllocate, which prepares  *)
(* a new thread for both (threads/thread.cc).                              *)
(*                                                                         *)
(* The assembly is kept as programs over registers and memory blocks: a    *)
(* block is a Thread object, whose offset 0 is stackTop and whose words    *)
(* from 4 on are machineState, or the top of a stack.  Values are tagged   *)
(* tuples.  A register window of the SPARC is seen from SWITCH: i0 .. i7   *)
(* are the out registers of its caller, fp its caller's stack pointer, and *)
(* the locals of a window live on the stack of their thread.               *)
(***************************************************************************)
EXTENDS Integers, Sequences

CONSTANTS Host,    \* the hosts to be looked at
          main,    \* the thread that Nachos starts with
          Forked   \* the threads that are forked

VARIABLES host, core,   \* the host, its registers and memory
          running,      \* the thread on the processor
          stage,        \* how many calls ThreadRoot has made for a thread
          calls,        \* history: those calls, <<function, argument>>
          frame,        \* registers at the last call of ThreadRoot
          left,         \* history: registers with which a thread called SWITCH
          phase         \* tells apart the values a thread computes

switchVars == <<host, core, running, stage, calls, frame, left, phase>>

ThreadOf == Forked \cup {main}

Value(kind, x, y) == <<kind, x, y>>
Object(t) == Value("thread", t, "")
Stack(t) == Value("stack", t, "")
Code(f) == Value("code", f, "")
Func(t) == Value("func", t, "")
Arg(t) == Value("arg", t, "")
ReturnTo(t) == Value("ret", t, "")
Own(t, r, n) == Value("own", t, <<r, n>>)
Junk == Value("junk", "", "")

-----------------------------------------------------------------------------
(* switch.h: the offsets of the saved registers, and the registers that     *)
(* hand ThreadRoot its four values.                                         *)

OffsetMIPS ==
    [SP |-> 0, S0 |-> 4, S1 |-> 8, S2 |-> 12, S3 |-> 16, S4 |-> 20, S5 |-> 24,
     S6 |-> 28, S7 |-> 32, FP |-> 36, PC |-> 40]
OffsetSPARC ==
    [SP |-> 0, I0 |-> 4, I1 |-> 8, I2 |-> 12, I3 |-> 16, I4 |-> 20, I5 |-> 24,
     I6 |-> 28, I7 |-> 32]
OffsetSNAKE ==
    [SP |-> 0, S0 |-> 4, S1 |-> 8, S2 |-> 12, S3 |-> 16, S4 |-> 20, S5 |-> 24,
     S6 |-> 28, S7 |-> 32, S8 |-> 36, S9 |-> 40, S10 |-> 44, S11 |-> 48,
     S12 |-> 52, S13 |-> 56, S14 |-> 60, S15 |-> 64, PC |-> 68]
\* top, arg1 and arg2 are 0, 4 and 8 off the stack pointer.
OffsetI386 ==
    [ESP |-> 0, EAX |-> 4, EBX |-> 8, ECX |-> 12, EDX |-> 16, EBP |-> 20,
     ESI |-> 24, EDI |-> 28, PC |-> 32, top |-> 0, arg1 |-> 4, arg2 |-> 8]
Offset == [MIPS |-> OffsetMIPS, SPARC |-> OffsetSPARC, SNAKE |-> OffsetSNAKE,
           i386 |-> OffsetI386]

\* The slots of ThreadRoot's values: machineState[slot/4 - 1] for all hosts.
StateMIPS == [PC |-> "PC", InitialPC |-> "S0", InitialArg |-> "S1", WhenDonePC |-> "S2", StartupPC |-> "S3"]
StateSPARC == [PC |-> "I7", InitialPC |-> "I0", InitialArg |-> "I1", WhenDonePC |-> "I2", StartupPC |-> "I3"]
StateSNAKE == [PC |-> "PC", InitialPC |-> "S0", InitialArg |-> "S1", WhenDonePC |-> "S2", StartupPC |-> "S3"]
StateI386 == [PC |-> "PC", InitialPC |-> "ESI", InitialArg |-> "EDX", WhenDonePC |-> "EDI", StartupPC |-> "ECX"]
StateSlot == [MIPS |-> StateMIPS, SPARC |-> StateSPARC, SNAKE |-> StateSNAKE, i386 |-> StateI386]
StateIndex(h, v) == Offset[h][StateSlot[h][v]] \div 4 - 1

-----------------------------------------------------------------------------
(* The programs: store, load and move, and the calls of ThreadRoot.         *)

Save(r, base, slot) == <<"st", r, base, slot>>
Load(r, base, slot) == <<"ld", r, base, slot>>
Move(to, from) == <<"mv", to, from, "">>
Saves(base, regs, slots) == [k \in DOMAIN regs |-> Save(regs[k], base, slots[k])]
Restores(base, regs, slots) == [k \in DOMAIN regs |-> Load(regs[k], base, slots[k])]

SwitchMIPS ==
    LET regs  == <<"sp", "s0", "s1", "s2", "s3", "s4", "s5", "s6", "s7", "fp", "ra">>
        slots == <<"SP", "S0", "S1", "S2", "S3", "S4", "S5", "S6", "S7", "FP", "PC">>
    IN  Saves("a0", regs, slots) \o Restores("a1", regs, slots)

SwitchSPARC ==
    LET regs  == <<"i0", "i1", "i2", "i3", "i4", "i5", "i7">>
        slots == <<"I0", "I1", "I2", "I3", "I4", "I5", "I7">>
    IN  <<Save("fp", "i0", "SP")>> \o Saves("i0", regs, slots)
        \o <<Move("own l0", "i1")>> \o Restores("own l0", regs, slots)
        \o <<Load("fp", "own l0", "SP")>>

SwitchSNAKE ==
    LET regs  == <<"sp", "r3", "r4", "r5", "r6", "r7", "r8", "r9", "r10", "r11",
                   "r12", "r13", "r14", "r15", "r16", "r17">>
        slots == <<"SP", "S0", "S1", "S2", "S3", "S4", "S5", "S6", "S7", "S8",
                   "S9", "S10", "S11", "S12", "S13", "S14">>
    IN  Saves("arg0", regs \o <<"r18", "rp">>, slots \o <<"S15", "PC">>)
        \o Restores("arg1", regs \o <<"rp", "r18">>, slots \o <<"PC", "S15">>)

kept386 == <<"ebx", "ecx", "edx", "esi", "edi", "ebp", "esp">>
slots386 == <<"EBX", "ECX", "EDX", "ESI", "EDI", "EBP", "ESP">>

\* Mutant: ebx is used before it is saved.
SaveI386_EbxLate ==
    <<Move("eax_save", "eax"), Load("eax", "esp", "arg1"), Move("ebx", "eax_save"),
      Save("ebx", "eax", "EAX")>> \o Saves("eax", kept386, slots386)
    \o <<Load("ebx", "esp", "top"), Save("ebx", "eax", "PC")>>
SaveI386 ==
    <<Move("eax_save", "eax"), Load("eax", "esp", "arg1")>>
    \o Saves("eax", kept386, slots386)
    \o <<Move("ebx", "eax_save"), Save("ebx", "eax", "EAX"),
         Load("ebx", "esp", "top"), Save("ebx", "eax", "PC")>>

\* The saved program counter goes to 4(%esp); ret takes 0(%esp).
LoadI386 ==
    <<Load("eax", "esp", "arg2"), Load("ebx", "eax", "EAX"), Move("eax_save", "ebx")>>
    \o Restores("eax", kept386, slots386)
    \o <<Load("eax", "eax", "PC"), Save("eax", "esp", "arg1"), Move("eax", "eax_save")>>

SWITCH == [MIPS |-> SwitchMIPS, SPARC |-> SwitchSPARC, SNAKE |-> SwitchSNAKE,
           i386 |-> SaveI386 \o LoadI386]

\* A call and the moves before it.
Call(moves, function, argument) ==
    [moves |-> moves, function |-> function, argument |-> argument]

RootMIPS == <<Call(<<Move("fp", "z")>>, "s3", "z"),
              Call(<<Move("a0", "s1")>>, "s0", "a0"), Call(<<>>, "s2", "z")>>
RootSPARC == <<Call(<<Move("fp", "z"), Move("l0", "i0"), Move("l1", "i1"), Move("l2", "i2")>>,
                    "i3", "z"),
               Call(<<Move("o0", "l1")>>, "l0", "o0"), Call(<<>>, "l2", "z")>>
RootSNAKE == <<Call(<<>>, "r6", "z"), Call(<<Move("arg0", "r4")>>, "r3", "arg0"),
               Call(<<>>, "r5", "z")>>
\* The argument is pushed before the first call.
\* The startup function is in ecx, although the comment says eax.
RootI386 == <<Call(<<Move("pushed", "edx")>>, "ecx", "z"), Call(<<>>, "esi", "pushed"),
              Call(<<>>, "edi", "z")>>
ThreadRoot == [MIPS |-> RootMIPS, SPARC |-> RootSPARC, SNAKE |-> RootSNAKE, i386 |-> RootI386]

SavedRegister(h) ==
    {SWITCH[h][k][2] : k \in {k \in DOMAIN SWITCH[h] : SWITCH[h][k][1] = "st"}}

\* What a C function leaves as it found it.
CalleeSaved ==
    [MIPS  |-> {"sp", "fp", "s0", "s1", "s2", "s3", "s4", "s5", "s6", "s7"},
     SPARC |-> {"fp", "l0", "l1", "l2"},
     SNAKE |-> {"sp", "r3", "r4", "r5", "r6", "r7", "r8", "r9", "r10", "r11",
                "r12", "r13", "r14", "r15", "r16", "r17", "r18"},
     i386  |-> {"ebx", "esi", "edi", "ebp", "esp", "pushed"}]

StackPointer == [MIPS |-> "sp", SPARC |-> "fp", SNAKE |-> "sp", i386 |-> "esp"]

\* Where a C caller puts the two arguments and the return address; on the
\* i386 they are pushed.
Arguments == [MIPS |-> <<"a0", "a1", "ra">>, SPARC |-> <<"i0", "i1", "i7">>,
              SNAKE |-> <<"arg0", "arg1", "rp">>]

Register ==
    [MIPS  |-> CalleeSaved.MIPS \cup {"z", "a0", "a1", "ra"},
     SPARC |-> CalleeSaved.SPARC \cup {"z", "o0", "i0", "i1", "i2", "i3", "i4", "i5", "i7", "own l0"},
     SNAKE |-> CalleeSaved.SNAKE \cup {"z", "arg0", "arg1", "rp"},
     i386  |-> CalleeSaved.i386 \cup {"z", "eax", "ecx", "edx", "eax_save"}]

-----------------------------------------------------------------------------
(* Execution.                                                               *)

Do(m, i) ==
    CASE i[1] = "mv" -> [m EXCEPT !.reg[i[2]] = m.reg[i[3]]]
      [] i[1] = "ld" -> [m EXCEPT !.reg[i[2]] = m.mem[m.reg[i[3]]][Offset[host][i[4]]]]
      [] i[1] = "st" -> [m EXCEPT !.mem[m.reg[i[3]]][Offset[host][i[4]]] = m.reg[i[2]]]

Run(m, program) ==
    LET after[k \in 0 .. Len(program)] ==
            IF k = 0 THEN m ELSE Do(after[k - 1], program[k])
    IN  after[Len(program)]

\* The compiled call of SWITCH(old, new) in thread old.
Called(m, old, new) ==
    IF host = "i386"
    THEN [m EXCEPT !.mem[Stack(old)][0] = ReturnTo(old), !.mem[Stack(old)][4] = Object(old),
                   !.mem[Stack(old)][8] = Object(new)]
    ELSE [m EXCEPT !.reg[Arguments[host][1]] = Object(old),
                   !.reg[Arguments[host][2]] = Object(new),
                   !.reg[Arguments[host][3]] = ReturnTo(old)]

\* Where the last instruction of SWITCH goes.
Resumed(m) ==
    IF host = "i386" THEN m.mem[m.reg["esp"]][0] ELSE m.reg[Arguments[host][3]]

\* The code of thread t computes: it uses every register for itself.
Busy(m, t, n) ==
    [m EXCEPT !.reg = [r \in Register[host] |->
        IF r = StackPointer[host] THEN Stack(t) ELSE Own(t, r, n)]]

\* machineState[n] follows stackTop.
StackAllocate(m, t) ==
    LET value == [PC |-> Code("ThreadRoot"), StartupPC |-> Code("InterruptEnable"),
                  InitialPC |-> Func(t), InitialArg |-> Arg(t), WhenDonePC |-> Code("ThreadFinish")]
        set   == {<<4 + 4 * StateIndex(host, v), value[v]>> : v \in DOMAIN value}
                 \cup {<<0, Stack(t)>>}
    IN  [m EXCEPT !.mem[Object(t)] = [x \in DOMAIN @ |->
                      IF \E e \in set : e[1] = x THEN (CHOOSE e \in set : e[1] = x)[2] ELSE @[x]],
                  !.mem[Stack(t)][0] = IF host = "i386" THEN Code("ThreadRoot") ELSE @]

\* ThreadRoot goes on to its n-th call, and the function called computes.
RootCall(m, t, n) ==
    LET c == ThreadRoot[host][n]
        r == Run(m, c.moves)
    IN  /\ core' = Busy(r, t, phase)
        /\ calls' = [calls EXCEPT ![t] = Append(@, <<r.reg[c.function],
                                        IF c.argument = "z" THEN Junk ELSE r.reg[c.argument]>>)]
        /\ frame' = [frame EXCEPT ![t] = r.reg]
        /\ stage' = [stage EXCEPT ![t] = n]

-----------------------------------------------------------------------------

Uninitialized == [x \in {4 * n : n \in 0 .. 17} |-> Junk]

SwitchInit ==
    /\ host \in Host
    /\ core = Busy([reg |-> <<>>, mem |-> [b \in {Object(t) : t \in ThreadOf}
                                                  \cup {Stack(t) : t \in ThreadOf} |-> Uninitialized]],
                   main, 0)
    /\ running = main
    /\ stage = [t \in ThreadOf |-> IF t = main THEN 2 ELSE -1]
    /\ calls = [t \in ThreadOf |-> <<>>]
    /\ frame = [t \in ThreadOf |-> <<>>]
    /\ left = [t \in ThreadOf |-> <<>>]
    /\ phase = 0

\* The running thread forks t.
SwitchFork(t) ==
    /\ stage[t] = -1
    /\ core' = StackAllocate(core, t)
    /\ stage' = [stage EXCEPT ![t] = 0]
    /\ UNCHANGED <<host, running, calls, frame, left, phase>>

\* After some work of its own the running thread calls SWITCH(running, t), from
\* Scheduler::Run: t is new or has left before, and has not finished.
SwitchTo(t) ==
    /\ t # running /\ stage[t] \in 0 .. 2
    /\ LET called == Called(Busy(core, running, phase), running, t)
           after  == Run(called, SWITCH[host])
       IN  /\ left' = [left EXCEPT ![running] = called.reg]
           /\ IF Resumed(after) = Code("ThreadRoot") THEN RootCall(after, t, 1)
              ELSE core' = after /\ UNCHANGED <<stage, calls, frame>>
    /\ running' = t
    /\ phase' = 1 - phase
    /\ UNCHANGED host

\* InterruptEnable or the thread's function returns to ThreadRoot.
FunctionReturns ==
    /\ running # main /\ stage[running] \in {1, 2}
    /\ RootCall([core EXCEPT !.reg = [r \in Register[host] |->
                    IF r \in CalleeSaved[host] THEN frame[running][r] ELSE Junk]],
                running, stage[running] + 1)
    /\ UNCHANGED <<host, running, left, phase>>

SwitchNext ==
    \/ \E t \in Forked : SwitchFork(t)
    \/ \E t \in ThreadOf : SwitchTo(t)
    \/ FunctionReturns

SwitchSpec == SwitchInit /\ [][SwitchNext]_switchVars

-----------------------------------------------------------------------------
(* What SWITCH and ThreadRoot promise.                                      *)

\* A thread that is switched back to returns from its own call of SWITCH, with
\* the stack pointer and every register that SWITCH saves as it left them,
\* whatever the other threads did in between.
ContextKept ==
    [][running' # running /\ left[running'] # <<>> =>
          /\ Resumed(core') = ReturnTo(running')
          /\ \A r \in SavedRegister(host) : core'.reg[r] = left[running'][r]]_switchVars

\* A forked thread, although switched away from at any point and although the
\* functions it calls overwrite what they may, calls InterruptEnable, then its
\* own function with its own argument, then ThreadFinish.
RootCallsInOrder ==
    \A t \in Forked :
        LET wanted == <<<<Code("InterruptEnable"), Junk>>, <<Func(t), Arg(t)>>,
                        <<Code("ThreadFinish"), Junk>>>>
        IN  calls[t] = SubSeq(wanted, 1, Len(calls[t]))

\* On all four hosts a thread cannot tell that it was switched away from, nor
\* that its first SWITCH came out of StackAllocate.
SwitchExact == ContextKept /\ []RootCallsInOrder
=============================================================================
