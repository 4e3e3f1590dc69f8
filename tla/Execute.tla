------------------------------ MODULE Execute ------------------------------
(***************************************************************************)
(* The instruction interpreter of bin/execute.c with the opcode numbers of *)
(* bin/encode.h: written apart from machine/mipssim.cc for the same        *)
(* processor, without load delays and without exceptions.  It is the       *)
(* second opinion on what each instruction of module Mips should do.       *)
(*                                                                         *)
(* exc = "stop" stands for u(), exit(2) and a host trap, after which the   *)
(* interpreter does not go on.  A shift by a register takes its amount     *)
(* modulo the word width, as the host's shift instruction does.            *)
(***************************************************************************)
EXTENDS Mips

normalOps ==
    [J |-> 2, JAL |-> 3, BEQ |-> 4, BNE |-> 5, BLEZ |-> 6, BGTZ |-> 7,
     ADDI |-> 8, ADDIU |-> 9, SLTI |-> 10, SLTIU |-> 11, ANDI |-> 12, ORI |-> 13,
     XORI |-> 14, LUI |-> 15, LB |-> 32, LH |-> 33, LWL |-> 34, LW |-> 35,
     LBU |-> 36, LHU |-> 37, LWR |-> 38, SB |-> 40, SH |-> 41, SWL |-> 42,
     SW |-> 43, SWR |-> 46]
specialOps ==
    [SLL |-> 0, SRL |-> 2, SRA |-> 3, SLLV |-> 4, SRLV |-> 6, SRAV |-> 7,
     JR |-> 8, JALR |-> 9, SYSCALL |-> 12, BREAK |-> 13, MFHI |-> 16,
     MTHI |-> 17, MFLO |-> 18, MTLO |-> 19, MULT |-> 24, MULTU |-> 25,
     DIV |-> 26, DIVU |-> 27, ADD |-> 32, ADDU |-> 33, SUB |-> 34, SUBU |-> 35,
     AND |-> 36, OR |-> 37, XOR |-> 38, NOR |-> 39, SLT |-> 42, SLTU |-> 43]
bcondOps == [BLTZ |-> 0, BGEZ |-> 1, BLTZAL |-> 16, BGEZAL |-> 17]

Named(table, code) ==
    IF \E n \in DOMAIN table : table[n] = code
    THEN CHOOSE n \in DOMAIN table : table[n] = code ELSE "u"

Opcode(i) == CASE i.op = 0 -> Named(specialOps, i.funct)
               [] i.op = 1 -> Named(bcondOps, i.rt)
               [] OTHER    -> Named(normalOps, i.op)

\* HI of a product, from the halves of the two words.
HighOfHalves(t1, t2) ==
    LET l1 == LowHalf(t1)
        h1 == t1 \div 2^Half
        l2 == LowHalf(t2)
        h2 == t2 \div 2^Half
    IN  Wrap(h1 * h2 + Signed(Sra(Wrap(h1 * l2), Half))
                     + Signed(Sra(Wrap(h2 * l1), Half)))

ExecuteHiLo(op, a, b, hi, lo) ==
    LET ma == Magnitude(a)
        mb == Magnitude(b)
    IN  CASE op = "MULT" /\ SameSign(a, b) -> <<HighOfHalves(ma, mb), Wrap(ma * mb)>>
          [] op = "MULT"  -> NegateDouble(HighOfHalves(ma, mb), Wrap(ma * mb))
          [] op = "MULTU" -> <<HighOfHalves(a, b), Wrap(a * b)>>
          [] op = "DIV"   -> LET q == Quotient(Signed(a), Signed(b))
                             IN  <<Wrap(Signed(a) - q * Signed(b)), Wrap(q)>>
          [] op = "DIVU"  -> <<a % b, a \div b>>
          [] op = "MTHI"  -> <<a, lo>>
          [] op = "MTLO"  -> <<hi, a>>
          [] OTHER        -> <<hi, lo>>

ExecuteAlu(op, a, b, x, sh, hi, lo) ==
    CASE op \in {"ADD", "ADDU"}   -> Wrap(a + b)
      [] op \in {"SUB", "SUBU"}   -> Wrap(a - b)
      [] op \in {"ADDI", "ADDIU"} -> Wrap(a + x)
      [] op = "AND"   -> a & b
      [] op = "OR"    -> a | b
      [] op = "XOR"   -> a ^^ b
      [] op = "NOR"   -> Complement(a | b)
      [] op = "ANDI"  -> a & x
      [] op = "ORI"   -> a | x
      [] op = "XORI"  -> a ^^ x
      [] op = "LUI"   -> Wrap(x * 2^Half)
      [] op = "SLT"   -> Flag(Signed(a) < Signed(b))
      [] op = "SLTU"  -> Flag(a < b)
      [] op = "SLTI"  -> Flag(Signed(a) < Signed(x))
      [] op = "SLTIU" -> Flag(a < x)
      [] op = "SLL"   -> Wrap(b * 2^sh)
      [] op = "SRL"   -> b \div 2^sh
      [] op = "SRA"   -> Sra(b, sh)
      [] op = "SLLV"  -> Wrap(b * 2^(a % W))
      [] op = "SRLV"  -> b \div 2^(a % W)
      [] op = "SRAV"  -> Sra(b, a % W)
      [] op = "MFHI"  -> hi
      [] op = "MFLO"  -> lo

\* npc after instruction op at xpc; an instruction that falls through goes on
\* at the one after its delay slot.
Npc(op, xpc, a, b, x, target) ==
    LET branch ==
            \/ op = "BEQ" /\ a = b
            \/ op = "BNE" /\ a # b
            \/ op = "BLEZ" /\ Signed(a) <= 0
            \/ op = "BGTZ" /\ Signed(a) > 0
            \/ op \in {"BLTZ", "BLTZAL"} /\ Signed(a) < 0
            \/ op \in {"BGEZ", "BGEZAL"} /\ Signed(a) >= 0
    IN  CASE branch                   -> Wrap(xpc + 4 + 4 * x)
          [] op \in {"JR", "JALR"}    -> a
          [] op \in {"J", "JAL"}      -> InRegion(xpc, target)
          [] OTHER                    -> Wrap(xpc + 8)

Stops(op, a, b) ==
    \/ op \in {"u", "SYSCALL", "BREAK", "SWL", "SWR"}
    \/ op \in {"DIV", "DIVU"} /\ b = 0
    \/ DivideTraps(op, a, b)

\* LWL's mask -1 >> n is -1 again and clears nothing.
ExecuteLoad(op, mem, addr, old) ==
    LET word == ReadMem(mem, addr - (addr % 4), 4)
    IN  CASE op = "LWL" -> old | Wrap(word * 2^(ByteBits * (addr % 4)))
          [] op = "LWR" ->
                IF addr % 4 = 0 THEN word
                ELSE (old - (old % 2^(ByteBits * (addr % 4))))
                     | Sra(word, ByteBits * (4 - (addr % 4)))
          [] OTHER -> LoadedValue(op, ReadMem(mem, addr, Size(op)), old)

\* One turn of runprogram's loop for instruction i.  xpc is m.pc; the
\* branch and link addresses are counted from it.
runprogram(m, i) ==
    LET op   == Opcode(i)
        r    == [m.reg EXCEPT ![0] = 0]
        x    == Extend(i.imm, Half)
        a    == r[i.rs]
        b    == r[i.rt]
        addr == Wrap(a + x)
        d    == IF op \in Loads THEN i.rt ELSE Dest([opCode |-> op, rt |-> i.rt, rd |-> i.rd])
        v    == CASE op \in Loads -> ExecuteLoad(op, m.mem, addr, b)
                  [] op \in ToRd \cup ToRt -> ExecuteAlu(op, a, b, x, i.shamt, m.hi, m.lo)
                  [] OTHER -> Wrap(m.pc + 8)
        hl   == ExecuteHiLo(op, a, b, m.hi, m.lo)
        \* BLTZAL and BGEZAL write Reg[31] before they test Reg[rs]
        test == IF op \in {"BLTZAL", "BGEZAL"} /\ i.rs = R31 THEN v ELSE a
        npc  == Npc(op, m.pc, test, b, x, i.target)
    IN  IF Stops(op, a, b) \/ (op \in Loads \cup Stores /\ ~Readable(addr, Size(op)))
        THEN [m EXCEPT !.exc = "stop"]
        ELSE [m EXCEPT !.reg = IF d = -1 THEN r ELSE [r EXCEPT ![d] = v, ![0] = 0],
                       !.hi = hl[1], !.lo = hl[2],
                       !.mem = IF op \in Stores
                               THEN WriteMem(@, addr, Size(op), b) ELSE @,
                       !.pc = m.next, !.next = npc]

-----------------------------------------------------------------------------
(* What the processor promises.                                             *)

\* The registers an instruction reads before it completes.
Reads(i) ==
    (IF i.opCode \in {"SLL", "SRL", "SRA", "MFHI", "MFLO", "LUI", "J", "JAL"}
     THEN {} ELSE {i.rs})
    \cup
    (IF i.opCode \in (ToRd \ {"MFHI", "MFLO"}) \cup Stores
                     \cup {"MULT", "MULTU", "DIV", "DIVU", "BEQ", "BNE"}
     THEN {i.rt} ELSE {})

Drained(m) == DelayedLoad(m, 0, 0)
UsesPendingLoad(m, i) == m.loadReg # 0 /\ m.loadReg \in Reads(i) \cup {Dest(i)}
Sequential(m) == m.next = m.pc + 4 /\ m.loadReg = 0
InRange(n) == n \in -(2^(W - 1)) .. 2^(W - 1) - 1

\* A step that fetched an instruction.
Executed == ran' # ran /\ Readable(cpu.pc, 4)

\* Registers hold words, R0 holds zero, and a pending load names a register.
CpuTypeOK ==
    /\ cpu.reg \in [GPR -> Word] /\ cpu.reg[0] = 0
    /\ {cpu.hi, cpu.lo, cpu.pc, cpu.next, cpu.loadValue} \subseteq Word
    /\ cpu.loadReg \in GPR
    /\ cpu.mem \in [Addr -> Byte]

\* The arithmetic of OneInstruction and Mult is integer arithmetic: ADD, ADDI
\* and SUB raise OverflowException exactly when the sum of the two ints is no
\* int, MULT and MULTU leave the whole double-word product in HiReg and LoReg,
\* and DIV leaves a quotient and remainder that multiply out, the remainder
\* with the sign of the dividend; the one quotient that is no int stops Nachos.
ArithmeticExact == [][Executed =>
    LET i  == Decode(instr')
        op == i.opCode
        ua == cpu.reg[i.rs]
        ub == cpu.reg[i.rt]
        a  == Signed(ua)
        b  == Signed(ub)
        n  == CASE op = "ADD"  -> a + b
                [] op = "ADDI" -> a + Signed(i.extra)
                [] op = "SUB"  -> a - b
        hi == Signed(cpu'.hi)
        lo == Signed(cpu'.lo)
    IN  /\ op \in {"ADD", "ADDI", "SUB"} =>
              /\ (cpu'.exc = "Overflow") = ~InRange(n)
              /\ InRange(n) /\ Dest(i) \notin {0, cpu.loadReg} =>
                    Signed(cpu'.reg[Dest(i)]) = n
        /\ op = "MULT"  => hi * 2^W + cpu'.lo = a * b
        /\ op = "MULTU" => cpu'.hi * 2^W + cpu'.lo = ua * ub
        /\ op = "DIV" /\ b # 0 =>
              \/ a = lo * b + hi /\ Abs(hi) < Abs(b) /\ (hi = 0 \/ (hi < 0) = (a < 0))
              \/ cpu'.exc = "SIGFPE" /\ ~InRange(-a)]_vars

\* An instruction that faults and is restarted from the beginning, as the
\* comment on OneInstruction promises, ends as if it had not faulted:
\* RaiseException applies the pending load first and changes nothing else.
\* The one difference a program can see is an instruction that uses the
\* register of the load before it, which then meets the loaded value early.
RestartTransparent == [][ran' # ran /\ cpu'.exc \notin {"ASSERT", "SIGFPE"} =>
    LET i         == Decode(instr')
        restarted == [RaiseException(cpu, "PageFault") EXCEPT !.exc = "None"]
    IN  /\ cpu'.exc # "None" => [cpu' EXCEPT !.exc = "None"] = Drained(cpu)
        /\ cpu'.exc = "None" =>
              \/ UsesPendingLoad(cpu, i)
              \/ Drained(cpu') = Drained(OneInstruction(restarted, i))]_vars

\* The middle products carry into the high word, or are negative as ints.
CarryLost(t1, t2) ==
    LET m1 == (t1 \div 2^Half) * LowHalf(t2)
        m2 == (t2 \div 2^Half) * LowHalf(t1)
        c  == (LowHalf(t1) * LowHalf(t2)) \div 2^Half
    IN  Negative(m1) \/ Negative(m2) \/ LowHalf(m1) + LowHalf(m2) + c >= 2^Half

\* Where the two interpreters of the repository are known to part: mipssim's
\* OR drops rt, its logical right shifts are arithmetic, it traps overflow and
\* division by zero that execute.c leaves to the host, and JALR overwrites its
\* own target; execute.c sign-extends the immediate of ANDI, ORI and XORI,
\* loses carries into HI, and takes the region of a jump from the jump itself.
KnownDifference(m, i) ==
    LET d  == Decode(i)
        op == d.opCode
        a  == m.reg[i.rs]
        b  == m.reg[i.rt]
    IN  \/ op = "OR" /\ (a | b) # a
        \/ op = "SRL" /\ Negative(b) /\ d.extra # 0
        \/ op = "SRLV" /\ Negative(b) /\ a % W # 0
        \/ op \in {"ANDI", "ORI", "XORI"} /\ Negative(d.extra)
        \/ op = "MULT" /\ CarryLost(Magnitude(a), Magnitude(b))
        \/ op = "MULTU" /\ CarryLost(a, b)
        \/ op = "JALR" /\ i.rd = i.rs
        \/ op \in {"J", "JAL"} /\ InRegion(Wrap(m.pc + 8), 0) # InRegion(m.pc, 0)
        \/ op \in {"LWL", "LWR"}

\* For every instruction word, both interpreters decode it to the same
\* operation, and when neither refuses it they leave the same registers,
\* memory and program counters, except in the cases listed above.
InterpretersAgree == [][Executed /\ Sequential(cpu) =>
    LET other == runprogram(cpu, instr')
        op    == Decode(instr').opCode
    IN  /\ Opcode(instr') \in {op, "u", "BREAK"}
        /\ Opcode(instr') \in {"u", "BREAK"} <=> op \in {"RES", "UNIMP"}
        /\ cpu'.exc = "None" /\ other.exc = "None" =>
              \/ Drained(cpu') = other
              \/ KnownDifference(cpu, instr')]_vars

\* OneInstruction does to registers and memory what the instruction set says:
\* judged by integer arithmetic, and by the other interpreter.
InstructionsExact == []CpuTypeOK /\ ArithmeticExact /\ InterpretersAgree

\* OR combines rs and rt, as the operand table opStrings prints it:
\* mipssim.h:202 {"OR r%d,r%d,r%d", {RD, RS, RT}}.
OrCombinesBoth == [][Executed =>
    LET i == Decode(instr')
    IN  i.opCode = "OR" /\ Dest(i) \notin {0, cpu.loadReg} =>
            cpu'.reg[Dest(i)] = (cpu.reg[i.rs] | cpu.reg[i.rt])]_vars
=============================================================================
