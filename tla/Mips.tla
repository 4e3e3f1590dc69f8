-------------------------------- MODULE Mips --------------------------------
(***************************************************************************)
(* The simulated MIPS processor of machine/mipssim.cc, one action per      *)
(* instruction.                                                            *)
(*                                                                         *)
(* The word width is a parameter: a byte has ByteBits bits (8 in the       *)
(* code), a word four bytes, and every field that the code cuts out of an  *)
(* instruction keeps its place relative to them.  A word is the natural    *)
(* number of its bit pattern; Signed gives its value as an int.  Address   *)
(* translation is reduced to what an instruction can tell: an address      *)
(* above memory is an AddressErrorException (UserProcess has the rest).    *)
(***************************************************************************)
EXTENDS Integers, Sequences, FiniteSets, Bitwise

CONSTANTS ByteBits,    \* bits in a byte: 8 in the code
          RegionBits,  \* bits of the address that J and JAL replace: 28
          GPR,         \* general registers, 0 among them
          R31,         \* the register that a call links through
          MemBytes,    \* bytes of memory
          Instr,       \* the undecoded instructions that may be fetched
          UserStates,  \* register sets a user program may arrive with
          MaxInstr     \* bound: how many instructions are run

ASSUME MipsAssumption ==
    ByteBits \in Nat \ {0} /\ 0 \in GPR /\ R31 \in GPR \ {0} /\ MemBytes % 4 = 0

VARIABLES cpu,    \* Machine::registers, mainMemory, and the last exception
          instr,  \* the instruction last fetched
          ran     \* how many instructions were fetched

vars == <<cpu, instr, ran>>

W == 4 * ByteBits
Half == 2 * ByteBits
Word == 0 .. 2^W - 1
Byte == 0 .. 2^ByteBits - 1
Addr == 0 .. MemBytes - 1

Wrap(n) == n % 2^W
Negative(x) == x >= 2^(W - 1)
Signed(x) == IF Negative(x) THEN x - 2^W ELSE x
SameSign(x, y) == Negative(x) = Negative(y)
Extend(x, bits) == IF x >= 2^(bits - 1) THEN Wrap(x - 2^bits) ELSE x
Complement(x) == 2^W - 1 - x
Sra(x, n) == Wrap(Signed(x) \div 2^n)
Flag(b) == IF b THEN 1 ELSE 0
\* C's / and % truncate towards zero.
Abs(n) == IF n < 0 THEN -n ELSE n
Quotient(n, d) == (Abs(n) \div Abs(d)) * (IF (n < 0) = (d < 0) THEN 1 ELSE -1)

-----------------------------------------------------------------------------
(* Instruction::Decode: opTable by bits 31:26, specialTable by the funct    *)
(* field of a SPECIAL, the rt field of a BCOND.                             *)

RES == <<"RES", "RES", "RES", "RES">>
UNIMP == <<"UNIMP", "UNIMP", "UNIMP", "UNIMP">>

opTable ==
    <<"SPECIAL", "BCOND", "J", "JAL", "BEQ", "BNE", "BLEZ", "BGTZ",
      "ADDI", "ADDIU", "SLTI", "SLTIU", "ANDI", "ORI", "XORI", "LUI">>
    \o UNIMP \o RES \o RES \o RES \o
    <<"LB", "LH", "LWL", "LW", "LBU", "LHU", "LWR", "RES",
      "SB", "SH", "SWL", "SW", "RES", "RES", "SWR", "RES">>
    \o UNIMP \o RES \o UNIMP \o RES

specialTable ==
    <<"SLL", "RES", "SRL", "SRA", "SLLV", "RES", "SRLV", "SRAV",
      "JR", "JALR", "RES", "RES", "SYSCALL", "UNIMP", "RES", "RES",
      "MFHI", "MTHI", "MFLO", "MTLO">> \o RES \o
    <<"MULT", "MULTU", "DIV", "DIVU">> \o RES \o
    <<"ADD", "ADDU", "SUB", "SUBU", "AND", "OR", "XOR", "NOR",
      "RES", "RES", "SLT", "SLTU">> \o RES \o RES \o RES \o RES \o RES

bcond == [i \in 0 .. 31 |->
    CASE i = 0 -> "BLTZ" [] i = 1 -> "BGEZ" [] i = 16 -> "BLTZAL"
      [] i = 17 -> "BGEZAL" [] OTHER -> "UNIMP"]

Decode(i) ==
    LET op == opTable[i.op + 1]
    IN  [opCode |-> CASE op = "SPECIAL" -> specialTable[i.funct + 1]
                      [] op = "BCOND"   -> bcond[i.rt]
                      [] OTHER          -> op,
         rs |-> i.rs, rt |-> i.rt, rd |-> i.rd,
         extra |-> CASE op = "SPECIAL"     -> i.shamt
                     [] op \in {"J", "JAL"} -> i.target
                     [] OTHER              -> Extend(i.imm, Half)]

-----------------------------------------------------------------------------
(* Mult: a bit of a at a time, adding a shifted b into a double word.       *)

Magnitude(x) == IF Negative(x) THEN Wrap(-x) ELSE x

MultLoop(a, b) ==
    LET step[n \in 0 .. W] ==
        IF n = 0
        THEN [a |-> a, bLo |-> b, bHi |-> 0, lo |-> 0, hi |-> 0]
        ELSE LET s   == step[n - 1]
                 sum == Wrap(s.lo + s.bLo)
                 add == s.a % 2 = 1
             IN  [a   |-> Sra(s.a, 1),
                  bLo |-> Wrap(2 * s.bLo),
                  bHi |-> Wrap(2 * s.bHi + Flag(Negative(s.bLo))),
                  lo  |-> IF add THEN sum ELSE s.lo,
                  hi  |-> IF add THEN Wrap(s.hi + s.bHi + Flag(sum < s.bLo))
                                 ELSE s.hi]
    IN  <<step[W].hi, step[W].lo>>

\* Mutant: the increment does not carry into the high word.
NegateDouble_NoCarry(hi, lo) == <<Complement(hi), Wrap(-lo)>>
NegateDouble(hi, lo) ==
    <<Wrap(Complement(hi) + Flag(lo = 0)), Wrap(-lo)>>

Mult(a, b, signedArith) ==
    LET p == IF signedArith THEN MultLoop(Magnitude(a), Magnitude(b))
                            ELSE MultLoop(a, b)
    IN  IF signedArith /\ a # 0 /\ b # 0 /\ ~SameSign(a, b)
        THEN NegateDouble(p[1], p[2]) ELSE p

-----------------------------------------------------------------------------
(* Machine::OneInstruction.  a and b are registers[rs] and registers[rt],   *)
(* x is instr->extra; a record m holds the registers and the memory.        *)

ToRd == {"ADD", "ADDU", "SUB", "SUBU", "AND", "OR", "XOR", "NOR", "SLT",
         "SLTU", "SLL", "SRL", "SRA", "SLLV", "SRLV", "SRAV", "MFHI", "MFLO"}
ToRt == {"ADDI", "ADDIU", "ANDI", "ORI", "XORI", "SLTI", "SLTIU", "LUI"}
HiLo == {"MULT", "MULTU", "DIV", "DIVU", "MTHI", "MTLO"}
Branches == {"BEQ", "BNE", "BLEZ", "BGTZ", "BLTZ", "BGEZ", "BLTZAL", "BGEZAL"}
Jumps == {"J", "JAL", "JR", "JALR"}
Loads == {"LB", "LBU", "LH", "LHU", "LW", "LWL", "LWR"}
Stores == {"SB", "SH", "SW", "SWL", "SWR"}

LowHalf(x) == x % 2^Half

Alu(op, a, b, x, hi, lo) ==
    CASE op \in {"ADD", "ADDU"}   -> Wrap(a + b)
      [] op \in {"SUB", "SUBU"}   -> Wrap(a - b)
      [] op \in {"ADDI", "ADDIU"} -> Wrap(a + x)
      [] op = "AND"   -> a & b
      [] op = "OR"    -> a | a
      [] op = "XOR"   -> a ^^ b
      [] op = "NOR"   -> Complement(a | b)
      [] op = "ANDI"  -> a & LowHalf(x)
      [] op = "ORI"   -> a | LowHalf(x)
      [] op = "XORI"  -> a ^^ LowHalf(x)
      [] op = "LUI"   -> Wrap(x * 2^Half)
      [] op = "SLT"   -> Flag(Signed(a) < Signed(b))
      [] op = "SLTU"  -> Flag(a < b)
      [] op = "SLTI"  -> Flag(Signed(a) < Signed(x))
      [] op = "SLTIU" -> Flag(a < x)
      [] op = "SLL"   -> Wrap(b * 2^x)
      [] op = "SLLV"  -> Wrap(b * 2^(a % W))
      [] op \in {"SRL", "SRA"}    -> Sra(b, x)
      [] op \in {"SRLV", "SRAV"}  -> Sra(b, a % W)
      [] op = "MFHI"  -> hi
      [] op = "MFLO"  -> lo

Overflows(op, a, b, x) ==
    \/ op = "ADD"  /\ SameSign(a, b)  /\ ~SameSign(a, Wrap(a + b))
    \/ op = "ADDI" /\ SameSign(a, x)  /\ ~SameSign(x, Wrap(a + x))
    \/ op = "SUB"  /\ ~SameSign(a, b) /\ ~SameSign(a, Wrap(a - b))

Divide(a, b) ==
    IF b = 0 THEN <<0, 0>>
    ELSE LET q == Quotient(Signed(a), Signed(b))
         IN  <<Wrap(Signed(a) - q * Signed(b)), Wrap(q)>>
DivideU(a, b) == IF b = 0 THEN <<0, 0>> ELSE <<a % b, a \div b>>
\* INT_MIN / -1 is undefined in C; the host processor stops Nachos.
DivideTraps(op, a, b) == op = "DIV" /\ a = 2^(W - 1) /\ b = 2^W - 1

\* The new <<HiReg, LoReg>>.
ToHiLo(op, a, b, hi, lo) ==
    CASE op = "MULT"  -> Mult(a, b, TRUE)
      [] op = "MULTU" -> Mult(a, b, FALSE)
      [] op = "DIV"   -> Divide(a, b)
      [] op = "DIVU"  -> DivideU(a, b)
      [] op = "MTHI"  -> <<a, lo>>
      [] op = "MTLO"  -> <<hi, a>>
      [] OTHER        -> <<hi, lo>>

Taken(op, a, b) ==
    CASE op = "BEQ" -> a = b
      [] op = "BNE" -> a # b
      [] op \in {"BGEZ", "BGEZAL"} -> ~Negative(a)
      [] op \in {"BLTZ", "BLTZAL"} -> Negative(a)
      [] op = "BGTZ" -> Signed(a) > 0
      [] op = "BLEZ" -> Signed(a) <= 0

InRegion(pc, x) == (pc \div 2^RegionBits) * 2^RegionBits + 4 * x

\* a is registers[rs] as the jump reads it: JALR has already written rd.
PcAfter(op, next, a, b, x) ==
    CASE op \in Branches /\ Taken(op, a, b) -> Wrap(next + 4 * x)
      [] op \in {"J", "JAL"}   -> InRegion(Wrap(next + 4), x)
      [] op \in {"JR", "JALR"} -> a
      [] OTHER                 -> Wrap(next + 4)

Size(op) == CASE op \in {"LB", "LBU", "SB"} -> 1
              [] op \in {"LH", "LHU", "SH"} -> 2
              [] OTHER -> 4

\* Machine::ReadMem and WriteMem, little endian; Readable is Translate.
Readable(addr, size) == addr % size = 0 /\ addr + size <= MemBytes
ReadMem(mem, addr, size) ==
    LET upTo[n \in 0 .. size] ==
            IF n = 0 THEN 0
            ELSE upTo[n - 1] + mem[addr + n - 1] * 2^(ByteBits * (n - 1))
    IN  upTo[size]
WriteMem(mem, addr, size, v) ==
    [p \in Addr |-> IF p \in addr .. addr + size - 1
                    THEN (v \div 2^(ByteBits * (p - addr))) % 2^ByteBits
                    ELSE mem[p]]

\* What a load leaves in LoadValueReg: old is the value LWR merges into.
LoadedValue(op, v, old) ==
    CASE op = "LB"  -> Extend(v, ByteBits)
      [] op = "LH"  -> Extend(v, Half)
      [] op = "LWR" -> old - (old % 2^ByteBits) + v \div 2^(W - ByteBits)
      [] OTHER      -> v

\* What a store leaves at its address, which holds v.
StoredValue(op, v, b) ==
    IF op = "SWR" THEN Wrap(b * 2^(W - ByteBits)) + (v % 2^(W - ByteBits)) ELSE b

DelayedLoad(m, nextReg, nextValue) ==
    [m EXCEPT !.reg = [@ EXCEPT ![m.loadReg] = m.loadValue, ![0] = 0],
              !.loadReg = nextReg, !.loadValue = nextValue]

\* Mutant: the pending load is dropped by the trap.
RaiseException_LosesLoad(m, which) == [m EXCEPT !.loadReg = 0, !.exc = which]
RaiseException(m, which) == [DelayedLoad(m, 0, 0) EXCEPT !.exc = which]

\* A completed instruction: registers[d] = v if d is a register, the load
\* that the previous instruction left pending lands, the pcs advance.
Complete(m, d, v, pcAfter, nextReg, nextValue) ==
    LET written == [m EXCEPT !.reg = IF d = -1 THEN @ ELSE [@ EXCEPT ![d] = v]]
    IN  [DelayedLoad(written, nextReg, nextValue)
         EXCEPT !.pc = m.next, !.next = pcAfter]

Memory(m, i) ==
    LET op   == i.opCode
        addr == Wrap(m.reg[i.rs] + i.extra)
        old  == IF m.loadReg = i.rt THEN m.loadValue ELSE m.reg[i.rt]
        got  == ReadMem(m.mem, addr, Size(op))
    IN  CASE op \in {"LWL", "LWR", "SWL", "SWR"} /\ addr % 4 # 0 ->
                [m EXCEPT !.exc = "ASSERT"]
          [] ~Readable(addr, Size(op)) -> RaiseException(m, "AddressError")
          [] OTHER ->
                IF op \in Loads
                THEN Complete(m, -1, 0, Wrap(m.next + 4),
                              i.rt, LoadedValue(op, got, old))
                ELSE Complete([m EXCEPT !.mem = WriteMem(@, addr, Size(op),
                                            StoredValue(op, got, m.reg[i.rt]))],
                              -1, 0, Wrap(m.next + 4), 0, 0)

\* Where an instruction other than a load leaves its result, -1 for nowhere.
Dest(i) == CASE i.opCode \in ToRd \cup {"JALR"} -> i.rd
             [] i.opCode \in ToRt -> i.rt
             [] i.opCode \in {"JAL", "BLTZAL", "BGEZAL"} -> R31
             [] OTHER -> -1

OneInstruction(m, i) ==
    LET op == i.opCode
        a  == m.reg[i.rs]
        b  == m.reg[i.rt]
        d  == Dest(i)
        v  == IF op \in ToRd \cup ToRt
              THEN Alu(op, a, b, i.extra, m.hi, m.lo) ELSE Wrap(m.next + 4)
        \* rs, read again after the link register was written
        ra == IF op \notin ToRd \cup ToRt /\ d = i.rs THEN v ELSE a
        hl == ToHiLo(op, a, b, m.hi, m.lo)
    IN  CASE op \in {"RES", "UNIMP"}  -> RaiseException(m, "IllegalInstr")
          [] op = "SYSCALL"           -> RaiseException(m, "Syscall")
          [] op \in Loads \cup Stores -> Memory(m, i)
          [] Overflows(op, a, b, i.extra) -> RaiseException(m, "Overflow")
          [] DivideTraps(op, a, b)    -> [m EXCEPT !.exc = "SIGFPE"]
          [] OTHER -> Complete([m EXCEPT !.hi = hl[1], !.lo = hl[2]], d, v,
                               PcAfter(op, m.next, ra, b, i.extra), 0, 0)

-----------------------------------------------------------------------------
(* A user program runs: Run calls OneInstruction for whatever it fetches.   *)

Init ==
    /\ cpu \in UserStates
    /\ instr = <<>>
    /\ ran = 0

\* The fetch faults where memory ends.
Step(i) ==
    /\ ran' = ran + 1
    /\ cpu.exc = "None"
    /\ instr' = i
    /\ cpu' = IF Readable(cpu.pc, 4) THEN OneInstruction(cpu, Decode(i))
                                     ELSE RaiseException(cpu, "AddressError")

\* A system call returns through PCAdvance.
PCAdvance ==
    /\ cpu.exc = "Syscall"
    /\ cpu' = [cpu EXCEPT !.exc = "None", !.pc = Wrap(@ + 4), !.next = Wrap(@ + 4)]
    /\ UNCHANGED <<instr, ran>>

Next ==
    \/ ran < MaxInstr /\ \E i \in Instr : Step(i)
    \/ PCAdvance

Spec == Init /\ [][Next]_vars
=============================================================================
