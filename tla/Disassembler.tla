---------------------------- MODULE Disassembler ----------------------------
(***************************************************************************)
(* What Nachos shows of an instruction: the operand table opStrings that   *)
(* OneInstruction prints its trace from (machine/mipssim.h), and the       *)
(* disassembler dump_ascii (bin/d.c, with the names of bin/opstrings.c).   *)
(* Shown text is a name and the fields printed after it, in their order;   *)
(* an opcode that opstrings.c gives as an octal number has the name "#",   *)
(* and the address that a branch or jump prints is a number.               *)
(***************************************************************************)
EXTENDS Execute

opStrings(op) ==
    CASE op \in {"SLL", "SRL", "SRA"}         -> <<"RD", "RT", "EXTRA">>
      [] op \in {"SLLV", "SRLV", "SRAV"}      -> <<"RD", "RT", "RS">>
      [] op \in {"MFHI", "MFLO"}              -> <<"RD">>
      [] op \in ToRd                          -> <<"RD", "RS", "RT">>
      [] op = "LUI"                           -> <<"RT", "EXTRA">>
      [] op \in ToRt                          -> <<"RT", "RS", "EXTRA">>
      [] op \in Loads \cup Stores             -> <<"RT", "EXTRA", "RS">>
      [] op \in {"BEQ", "BNE"}                -> <<"RS", "RT", "EXTRA">>
      [] op \in Branches                      -> <<"RS", "EXTRA">>
      [] op \in {"J", "JAL"}                  -> <<"EXTRA">>
      [] op \in {"JR", "JALR"}                -> <<"RD", "RS">>
      [] op \in {"MTHI", "MTLO"}              -> <<"RS">>
      [] op \in {"MULT", "MULTU", "DIV", "DIVU"} -> <<"RS", "RT">>
      [] OTHER                                -> <<>>

Octal(n) == [i \in 1 .. n |-> "#"]

normalops ==
    <<"SPECIAL", "BCOND", "J", "JAL", "BEQ", "BNE", "BLEZ", "BGTZ",
      "ADDI", "ADDIU", "SLTI", "SLTIU", "ANDI", "ORI", "XORI", "LUI",
      "COP0", "COP1", "COP2", "COP3">> \o Octal(12) \o
    <<"LB", "LH", "LWL", "LW", "LBU", "LHU", "LWR", "#",
      "SB", "SH", "SWL", "SW", "#", "#", "SWR", "#",
      "LWC0", "LWC1", "LWC2", "LWC3">> \o Octal(4) \o
    <<"SWC0", "SWC1", "SWC2", "SWC3">> \o Octal(4)

specialops ==
    <<"SLL", "#", "SRL", "SRA", "SLLV", "#", "SRLV", "SRAV",
      "JR", "JALR", "#", "#", "SYSCALL", "BREAK", "#", "#",
      "MFHI", "MTHI", "MFLO", "MTLO">> \o Octal(4) \o
    <<"MULT", "MULTU", "DIV", "DIVU">> \o Octal(4) \o
    <<"ADD", "ADDU", "SUB", "SUBU", "AND", "OR", "XOR", "NOR",
      "#", "#", "SLT", "SLTU">> \o Octal(20)

-----------------------------------------------------------------------------
(* dump_ascii.  Fields that no switch lists print nothing.                  *)

SpecialFields(op) ==
    CASE op \in {"SLL", "SRL", "SRA"}                -> <<"RD", "RT", "SHAMT">>
      [] op \in {"SLLV", "SRLV", "SRAV"}             -> <<"RD", "RT", "RS">>
      [] op \in {"JR", "JALR", "MFLO", "MTLO"}       -> <<"RS">>
      [] op \in {"MFHI", "MTHI"}                     -> <<"RD">>
      [] op \in {"MULT", "MULTU", "DIV", "DIVU"}     -> <<"RS", "RT">>
      [] op \in {"ADD", "ADDU", "SUB", "SUBU", "AND", "OR", "XOR", "NOR",
                 "SLT", "SLTU"}                      -> <<"RD", "RS", "RT">>
      [] OTHER                                       -> <<>>

NormalFields(op) ==
    CASE op \in {"J", "JAL"}    -> <<"TARGET">>
      [] op \in {"BEQ", "BNE"}  -> <<"RT", "RS", "TARGET">>
      [] op \in {"ADDI", "ADDIU", "SLTI", "SLTIU", "ANDI", "ORI", "XORI"}
                                -> <<"RT", "RS", "IMMED">>
      [] op = "LUI"             -> <<"RT", "IMMED">>
      [] op \in Loads \cup Stores \cup {"LWC0", "LWC1", "LWC2", "LWC3",
                                        "SWC0", "SWC1", "SWC2", "SWC3"}
                                -> <<"RT", "IMMED", "RS">>
      [] OTHER                  -> <<>>

off16(i) == Wrap(4 * Extend(i.imm, Half))

\* Mutant: the offset is counted from the branch itself.
BranchAddress_FromBranch(i, pc) == Wrap(off16(i) + pc)
BranchAddress(i, pc) == Wrap(off16(i) + pc + 4)

Shown(name, fields, target) == [name |-> name, fields |-> fields, target |-> target]

IsNop(i) == {i.op, i.funct, i.rs, i.rt, i.rd, i.shamt} = {0}

dump_ascii(i, pc) ==
    CASE IsNop(i) -> Shown("NOP", <<>>, 0)
      [] i.op = 0 /\ ~IsNop(i) ->
            Shown(specialops[i.funct + 1], SpecialFields(specialops[i.funct + 1]), 0)
      [] i.op = 1 ->
            Shown(CASE i.rt = 0 -> "BLTZ" [] i.rt = 1 -> "BGEZ" [] i.rt = 16 -> "BLTZAL"
                    [] i.rt = 17 -> "BGEZAL" [] OTHER -> "BCOND",
                  <<"RS", "TARGET">>, BranchAddress(i, pc))
      [] OTHER ->
            LET op == normalops[i.op + 1]
            IN  Shown(op, NormalFields(op),
                      IF op \in {"J", "JAL"} THEN InRegion(pc, i.target)
                                             ELSE BranchAddress(i, pc))

-----------------------------------------------------------------------------
(* What a reader of a trace or a listing relies on.                         *)

\* Register r matters to the instruction: it is written, or another value in
\* it makes the instruction do something else to the rest of the machine.
Matters(m, d, r) ==
    LET other == [m EXCEPT !.reg[r] = Wrap(@ + 1)]
        done  == OneInstruction(m, d)
    IN  OneInstruction(other, d) # [done EXCEPT !.reg[r] = other.reg[r]]

Involved(m, d) == {r \in GPR \ {0, m.loadReg} : Matters(m, d, r)}

ShownRegisters(fields, i) ==
    {CASE f = "RS" -> i.rs [] f = "RT" -> i.rt [] f = "RD" -> i.rd [] OTHER -> 0 :
        f \in {fields[k] : k \in DOMAIN fields}}

Linked(op) == IF op \in {"JAL", "BLTZAL", "BGEZAL"} THEN {R31} ELSE {}

\* The trace of an instruction leaves nothing out: every register that the
\* instruction writes or depends on is among the operands opStrings names for
\* it, the link register of a call excepted.
TraceShowsOperands == [][Executed =>
    LET d == Decode(instr')
    IN  Involved(cpu, d) \subseteq
            ShownRegisters(opStrings(d.opCode), instr') \cup Linked(d.opCode)]_vars

\* dump_ascii names each instruction that the processor executes, prints where
\* it branches to, and prints the registers involved; except that it
\* prints no operand of BLEZ and BGTZ, only rs of JALR, and the wrong field for
\* MFLO and MTHI.  A jump in the last word of a region is shown in the region
\* of the jump, and taken in that of the instruction after its delay slot.
DisassemblyExact == [][Executed /\ Sequential(cpu) =>
    LET d     == Decode(instr')
        op    == d.opCode
        shown == dump_ascii(instr', cpu.pc)
    IN  /\ op \notin {"RES", "UNIMP"} => shown.name = IF IsNop(instr') THEN "NOP" ELSE op
        /\ op \in {"RES", "UNIMP"} =>
              \/ shown.name \in {"#", "BREAK", "BCOND", "COP0", "COP1", "COP2", "COP3"}
              \/ shown.name \in {"LWC0", "LWC1", "LWC2", "LWC3", "SWC0", "SWC1", "SWC2", "SWC3"}
        /\ "TARGET" \in {shown.fields[k] : k \in DOMAIN shown.fields} /\ cpu'.exc = "None"
           => cpu'.next \in {shown.target, Wrap(cpu.next + 4)}
              \/ InRegion(cpu.pc, 0) # InRegion(Wrap(cpu.next + 4), 0)
        /\ op \notin {"BLEZ", "BGTZ", "JALR", "MFLO", "MTHI"} =>
              Involved(cpu, d) \subseteq ShownRegisters(shown.fields, instr') \cup Linked(op)]_vars

\* What the trace and the listing show of an instruction is what it does.
ListingsExact == TraceShowsOperands /\ DisassemblyExact
=============================================================================
