------------------------------- MODULE MCMips -------------------------------
(* A four-bit machine: bytes of one bit, words of four, four registers of    *)
(* which the last links calls.  Every opcode, every funct and every BCOND    *)
(* code is fetched, on every pair of operand values.                         *)
EXTENDS Disassembler, TLC

Blank == [op |-> 0, funct |-> 0, rs |-> 1, rt |-> 2, rd |-> 3,
          shamt |-> 0, imm |-> 0, target |-> 0]

MCInstr ==
    {[Blank EXCEPT !.rs = 0, !.rt = 0, !.rd = 0]} \cup
    {[Blank EXCEPT !.funct = f, !.rd = d] : f \in 0 .. 63, d \in {0, 1, 3}}
    \cup {[Blank EXCEPT !.funct = f, !.shamt = n] : f \in {0, 2, 3}, n \in 1 .. 3}
    \cup {[Blank EXCEPT !.op = 1, !.rt = t, !.imm = 3] : t \in 0 .. 31}
    \cup {[Blank EXCEPT !.op = 1, !.rs = 3, !.rt = t, !.imm = 1] : t \in {0, 1, 16, 17}}
    \cup {[Blank EXCEPT !.op = o, !.imm = n, !.target = n] : o \in 2 .. 63, n \in 0 .. 3}

UserState(a, b, pcs, load) ==
    [reg |-> (0 :> 0 @@ 1 :> a @@ 2 :> b @@ 3 :> 10), hi |-> 5, lo |-> 9,
     pc |-> pcs[1], next |-> pcs[2], loadReg |-> load[1], loadValue |-> load[2],
     mem |-> [x \in Addr |-> IF x \in {0, 2, 3, 5, 6} THEN 1 ELSE 0], exc |-> "None"]

\* All operand pairs in straight-line code; then delay slots of branches and
\* of loads, and a fetch past the end of memory.
MCUserStates ==
    {UserState(a, b, <<0, 4>>, <<0, 0>>) : a \in Word, b \in Word}
    \cup
    {UserState(a, b, pcs, load) :
        a \in {0, 3, 4, 9, 15}, b \in {0, 6, 15},
        pcs \in {<<4, 8>>, <<4, 0>>, <<12, 0>>},
        load \in {<<0, 0>>, <<1, 4>>, <<2, 13>>, <<3, 7>>}}
=============================================================================
