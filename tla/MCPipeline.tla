----------------------------- MODULE MCPipeline ------------------------------
(***************************************************************************)
(* The whole machine over small programs, written with the tests' own      *)
(* assembler.  x2 and x3 play a0 and a7, and SysExit is 0, so that an      *)
(* ecall ends a program that has not touched x3.                           *)
(***************************************************************************)
EXTENDS Pipeline, Assembler

MCUnits == [ALU |-> 1, BRANCH |-> 1, MUL |-> 1, DIV |-> 1, MEM |-> 1]
MCLatency == [ALU |-> 1, BRANCH |-> 1, MUL |-> 2, DIV |-> 3, LOAD |-> 2]

\* Every instruction of the shorter programs, and the middle of one.
MCJalrTargets == {0, 4, 6, 8, 12, 16}

addi(rd, rs1, imm) == rri("ADD", rd, rs1, imm)

Handwritten == {
  \* A mispredicted loop whose body is a dependence chain through a slow unit.
  <<addi(1, 0, 2), rrr("MUL", 2, 1, 1), addi(1, 1, -1), branch("BNE", 1, 0, -8), ecall>>,
  \* A store forwards to a younger load; the next load overlaps it only in part.
  <<addi(1, 0, 300), store("SB", 1, 0, 64), load("LBU", 2, 0, 64), load("LH", 1, 0, 64),
    rrr("ADD", 2, 2, 1), ecall>>,
  \* A call and return, past a trap.
  <<jal(1, 8), ebreak, addi(2, 2, 5), branch("BEQ", 2, 0, 8), jalr(0, 1, 0), ecall>>,
  \* The store on the wrong path must leave no trace, nor its trap.
  <<addi(1, 0, 1), branch("BNE", 1, 0, 12), store("SW", 1, 0, 64), ebreak,
    load("LW", 2, 0, 64), ecall>>,
  \* An unhandled ecall, its number computed by the slowest unit.
  <<addi(3, 0, 7), rrr("DIV", 3, 3, 3), addi(2, 0, 9), ecall, addi(2, 0, 1)>>
}

Jump == jalr(0, 0, 12)

\* One instruction for every way two instructions can meet: through a register,
\* a unit, a writeback port, memory, or control.
Pool == {
  addi(1, 1, 1), rrr("MUL", 2, 1, 1), rrr("DIV", 1, 2, 1),
  store("SW", 1, 0, 64), store("SB", 2, 1, 63), load("LH", 2, 0, 64), load("LB", 0, 1, 64),
  branch("BNE", 1, 0, 8), jal(1, 8), Jump, ebreak}

\* Stores whose address or data is late, and loads that cover, meet in part or
\* miss what they write.
Accesses == {
  rrr("DIV", 1, 1, 1), store("SH", 1, 0, 64), store("SB", 1, 1, 64), load("LW", 1, 0, 64),
  load("LHU", 2, 0, 64), load("LBU", 2, 1, 65)}

\* A jump through a register can be predicted to go anywhere: one is enough, with
\* an instruction to jump over.
Short ==
  {<<a, b, c>> : a, b, c \in Pool \ {Jump}}
  \cup {<<Jump, b, c>> : b, c \in Pool \ {Jump}} \cup {<<a, Jump, c>> : a, c \in Pool \ {Jump}}

MCPrograms ==
  Handwritten \cup {<<p[1], p[2], p[3], ecall>> : p \in Short}
              \cup {<<a, b, c, d, ecall>> : a, b, c, d \in Accesses}
=============================================================================
