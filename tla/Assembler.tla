------------------------------ MODULE Assembler ------------------------------
(***************************************************************************)
(* tests/asm.h: the assembler the tests and the example generator write    *)
(* their programs with.  It is the other half of decode(): what one packs, *)
(* the other must unpack.                                                  *)
(***************************************************************************)
EXTENDS Memory

\* ---- format encoders; an immediate keeps its low bits only ----
enc_R(opcode, rd, f3, rs1, rs2, f7) ==
  [f7 |-> f7, rs2 |-> rs2, rs1 |-> rs1, f3 |-> f3, rd |-> rd, opcode |-> opcode]

enc_I(opcode, rd, f3, rs1, imm) ==
  LET u == imm % 4096 IN enc_R(opcode, rd, f3, rs1, u % 32, u \div 32)

enc_S(f3, rs1, rs2, imm) ==
  LET u == imm % 4096 IN enc_R(35, u % 32, f3, rs1, rs2, u \div 32)

enc_B(f3, rs1, rs2, imm) ==
  LET u == imm % 8192
  IN  enc_R(99, ((u \div 2) % 16) * 2 + ((u \div 2048) % 2), f3, rs1, rs2,
            (u \div 4096) * 64 + ((u \div 32) % 64))

enc_U(opcode, rd, hi20) ==
  enc_R(opcode, rd, hi20 % 8, (hi20 \div 8) % 32, (hi20 \div 256) % 32, hi20 \div 8192)

enc_J(rd, imm) ==
  LET u == imm % 2097152
  IN  enc_R(111, rd, (u \div 4096) % 8, (u \div 32768) % 32,
            ((u \div 2) % 16) * 2 + ((u \div 2048) % 2),
            (u \div 1048576) * 64 + ((u \div 32) % 64))

\* ---- the methods: each operation's funct3, and funct7 where it is not 0 ----
Funct3 ==
  [BEQ |-> 0, BNE |-> 1, BLT |-> 4, BGE |-> 5, BLTU |-> 6, BGEU |-> 7,
   LB |-> 0, LH |-> 1, LW |-> 2, LBU |-> 4, LHU |-> 5, SB |-> 0, SH |-> 1, SW |-> 2,
   ADD |-> 0, SUB |-> 0, SLL |-> 1, SLT |-> 2, SLTU |-> 3, XOR |-> 4, SRL |-> 5,
   SRA |-> 5, OR |-> 6, AND |-> 7, MUL |-> 0, MULH |-> 1, MULHSU |-> 2, MULHU |-> 3,
   DIV |-> 4, DIVU |-> 5, REM |-> 6, REMU |-> 7]
Funct7(op) == IF op \in {"SUB", "SRA"} THEN 32 ELSE IF op \in MulOps \cup DivOps THEN 1 ELSE 0

ImmOps == {"ADD", "SLT", "SLTU", "XOR", "OR", "AND"}      \* addi, slti, ...
Shifts == {"SLL", "SRL", "SRA"}                           \* slli, srli, srai

rrr(op, rd, rs1, rs2)  == enc_R(51, rd, Funct3[op], rs1, rs2, Funct7(op))
rri(op, rd, rs1, imm)  ==
  IF op \in Shifts THEN enc_R(19, rd, Funct3[op], rs1, imm, Funct7(op))
                   ELSE enc_I(19, rd, Funct3[op], rs1, imm)
load(op, rd, rs1, off)   == enc_I(3, rd, Funct3[op], rs1, off)
store(op, rs2, rs1, off) == enc_S(Funct3[op], rs1, rs2, off)
branch(op, r1, r2, off)  == enc_B(Funct3[op], r1, r2, off)
lui(rd, imm20)       == enc_U(55, rd, imm20)
auipc(rd, imm20)     == enc_U(23, rd, imm20)
jal(rd, off)         == enc_J(rd, off)
jalr(rd, rs1, imm)   == enc_I(103, rd, 0, rs1, imm)
fence   == enc_I(15, 0, 0, 0, 0)
fence_i == enc_I(15, 0, 1, 0, 0)
ecall   == enc_I(115, 0, 0, 0, 0)
ebreak  == enc_I(115, 0, 0, 0, 1)

(***************************************************************************)
(* li and call: a 32-bit quantity split into an upper part and a signed    *)
(* low part of 12 bits, the upper part rounded up when the low part is     *)
(* negative.  imm + 0x800 wraps in the code, hence the rounding here.      *)
(***************************************************************************)
hi20(imm) == (imm \div 4096 + (IF imm % 4096 >= 2048 THEN 1 ELSE 0)) % 1048576
lo12(imm) == Sext(imm % 4096, 12)

li(rd, imm) ==
  IF imm \in -2048 .. 2047 THEN <<rri("ADD", rd, 0, imm)>>
  ELSE <<lui(rd, hi20(imm)), rri("ADD", rd, rd, lo12(imm))>>

\* call, its label `delta` bytes past the auipc; ra is the link register.
call(ra, delta) == <<auipc(ra, hi20(delta)), jalr(ra, ra, lo12(delta))>>
=============================================================================
