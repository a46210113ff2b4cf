------------------------------ MODULE MCInOrder ------------------------------
(***************************************************************************)
(* The in-order machine over small programs, and the instruction set under *)
(* it against reference definitions.  The laws of the instruction set are  *)
(* no matter of any one program; they are stated where every run begins.   *)
(***************************************************************************)
EXTENDS InOrder, Assembler, FiniteSets

\* Quantities around every boundary of the 12 + 20 bit split.
Corners ==
  LET around(c) == {c - 1, c, c + 1}
  IN  UNION {around(c) : c \in {0, 2047, 2048, 4095, 4096, 6143, 6144, -2048, -2049,
                                 -4096, -6144, 524288, 1073739776, -1073741824}}
        \cup {2147483647, 2147481600, 2147481599, -2147483647, -2147483647 - 1}

ExitWith(rd) == <<rri("ADD", RegA0, rd, 0), rri("ADD", RegA7, 0, SysExit), ecall>>

\* A quantity stored at one width and loaded back at another.
MemProgram(imm, s, l) ==
  li(1, imm) \o <<store(s, 1, 0, 61), load(l, 1, 0, 61)>> \o ExitWith(1)

OtherPrograms ==
  { <<fence, fence_i, ebreak>>,
    <<jal(1, 8), ebreak, jalr(0, 1, 5), ecall>>,           \* returns past the trap
    <<branch("BEQ", 0, 0, 0)>>,                             \* an endless loop
    <<rri("ADD", 0, 0, 7), rri("ADD", RegA7, 0, SysExit), ecall>>,
    call(1, 12) \o <<ebreak>> \o ExitWith(1),              \* calls past the trap
    <<ecall>> }

MCPrograms ==
  {MemProgram(imm, s, l) : imm \in Corners, s \in StoreOps, l \in LoadOps}
    \cup OtherPrograms

(***************************************************************************)
(* What a program writes is what it gets back.  li is exact for any 32-bit *)
(* quantity, the upper part rounded to make up for the sign of the lower   *)
(* one; the narrower of a store and a load decides what survives between   *)
(* them; a signed load extends the sign of ITS width; no other byte is     *)
(* disturbed.  Decode's immediates, the assembler's split, addition and    *)
(* memory have to agree on it.                                             *)
(***************************************************************************)
StoredIsLoaded ==
  outcome = "halted" =>
    \A imm \in Corners, s \in StoreOps, l \in LoadOps :
      program = MemProgram(imm, s, l) =>
        LET width(op) == IF access_size(op) = 4 THEN XLen ELSE 8 * access_size(op)
            found == (Wrap(imm) % 2 ^ width(s)) % 2 ^ width(l)
        IN  exit_code = IF l \in {"LB", "LH"} THEN Wrap(Sext(found, width(l))) ELSE found

-----------------------------------------------------------------------------
(* The statements a test may assemble, over registers and immediates that  *)
(* reach every field's ends.                                               *)

TestRegs == {0, 1, 10, 31}
Imms12   == {-2048, -1, 0, 1, 31, 32, 2047}
Shamts   == {0, 1, 15, 16, 31}
Offsets  == {-4096, -2050, -2048, -32, -2, 0, 2, 30, 32, 2046, 2048, 4094}
JumpOffsets == {-1048576, -4096, -2048, -2, 0, 2, 30, 2046, 2048, 4094, 4096, 1048574}
Uppers   == {0, 1, 7, 8, 255, 256, 524287, 524288, 1048575}

Meaning(op, immediate, rd, rs1, rs2, imm) ==
  [op |-> op, immediate |-> immediate, rd |-> rd, rs1 |-> rs1, rs2 |-> rs2, imm |-> imm]

MeaningOf(w) ==
  LET d == Decode(w) IN Meaning(d.op, uses_immediate(d), d.rd, d.rs1, d.rs2, d.imm)

\* Words the assembler emits, each with what it was asked for.
Assembled ==
  {<<branch(op, a, b, off), Meaning(op, FALSE, 0, a, b, off)>> :
     a, b \in TestRegs, op \in BranchOps \ {"JAL", "JALR"}, off \in Offsets}
  \cup {<<rri(op, a, b, imm), Meaning(op, TRUE, a, b, 0, imm)>> :
          a, b \in TestRegs, op \in ImmOps, imm \in Imms12}
  \cup {<<rri(op, a, b, sh), Meaning(op, TRUE, a, b, 0, sh)>> :
          a, b \in TestRegs, op \in Shifts, sh \in Shamts}
  \cup {<<load(op, a, b, imm), Meaning(op, FALSE, a, b, 0, imm)>> :
          a, b \in TestRegs, op \in LoadOps, imm \in Imms12}
  \cup {<<store(op, a, b, imm), Meaning(op, FALSE, 0, b, a, imm)>> :
          a, b \in TestRegs, op \in StoreOps, imm \in Imms12}
  \cup {<<jalr(a, b, imm), Meaning("JALR", FALSE, a, b, 0, imm)>> :
          a, b \in TestRegs, imm \in Imms12}
  \cup {<<rrr(op, a, b, c), Meaning(op, FALSE, a, b, c, 0)>> : a, b, c \in TestRegs,
          op \in (AluOps \ {"LUI", "AUIPC"}) \cup MulOps \cup DivOps}
  \cup {<<jal(a, off), Meaning("JAL", FALSE, a, 0, 0, off)>> :
          a \in TestRegs, off \in JumpOffsets}
  \cup {<<lui(a, hi), Meaning("LUI", FALSE, a, 0, 0, Sext(hi, 20) * 4096)>> :
          a \in TestRegs, hi \in Uppers}
  \cup {<<auipc(a, hi), Meaning("AUIPC", FALSE, a, 0, 0, Sext(hi, 20) * 4096)>> :
          a \in TestRegs, hi \in Uppers}

Misdecoded == {s \in Assembled : MeaningOf(s[1]) # s[2]}

(***************************************************************************)
(* decode() undoes the assembler: every statement the tests can write      *)
(* comes back as the operation, registers and immediate it was written     *)
(* with, whichever of the six formats it went through.                     *)
(***************************************************************************)
AssemblyDecodes == retired = 0 => Misdecoded = {}

\* Words whose fields take the values decode() tells apart.
CornerWords ==
  [f7 : {0, 1, 2, 32, 33}, rs2 : {0, 1, 31}, rs1 : {0, 3}, f3 : 0 .. 7, rd : {0, 5},
   opcode : {55, 23, 111, 103, 99, 3, 35, 19, 51, 15, 115, 127}]

\* What a trace prints of them, and what each print stands for.
Texts    == {disasm(Decode(w), 64) : w \in CornerWords}
Readings == {<<disasm(Decode(w), 64), MeaningOf(w)>> : w \in CornerWords}
Ambiguities == Cardinality(Readings) - Cardinality(Texts)

(***************************************************************************)
(* The text of a trace says what the instruction is: words that print the  *)
(* same at the same address mean the same to the pipeline.  decode() drops *)
(* the difference between ADD and ADDI, disasm() recovers it.              *)
(***************************************************************************)
TextIdentifies == retired = 0 => Ambiguities = 0

-----------------------------------------------------------------------------
(* The arithmetic, for every pair of operands of a narrow register. *)

Narrow == INSTANCE Instruction WITH XLen <- 6
Pairs  == Narrow!Vals \X Narrow!Vals

\* Quotient times divisor plus remainder is the dividend, by zero too, and the
\* remainder has the dividend's sign.  It is smaller than the divisor, INT_MIN / -1
\* included, and a quotient by zero is all ones.
Divides(a, b) ==
  LET r == Narrow!Signed(Narrow!rem(a, b))
      smaller == /\ Narrow!Magnitude(r) < Narrow!Magnitude(Narrow!Signed(b))
                 /\ Narrow!remu(a, b) < b
      ones == {Narrow!div(a, b), Narrow!divu(a, b)} = {Narrow!Mod - 1}
  IN  /\ Narrow!add(Narrow!mul(Narrow!div(a, b), b), Narrow!rem(a, b)) = a
      /\ Narrow!divu(a, b) * b + Narrow!remu(a, b) = a
      /\ r = 0 \/ (r < 0) = (Narrow!Signed(a) < 0)
      /\ IF b = 0 THEN ones ELSE smaller

\* The upper and the lower word make the exact product, whatever the signs.
WideProduct(a, b) ==
  LET sa == Narrow!Signed(a)  sb == Narrow!Signed(b)  low == Narrow!mul(a, b)
  IN  /\ Narrow!Signed(Narrow!mulh(a, b)) * Narrow!Mod + low = sa * sb
      /\ Narrow!Signed(Narrow!mulhsu(a, b)) * Narrow!Mod + low = sa * b
      /\ Narrow!mulhu(a, b) * Narrow!Mod + low = a * b

\* An arithmetic shift divides by a power of two, rounding down, also by 0,
\* where the code avoids a shift by the full width, and past the width.
FloorShift(a, b) ==
  Narrow!Signed(Narrow!sra(a, b)) = Narrow!Signed(a) \div 2 ^ (b % 6)

Miscalculated ==
  {p \in Pairs : ~Divides(p[1], p[2]) \/ ~WideProduct(p[1], p[2]) \/ ~FloorShift(p[1], p[2])}

(***************************************************************************)
(* For every pair of operands, zero divisors included, div and rem are one *)
(* division, the halves of a product one product, and sra a division.  Of  *)
(* the corner cases alu:: deals with one by one, only the quotient by zero *)
(* needs a law of its own: dividend = quotient * 0 + remainder asks for    *)
(* the remainder the code returns.                                         *)
(***************************************************************************)
ArithmeticIsExact == retired = 0 => Miscalculated = {}
=============================================================================
