----------------------------- MODULE Instruction -----------------------------
(***************************************************************************)
(* instruction.h and instruction.cpp: what one RV32IM instruction is,      *)
(* independent of any pipeline.  decode() turns a word into the record     *)
(* every stage carries, the alu:: primitives compute, execute_uop() and    *)
(* extend_load() of cpu.cpp put them together, disasm() names the result.  *)
(*                                                                         *)
(* A word is kept as its six fields, which is how decode() reads it; the   *)
(* 32 bits of a register are XLen bits here, every operation wrapping or   *)
(* splitting at XLen where the code does so at 32.  Nothing else depends   *)
(* on the width, so XLen = 32 is the code.                                 *)
(***************************************************************************)
EXTENDS Integers, Sequences

CONSTANT XLen      \* bits of a register

ASSUME XLenAssumption == XLen \in Nat \ {0}

Words ==
  [f7 : 0 .. 127, rs2 : 0 .. 31, rs1 : 0 .. 31, f3 : 0 .. 7, rd : 0 .. 31,
   opcode : 0 .. 127]

Mod  == 2 ^ XLen
Vals == 0 .. Mod - 1

Wrap(x)   == x % Mod                                       \* static_cast<uint32_t>
Signed(a) == IF a < 2 ^ (XLen - 1) THEN a ELSE a - Mod     \* static_cast<int32_t>

-----------------------------------------------------------------------------
(* Decoding.  The tables give the operation of each funct3, 0 first. *)

Branches == <<"BEQ", "BNE", "INVALID", "INVALID", "BLT", "BGE", "BLTU", "BGEU">>
Loads    == <<"LB", "LH", "LW", "INVALID", "LBU", "LHU", "INVALID", "INVALID">>
Stores   == <<"SB", "SH", "SW", "INVALID", "INVALID", "INVALID", "INVALID", "INVALID">>
Ariths   == <<"ADD", "SLL", "SLT", "SLTU", "XOR", "SRL", "OR", "AND">>
MulDivs  == <<"MUL", "MULH", "MULHSU", "MULHU", "DIV", "DIVU", "REM", "REMU">>

\* The encoding format of an opcode, which says which fields it uses.
FormatOf(w) ==
  CASE w.opcode \in {55, 23}      -> "U"
    [] w.opcode = 111             -> "J"
    [] w.opcode \in {103, 3, 19}  -> "I"
    [] w.opcode = 99              -> "B"
    [] w.opcode = 35              -> "S"
    [] w.opcode = 51              -> "R"
    [] OTHER                      -> "none"

\* OP-IMM: ORI and the rest share their Op with the register form.
ImmediateOp(w) ==
  CASE w.f3 = 1 -> IF w.f7 \div 2 = 0 THEN "SLL" ELSE "INVALID"
    [] w.f3 = 5 -> IF w.f7 = 0 THEN "SRL" ELSE IF w.f7 = 32 THEN "SRA" ELSE "INVALID"
    [] OTHER    -> Ariths[w.f3 + 1]

\* OP: the base operations, their funct7 = 0x20 variants and the M extension.
RegisterOp(w) ==
  CASE w.f7 = 1                -> MulDivs[w.f3 + 1]
    [] w.f7 = 0                -> Ariths[w.f3 + 1]
    [] w.f7 = 32 /\ w.f3 = 0   -> "SUB"
    [] w.f7 = 32 /\ w.f3 = 5   -> "SRA"
    [] OTHER                   -> "INVALID"

OpOf(w) ==
  CASE w.opcode = 55  -> "LUI"
    [] w.opcode = 23  -> "AUIPC"
    [] w.opcode = 111 -> "JAL"
    [] w.opcode = 103 -> IF w.f3 = 0 THEN "JALR" ELSE "INVALID"
    [] w.opcode = 99  -> Branches[w.f3 + 1]
    [] w.opcode = 3   -> Loads[w.f3 + 1]
    [] w.opcode = 35  -> Stores[w.f3 + 1]
    [] w.opcode = 19  -> ImmediateOp(w)
    [] w.opcode = 51  -> RegisterOp(w)
    [] w.opcode = 15  -> IF w.f3 = 0 THEN "FENCE" ELSE IF w.f3 = 1 THEN "FENCE_I" ELSE "INVALID"
    [] w.opcode = 115 ->
         IF w.f3 # 0 \/ w.f7 # 0 \/ w.rs2 > 1 THEN "INVALID"
         ELSE IF w.rs2 = 0 THEN "ECALL" ELSE "EBREAK"
    [] OTHER          -> "INVALID"

BranchOps == {"BEQ", "BNE", "BLT", "BGE", "BLTU", "BGEU", "JAL", "JALR"}
LoadOps   == {"LB", "LH", "LW", "LBU", "LHU"}
StoreOps  == {"SB", "SH", "SW"}
MulOps    == {"MUL", "MULH", "MULHSU", "MULHU"}
DivOps    == {"DIV", "DIVU", "REM", "REMU"}
NopOps    == {"FENCE", "FENCE_I"}
TrapOps   == {"ECALL", "EBREAK", "INVALID"}
AluOps    == {"ADD", "SUB", "SLL", "SRL", "SRA", "AND", "OR", "XOR", "SLT", "SLTU",
              "LUI", "AUIPC"}

KindOf(op) ==
  CASE op \in BranchOps -> "BRANCH"
    [] op \in LoadOps   -> "LOAD"
    [] op \in StoreOps  -> "STORE"
    [] op \in MulOps    -> "MUL"
    [] op \in DivOps    -> "DIV"
    [] op \in NopOps    -> "NOP"
    [] op \in TrapOps   -> "TRAP"
    [] OTHER            -> "ALU"

-----------------------------------------------------------------------------
(* Immediates: the low `bits` of v, sign-extended. *)

Sext(v, bits) == IF v < 2 ^ (bits - 1) THEN v ELSE v - 2 ^ bits

imm_I(w) == Sext(w.f7 * 32 + w.rs2, 12)
imm_S(w) == Sext(w.f7 * 32 + w.rd, 12)

\* Bit 11 of a branch offset sits in the low bit of rd: here it stays there.
imm_BSlip(w) == Sext(w.f7 * 32 + w.rd, 12)
imm_B(w) ==
  Sext((w.f7 \div 64) * 4096 + (w.rd % 2) * 2048 + (w.f7 % 64) * 32 + (w.rd \div 2) * 2, 13)

\* Bits 31..12 of the word, in place.
imm_U(w) == Sext(w.f7 * 8192 + w.rs2 * 256 + w.rs1 * 8 + w.f3, 20) * 4096

imm_J(w) ==
  Sext((w.f7 \div 64) * 1048576 + (w.rs1 * 8 + w.f3) * 4096 + (w.rs2 % 2) * 2048
         + (w.f7 % 64) * 32 + (w.rs2 \div 2) * 2, 21)

ImmOf(w, op) ==
  CASE op = "INVALID"                        -> 0
    [] w.opcode = 19 /\ w.f3 \in {1, 5}      -> w.rs2        \* the shift amount
    [] FormatOf(w) = "U"                     -> imm_U(w)
    [] FormatOf(w) = "J"                     -> imm_J(w)
    [] FormatOf(w) = "B"                     -> imm_B(w)
    [] FormatOf(w) = "S"                     -> imm_S(w)
    [] FormatOf(w) = "I"                     -> imm_I(w)
    [] OTHER                                 -> 0

(***************************************************************************)
(* decode(): an unused register field reads as x0, so that renaming it is  *)
(* harmless; an unknown word keeps nothing but itself.                     *)
(***************************************************************************)
Decode(w) ==
  LET op   == OpOf(w)
      fmt  == IF op = "INVALID" THEN "none" ELSE FormatOf(w)
      rd   == IF fmt \in {"U", "J", "I", "R"} THEN w.rd ELSE 0
      rs1  == IF fmt \in {"I", "B", "S", "R"} THEN w.rs1 ELSE 0
      rs2  == IF fmt \in {"B", "S", "R"} THEN w.rs2 ELSE 0
  IN  [raw |-> w, op |-> op, kind |-> KindOf(op), rd |-> rd, rs1 |-> rs1, rs2 |-> rs2,
       imm |-> ImmOf(w, op), is_branch |-> op \in BranchOps, is_load |-> op \in LoadOps,
       is_store |-> op \in StoreOps, writes_rd |-> rd # 0]

\* ORI, ANDI and the others look like OR and AND.
uses_immediateSlip(d) == d.op = "ADD" /\ d.raw.opcode = 19
uses_immediate(d) == d.raw.opcode = 19

-----------------------------------------------------------------------------
(* alu:: *)

add(a, b) == Wrap(a + b)
sub(a, b) == Wrap(a - b)
sll(a, b) == Wrap(a * 2 ^ (b % XLen))
srl(a, b) == a \div 2 ^ (b % XLen)

\* The vacated positions stay zero.
sraSlip(a, b) == srl(a, b)
sra(a, b) ==
  LET sh == b % XLen
  IN  IF sh = 0 THEN a
      ELSE srl(a, sh) + (IF a >= 2 ^ (XLen - 1) THEN Mod - 2 ^ (XLen - sh) ELSE 0)

Bits(a)     == {i \in 0 .. XLen - 1 : (a \div 2 ^ i) % 2 = 1}
OfBits(s)   ==
  LET upto[i \in 0 .. XLen] ==
        IF i = 0 THEN 0 ELSE upto[i - 1] + (IF i - 1 \in s THEN 2 ^ (i - 1) ELSE 0)
  IN  upto[XLen]
and_(a, b)  == OfBits(Bits(a) \cap Bits(b))
or_(a, b)   == OfBits(Bits(a) \cup Bits(b))
xor_(a, b)  == OfBits((Bits(a) \ Bits(b)) \cup (Bits(b) \ Bits(a)))

slt(a, b)   == IF Signed(a) < Signed(b) THEN 1 ELSE 0
sltu(a, b)  == IF a < b THEN 1 ELSE 0

branch_taken(op, a, b) ==
  \/ op = "BEQ"  /\ a = b
  \/ op = "BNE"  /\ a # b
  \/ op = "BLT"  /\ Signed(a) < Signed(b)
  \/ op = "BGE"  /\ Signed(a) >= Signed(b)
  \/ op = "BLTU" /\ a < b
  \/ op = "BGEU" /\ a >= b

branch_target(at, imm) == Wrap(at + imm)
jalr_target(rs1, imm)  == LET t == Wrap(rs1 + imm) IN t - (t % 2)
link_address(at)       == Wrap(at + 4)

\* The upper word of a product, whatever the signs.
Upper(p) == (p % (Mod * Mod)) \div Mod

\* The lower word is the same for signed factors, which are the smaller ones.
mul(a, b)    == Wrap(Signed(a) * Signed(b))
mulh(a, b)   == Upper(Signed(a) * Signed(b))
mulhu(a, b)  == Upper(a * b)

\* Both operands signed.
mulhsuSlip(a, b) == Upper(Signed(a) * Signed(b))
mulhsu(a, b) == Upper(Signed(a) * b)

\* C's division rounds toward zero, and the remainder takes the dividend's sign.
Magnitude(x)   == IF x < 0 THEN -x ELSE x
Quotient(x, y) ==
  LET q == Magnitude(x) \div Magnitude(y) IN IF (x < 0) = (y < 0) THEN q ELSE -q

Overflows(a, b) == a = 2 ^ (XLen - 1) /\ b = Mod - 1       \* INT_MIN / -1

div(a, b) ==
  IF b = 0 THEN Mod - 1
  ELSE IF Overflows(a, b) THEN a ELSE Wrap(Quotient(Signed(a), Signed(b)))

\* A quotient by zero is zero.
divuSlip(a, b) == IF b = 0 THEN 0 ELSE a \div b
divu(a, b) == IF b = 0 THEN Mod - 1 ELSE a \div b

\* The remainder of the rounded-down division.
remSlip(a, b) ==
  IF b = 0 THEN a
  ELSE IF Overflows(a, b) THEN 0 ELSE Wrap(Signed(a) % Magnitude(Signed(b)))
rem(a, b) ==
  IF b = 0 THEN a
  ELSE IF Overflows(a, b) THEN 0
  ELSE Wrap(Signed(a) - Signed(b) * Quotient(Signed(a), Signed(b)))
remu(a, b) == IF b = 0 THEN a ELSE a % b

-----------------------------------------------------------------------------
(* execute_uop() and the two helpers of cpu.cpp that widen memory accesses. *)

\* The result of an instruction at address `at` with operand values a and b, memory aside.
Result(d, at, a, b) ==
  LET imm == Wrap(d.imm)
      opb == IF uses_immediate(d) THEN imm ELSE b
  IN  CASE d.op = "ADD"    -> add(a, opb)   [] d.op = "SUB"    -> sub(a, b)
        [] d.op = "SLL"    -> sll(a, opb)   [] d.op = "SRL"    -> srl(a, opb)
        [] d.op = "SRA"    -> sra(a, opb)   [] d.op = "AND"    -> and_(a, opb)
        [] d.op = "OR"     -> or_(a, opb)   [] d.op = "XOR"    -> xor_(a, opb)
        [] d.op = "SLT"    -> slt(a, opb)   [] d.op = "SLTU"   -> sltu(a, opb)
        [] d.op = "LUI"    -> imm           [] d.op = "AUIPC"  -> Wrap(at + imm)
        [] d.op = "MUL"    -> mul(a, b)     [] d.op = "MULH"   -> mulh(a, b)
        [] d.op = "MULHSU" -> mulhsu(a, b)  [] d.op = "MULHU"  -> mulhu(a, b)
        [] d.op = "DIV"    -> div(a, b)     [] d.op = "DIVU"   -> divu(a, b)
        [] d.op = "REM"    -> rem(a, b)     [] d.op = "REMU"   -> remu(a, b)
        [] d.op \in {"JAL", "JALR"} -> link_address(at)
        [] OTHER           -> 0

\* Where control goes next.
NextPc(d, at, a, b) ==
  CASE d.op = "JALR" -> jalr_target(a, d.imm)
    [] d.op = "JAL" \/ branch_taken(d.op, a, b) -> branch_target(at, d.imm)
    [] OTHER -> link_address(at)

access_size(op) ==
  CASE op \in {"LB", "LBU", "SB"} -> 1
    [] op \in {"LH", "LHU", "SH"} -> 2
    [] OTHER                      -> 4

\* Zero-extends what should be sign-extended.
extend_loadSlip(op, v) == v
extend_load(op, v) ==
  CASE op = "LB" -> Wrap(Sext(v, 8))
    [] op = "LH" -> Wrap(Sext(v, 16))
    [] OTHER     -> v

-----------------------------------------------------------------------------
(***************************************************************************)
(* disasm(): the text is a tuple, mnemonic first, then the operands as the *)
(* numbers they print as.  OP-IMM's mnemonics get their "i" back from the  *)
(* opcode; a store prints its data register; targets print absolute.       *)
(***************************************************************************)
disasm(d, at) ==
  CASE d.op = "INVALID"             -> <<d.op, d.raw>>
    [] d.kind \in {"NOP", "TRAP"} /\ d.op # "INVALID" -> <<d.op>>
    [] uses_immediate(d)            -> <<d.op, "i", d.rd, d.rs1, d.imm>>
    [] d.op \in {"LUI", "AUIPC"}    -> <<d.op, d.rd, (d.imm \div 4096) % 1048576>>
    [] d.op = "JAL"                 -> <<d.op, d.rd, branch_target(at, d.imm)>>
    [] d.op = "JALR" \/ d.is_load   -> <<d.op, d.rd, d.imm, d.rs1>>
    [] d.is_store                   -> <<d.op, d.rs2, d.imm, d.rs1>>
    [] d.is_branch                  -> <<d.op, d.rs1, d.rs2, branch_target(at, d.imm)>>
    [] OTHER                        -> <<d.op, d.rd, d.rs1, d.rs2>>
=============================================================================
