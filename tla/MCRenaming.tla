----------------------------- MODULE MCRenaming -----------------------------
(***************************************************************************)
(* Bounds for checking Renaming: two renamed registers next to x0, and one *)
(* instruction of each shape.  Registers are symmetric to the code, so one *)
(* writer of each is enough to have chains of dependences, and the jump    *)
(* that links is a branch with a destination of its own.                   *)
(***************************************************************************)
EXTENDS Renaming

Inst(rd, rs1, rs2, branch, trap) ==
  [rd |-> rd, rs1 |-> rs1, rs2 |-> rs2, branch |-> branch, trap |-> trap]

Writer    == Inst(1, 2, 0, FALSE, FALSE)
Jump      == Inst(2, 1, 2, TRUE, FALSE)
CondBr    == Inst(None, 1, 0, TRUE, FALSE)
Trap      == Inst(None, 0, 0, FALSE, TRUE)

MCInsts   == {Writer, Jump, CondBr, Trap}
=============================================================================
