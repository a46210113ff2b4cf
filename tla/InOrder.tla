------------------------------- MODULE InOrder -------------------------------
(***************************************************************************)
(* tests/ref.h: the in-order interpreter the pipeline is validated         *)
(* against.  One instruction per step, no pipeline and no speculation.     *)
(* Pipeline.tla is shown to implement this machine.                        *)
(***************************************************************************)
EXTENDS Memory

CONSTANTS
  NumArch,   \* architectural registers; x0 is the constant zero
  RegA0,     \* REG_A0: an exit's code
  RegA7,     \* REG_A7: an ecall's number
  SysExit,   \* SYS_EXIT
  Programs,  \* sequences of words, loaded at address 0
  MaxInsts   \* Options::max_insts

ArchRegs == 0 .. NumArch - 1

ASSUME InOrderAssumption ==
  /\ NumArch \in Nat \ {0}
  /\ RegA0 \in ArchRegs /\ RegA7 \in ArchRegs
  /\ MaxInsts \in Nat

VARIABLES
  program,   \* what was loaded; never changes
  mem,
  regs,      \* Result::regs
  pc,        \* the next instruction; after a halt or a trap, the one that ended it
  outcome,   \* "running", "halted", "trapped" or "budget"
  exit_code,
  retired

vars == <<program, mem, regs, pc, outcome, exit_code, retired>>

Init ==
  /\ program \in Programs
  /\ mem = load_hex(program, 0)
  /\ regs = [r \in ArchRegs |-> 0]
  /\ pc = 0
  /\ outcome = "running"
  /\ exit_code = 0
  /\ retired = 0

-----------------------------------------------------------------------------
Fetched == Decode(WordAt(mem, pc))

\* The value a load produces: from memory, widened.
Loaded(d, addr) ==
  extend_load(d.op, ValueOf(LoadBytes(mem, addr, access_size(d.op))))

\* Writing x0 is what an instruction that names it does: nothing.
Stepping(d) ==
  /\ outcome = "running" /\ retired < MaxInsts
  /\ d = Fetched
  /\ retired' = retired + 1
  /\ UNCHANGED program

\* Everything but the two ways to end.
Execute ==
  \E d \in {Fetched} :
    LET a    == regs[d.rs1]
        b    == regs[d.rs2]
        addr == Wrap(a + d.imm)
    IN  /\ Stepping(d)
        /\ d.kind # "TRAP"
        /\ regs' = IF ~d.writes_rd THEN regs
                   ELSE [regs EXCEPT ![d.rd] =
                           IF d.is_load THEN Loaded(d, addr) ELSE Result(d, pc, a, b)]
        /\ mem' = IF d.is_store THEN StoreBytes(mem, addr, BytesOf(b, access_size(d.op))) ELSE mem
        /\ pc' = NextPc(d, pc, a, b)
        /\ UNCHANGED <<outcome, exit_code>>

\* ecall with a7 = 93.
Exits(d) == d.op = "ECALL" /\ regs[RegA7] = SysExit

Halt ==
  \E d \in {Fetched} :
    /\ Stepping(d)
    /\ Exits(d)
    /\ outcome' = "halted" /\ exit_code' = regs[RegA0]
    /\ UNCHANGED <<mem, regs, pc>>

\* Any other ecall, ebreak and every word that does not decode.
Trap ==
  \E d \in {Fetched} :
    /\ Stepping(d)
    /\ d.kind = "TRAP" /\ ~Exits(d)
    /\ outcome' = "trapped"
    /\ UNCHANGED <<mem, regs, pc, exit_code>>

\* run(): the runaway-program backstop.
Budget ==
  /\ outcome = "running" /\ retired >= MaxInsts
  /\ outcome' = "budget"
  /\ UNCHANGED <<program, mem, regs, pc, exit_code, retired>>

Next == Execute \/ Halt \/ Trap \/ Budget

Spec == Init /\ [][Next]_vars
=============================================================================
