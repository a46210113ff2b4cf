----------------------------- MODULE MCFrontEnd -----------------------------
(***************************************************************************)
(* Bounds for checking FrontEnd: a loop around a call, with a conditional  *)
(* branch of either direction, a procedure that returns to either caller,  *)
(* and a trap behind the loop.                                             *)
(***************************************************************************)
EXTENDS FrontEnd

Ins(op, linkRd, linkRs1, targets) ==
  [op |-> op, linkRd |-> linkRd, linkRs1 |-> linkRs1, targets |-> targets]

Plain  == Ins("PLAIN", FALSE, FALSE, {0})
Trap   == Ins("TRAP", FALSE, FALSE, {0})
Call   == Ins("JAL", TRUE, FALSE, {4})
Return == Ins("JALR", FALSE, TRUE, {1, 2})
Loop   == Ins("BXX", FALSE, FALSE, {0})

\* 0 and 1 call 4; 2 branches back to 0; 3 traps; 4 returns; 5 is never run.
MCProgram ==
  [p \in 0 .. 5 |-> CASE p \in {0, 1} -> Call [] p = 2 -> Loop [] p = 3 -> Trap
                      [] p = 4 -> Return [] OTHER -> Plain]

\* A store may turn the loop's branch round, so that it skips the first call,
\* and back.
Skip == Ins("BXX", FALSE, FALSE, {1})
Branches == {<<2, Skip>>, <<2, Loop>>}

\* 0 is plain; 1 branches to 0 or falls through, and a store may make it no
\* branch at all.
Small ==
  [p \in 0 .. 2 |-> CASE p = 0 -> Plain [] p = 1 -> Loop [] OTHER -> Trap]
AnyCode == {<<1, Plain>>}
=============================================================================
