----------------------------- MODULE MCScheduler -----------------------------
(***************************************************************************)
(* Bounds for checking Scheduler: one unit of each class, latencies that   *)
(* make results of different ages meet at the single writeback port.       *)
(***************************************************************************)
EXTENDS Scheduler

Op(kind, writes) == [kind |-> kind, writes |-> writes]

MCUnits == [c \in Class |-> 1]

\* Results of four ages, two of them from units that block.  A divide is long
\* enough to be squashed with its unit still held when the next one is ready.
MCLatency ==
  [k \in Kind |-> CASE k = "MUL" -> 3 [] k = "DIV" -> 4 [] k = "LOAD" -> 2 [] OTHER -> 1]

\* Arithmetic of three of the latencies, the jump that links, accesses to memory and
\* what ends the run.
MCSupply ==
  {Op("ALU", TRUE), Op("MUL", TRUE), Op("DIV", TRUE), Op("BRANCH", TRUE),
   Op("LOAD", TRUE), Op("STORE", FALSE), Op("TRAP", FALSE)}

\* What can starve a load of its port: results booked ahead of it, and
\* branches that make room for more.
Contended == {Op("LOAD", TRUE), Op("STORE", FALSE), Op("MUL", TRUE), Op("BRANCH", FALSE)}
=============================================================================
