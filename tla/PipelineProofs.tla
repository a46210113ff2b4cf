--------------------------- MODULE PipelineProofs ---------------------------
(***************************************************************************)
(* The pipeline implements Renaming: for every configuration, program and  *)
(* prediction, what tick()'s stages do to the register file, the alias     *)
(* table, the pools and the reorder buffer is a behaviour of that module,  *)
(* whose theorems therefore hold of the whole machine.                     *)
(***************************************************************************)
EXTENDS Pipeline, SequenceTheorems, TLAPS

-----------------------------------------------------------------------------
(* What decode() hands to rename(). *)

\* A word that traps is unknown, or names no register.
LEMMA TrapFormat ==
  ASSUME NEW w \in Words, OpOf(w) \in TrapOps
  PROVE  OpOf(w) = "INVALID" \/ FormatOf(w) = "none"
<1>1. w.f3 \in 0 .. 7 /\ w.f7 \in 0 .. 127 /\ w.opcode \in 0 .. 127
  BY DEF Words
<1>2. CASE w.opcode \in {55, 23, 111}
  BY <1>2 DEF OpOf, TrapOps
<1>3. CASE w.opcode = 103
  BY <1>3 DEF OpOf, TrapOps
<1>4. CASE w.opcode = 99
  BY <1>1, <1>4 DEF OpOf, TrapOps, Branches
<1>5. CASE w.opcode = 3
  BY <1>1, <1>5 DEF OpOf, TrapOps, Loads
<1>6. CASE w.opcode = 35
  BY <1>1, <1>6 DEF OpOf, TrapOps, Stores
<1>7. CASE w.opcode = 19
  BY <1>1, <1>7 DEF OpOf, TrapOps, ImmediateOp, Ariths
<1>8. CASE w.opcode = 51
  BY <1>1, <1>8 DEF OpOf, TrapOps, RegisterOp, Ariths, MulDivs
<1> QED
  BY <1>1, <1>2, <1>3, <1>4, <1>5, <1>6, <1>7, <1>8 DEF FormatOf

\* decode() clears the registers of what traps, and never asks rename() for x0
\* (instruction.cpp:56-62, 237-240).
LEMMA DecodedShape ==
  ASSUME NEW w \in Words, NumArch >= 32
  PROVE  ShapeOf(Decode(w)) \in Shapes
<1> DEFINE op  == OpOf(w)
           fmt == IF op = "INVALID" THEN "none" ELSE FormatOf(w)
           rd  == IF fmt \in {"U", "J", "I", "R"} THEN w.rd ELSE 0
           rs1 == IF fmt \in {"I", "B", "S", "R"} THEN w.rs1 ELSE 0
           rs2 == IF fmt \in {"B", "S", "R"} THEN w.rs2 ELSE 0
<1>1. /\ Decode(w).rd = rd /\ Decode(w).rs1 = rs1 /\ Decode(w).rs2 = rs2
      /\ Decode(w).kind = KindOf(op)
      /\ Decode(w).is_branch = (op \in BranchOps)
      /\ Decode(w).writes_rd = (rd # 0)
  BY DEF Decode
<1>2. rd \in 0 .. 31 /\ rs1 \in 0 .. 31 /\ rs2 \in 0 .. 31
  BY DEF Words
<1>3. 0 .. 31 \subseteq Arch
  BY PipelineAssumption DEF Arch
<1>4. ASSUME KindOf(op) = "TRAP"
      PROVE  rd = 0 /\ op \notin BranchOps
  <2>1. op \in TrapOps
    BY <1>4 DEF KindOf
  <2> QED
    BY <2>1, TrapFormat DEF TrapOps, BranchOps
<1> HIDE DEF op, rd, rs1, rs2
<1>5. ShapeOf(Decode(w)) =
        [rd |-> IF rd # 0 THEN rd ELSE None, rs1 |-> rs1, rs2 |-> rs2,
         branch |-> op \in BranchOps, trap |-> KindOf(op) = "TRAP"]
  BY <1>1 DEF ShapeOf
<1>6. (IF rd # 0 THEN rd ELSE None) \in (Arch \ {0}) \cup {None}
  BY <1>2, <1>3
<1>7. KindOf(op) = "TRAP" => (IF rd # 0 THEN rd ELSE None) = None /\ op \notin BranchOps
  BY <1>4
<1> DEFINE named == IF rd # 0 THEN rd ELSE None
           traps == KindOf(op) = "TRAP"
           branches == op \in BranchOps
<1>8. named \in (Arch \ {0}) \cup {None} /\ traps \in BOOLEAN /\ branches \in BOOLEAN
      /\ rs1 \in Arch /\ rs2 \in Arch /\ (traps => named = None /\ ~branches)
  BY <1>2, <1>3, <1>6, <1>7
<1>9. ShapeOf(Decode(w)) =
         [rd |-> named, rs1 |-> rs1, rs2 |-> rs2, branch |-> branches, trap |-> traps]
  BY <1>5
<1> HIDE DEF named, traps, branches
<1> QED
  BY <1>8, <1>9 DEF Shapes

-----------------------------------------------------------------------------
(* The queues in front of rename() carry instruction words, decoded from   *)
(* decode_stage() on.                                                      *)

FetchedAt(X) == [pc : X, raw : Words, pred : X]
DecodedAt(X) == [pc : X, dec : {Decode(w) : w \in Words}, pred : X]

QueuesOver(X) == fetchQ \in Seq(FetchedAt(X)) /\ decodeQ \in Seq(DecodedAt(X))

CarryWords == \E X : QueuesOver(X)

\* Addresses a later step adds to the set do not disturb what is queued.
LEMMA QueuesWiden ==
  ASSUME NEW X, NEW Y, X \subseteq Y, QueuesOver(X)
  PROVE  QueuesOver(Y)
<1>1. FetchedAt(X) \subseteq FetchedAt(Y) /\ DecodedAt(X) \subseteq DecodedAt(Y)
  BY DEF FetchedAt, DecodedAt
<1> QED
  BY <1>1, SeqMonotonic DEF QueuesOver

\* decode_stage() moves the head of one queue to the end of the other.
LEMMA DecodeCarries ==
  ASSUME NEW X, QueuesOver(X), fetchQ # <<>>
  PROVE  Append(decodeQ, Decoded(Head(fetchQ))) \in Seq(DecodedAt(X))
<1>1. Head(fetchQ) \in FetchedAt(X)
  BY DEF QueuesOver
<1>2. Decoded(Head(fetchQ)) \in DecodedAt(X)
  BY <1>1 DEF Decoded, FetchedAt, DecodedAt
<1> QED
  BY <1>2 DEF QueuesOver

\* fetch() adds instruction words only, and no stage writes to a queued one.
LEMMA CarryWordsInductive == CarryWords /\ [Next]_vars => CarryWords'
<1> SUFFICES ASSUME CarryWords, [Next]_vars
             PROVE  CarryWords'
  OBVIOUS
<1> PICK X : QueuesOver(X)
  BY DEF CarryWords
<1>1. CASE UNCHANGED <<fetchQ, decodeQ>>
  BY <1>1 DEF CarryWords, QueuesOver
<1>2. CASE fetchQ' = <<>> /\ decodeQ' = <<>>
  <2>1. QueuesOver(X)'
    BY <1>2 DEF QueuesOver
  <2> QED
    BY <2>1 DEF CarryWords
<1>3. CASE RenameOne
  <2>1. decodeQ # <<>> /\ decodeQ' = Tail(decodeQ) /\ fetchQ' = fetchQ
    BY <1>3 DEF RenameOne, CanRename
  <2>2. QueuesOver(X)'
    BY <2>1 DEF QueuesOver
  <2> QED
    BY <2>2 DEF CarryWords
<1>4. CASE DecodeOne \/ DecodeTrap
  <2>1. /\ fetchQ # <<>>
        /\ decodeQ' = Append(decodeQ, Decoded(Head(fetchQ)))
        /\ fetchQ' = Tail(fetchQ) \/ fetchQ' = <<>>
    BY <1>4 DEF DecodeOne, DecodeTrap, CanDecode
  <2>2. Append(decodeQ, Decoded(Head(fetchQ))) \in Seq(DecodedAt(X))
    BY <2>1, DecodeCarries
  <2>3. Tail(fetchQ) \in Seq(FetchedAt(X)) /\ <<>> \in Seq(FetchedAt(X))
    BY <2>1 DEF QueuesOver
  <2>4. QueuesOver(X)'
    BY <2>1, <2>2, <2>3 DEF QueuesOver
  <2> QED
    BY <2>4 DEF CarryWords
<1>5. CASE FetchOne
  <2> DEFINE w == WordAt(mem, pc)
  <2>1. PICK pr \in Predictions(Decode(w), pc) :
          /\ w \in Words
          /\ fetchQ' = Append(fetchQ, [pc |-> pc, raw |-> w, pred |-> pr.target])
          /\ decodeQ' = decodeQ
    BY <1>5 DEF FetchOne
  <2> PICK Y : Y = X \cup {pc, pr.target}
    OBVIOUS
  <2> HIDE DEF w
  <2>2. QueuesOver(Y)
    BY QueuesWiden
  <2>3. [pc |-> pc, raw |-> w, pred |-> pr.target] \in FetchedAt(Y)
    BY <2>1 DEF FetchedAt
  <2>4. fetchQ' \in Seq(FetchedAt(Y)) /\ decodeQ' \in Seq(DecodedAt(Y))
    BY <2>1, <2>2, <2>3 DEF QueuesOver
  <2>5. QueuesOver(Y)'
    BY <2>4 DEF QueuesOver, FetchedAt, DecodedAt
  <2> QED
    BY <2>5 DEF CarryWords
<1>6. ASSUME Next
      PROVE  \/ UNCHANGED <<fetchQ, decodeQ>>
             \/ fetchQ' = <<>> /\ decodeQ' = <<>>
             \/ RenameOne
             \/ DecodeOne \/ DecodeTrap
             \/ FetchOne
  <2>1. CASE Tick
    BY <2>1 DEF Tick, fronts
  <2>2. CASE Rest
    BY <2>2 DEF Rest, vars, fronts
  <2>3. CASE CommitOne
    BY <2>3 DEF CommitOne, fronts
  <2>4. CASE CommitEnd
    BY <2>4 DEF CommitEnd, fronts
  <2>5. CASE Drain
    BY <2>5 DEF Drain, fronts
  <2>6. CASE WritebackFast
    BY <2>6 DEF WritebackFast, Complete, fronts
  <2>7. CASE WritebackSlow
    BY <2>7 DEF WritebackSlow, Complete, fronts
  <2>8. CASE WritebackEnd
    BY <2>8 DEF WritebackEnd, fronts
  <2>9. CASE Execute
    BY <2>9 DEF Execute, fronts
  <2>10. CASE TurnAway
    BY <2>10 DEF TurnAway, Considers, fronts
  <2>11. CASE ReplayLoad
    BY <2>11 DEF ReplayLoad, Considers, fronts
  <2>12. CASE IssueLoad
    BY <2>12 DEF IssueLoad, Considers, fronts
  <2>13. CASE IssueOther
    BY <2>13 DEF IssueOther, Considers, fronts
  <2>14. CASE IssueEnd
    BY <2>14 DEF IssueEnd, fronts
  <2>15. CASE Recover
    BY <2>15 DEF Recover, fronts
  <2>16. CASE Reclaim
    BY <2>16 DEF Reclaim, fronts
  <2>17. CASE Restore
    BY <2>17 DEF Restore, fronts
  <2>18. CASE DispatchOne
    BY <2>18 DEF DispatchOne, fronts
  <2>19. CASE DispatchEnd
    BY <2>19 DEF DispatchEnd, fronts
  <2>20. CASE RenameEnd
    BY <2>20 DEF RenameEnd, fronts
  <2>21. CASE DecodeEnd
    BY <2>21 DEF DecodeEnd, fronts
  <2>22. CASE FetchEnd
    BY <2>22 DEF FetchEnd, fronts
  <2> QED
    BY <1>6, <2>1, <2>2, <2>3, <2>4, <2>5, <2>6, <2>7, <2>8, <2>9, <2>10, <2>11, <2>12,
       <2>13, <2>14, <2>15, <2>16, <2>17, <2>18, <2>19, <2>20, <2>21, <2>22
    DEF Next
<1>7. CASE UNCHANGED vars
  BY <1>1, <1>7 DEF vars, fronts
<1> QED
  BY <1>1, <1>2, <1>3, <1>4, <1>5, <1>6, <1>7

\* So rename() is handed what decode() made of a word, in every reachable state.
LEMMA CarryWordsAlways == Spec => []CarryWords
<1>1. Init => CarryWords
  <2>1. ASSUME Init PROVE QueuesOver({})
    BY <2>1 DEF Init, QueuesOver
  <2> QED
    BY <2>1 DEF CarryWords
<1> QED
  BY <1>1, CarryWordsInductive, PTL DEF Spec

-----------------------------------------------------------------------------
(* Every step is a step of Renaming or leaves its state alone. *)

\* Each stage calls one operation of the renaming structures at a time.
LEMMA Refines ==
  ASSUME NumArch >= 32, CarryWords, [Next]_vars
  PROVE  [Ren!Next]_renaming
<1>1. CASE UNCHANGED vars
  BY <1>1 DEF vars
<1>2. CASE RenameOne
  <2>1. decodeQ # <<>> /\ Ren!Rename(ShapeOf(Head(decodeQ).dec))
    BY <1>2 DEF RenameOne, CanRename
  <2>2. PICK X : decodeQ \in Seq(DecodedAt(X))
    BY DEF CarryWords, QueuesOver
  <2>3. Head(decodeQ) \in DecodedAt(X)
    BY <2>1, <2>2
  <2>4. PICK w \in Words : Head(decodeQ).dec = Decode(w)
    BY <2>3 DEF DecodedAt
  <2>5. ShapeOf(Head(decodeQ).dec) \in Shapes
    BY <2>4, DecodedShape
  <2> QED
    BY <2>1, <2>5 DEF Ren!Next
<1>3. CASE IssueLoad \/ IssueOther
  <2>1. Considered \in 1 .. Len(rob)
    BY <1>3 DEF IssueLoad, IssueOther, Considers, InFlight, Considered
  <2>2. PICK u : Ren!Issue(Considered, Mispredicts(u))
    BY <1>3 DEF IssueLoad, IssueOther, Starts
  <2>3. Mispredicts(u) \in BOOLEAN
    BY DEF Mispredicts
  <2> QED
    BY <2>1, <2>2, <2>3 DEF Ren!Next, Ren!Advance
<1>4. CASE WritebackFast \/ WritebackSlow
  <2>1. PICK seq : InFlight(seq) /\ Ren!Complete(At(seq))
    BY <1>4 DEF WritebackFast, WritebackSlow, Complete
  <2> QED
    BY <2>1 DEF InFlight, Ren!Next, Ren!Advance
<1>5. CASE CommitOne \/ Drain \/ Recover \/ Reclaim \/ Restore
  BY <1>5 DEF CommitOne, Drain, Recover, Reclaim, Restore, Ren!Next, Ren!Advance
<1>6. CASE Tick \/ Rest \/ CommitEnd \/ WritebackEnd \/ Execute
  BY <1>6 DEF Tick, Rest, CommitEnd, WritebackEnd, Execute, vars
<1>7. CASE TurnAway \/ ReplayLoad \/ IssueEnd
  BY <1>7 DEF TurnAway, ReplayLoad, IssueEnd
<1>8. CASE DispatchOne \/ DispatchEnd \/ RenameEnd \/ DecodeOne \/ DecodeTrap \/ DecodeEnd
           \/ FetchOne \/ FetchEnd
  BY <1>8 DEF DispatchOne, DispatchEnd, RenameEnd, DecodeOne, DecodeTrap, DecodeEnd,
              FetchOne, FetchEnd
<1> QED
  BY <1>1, <1>2, <1>3, <1>4, <1>5, <1>6, <1>7, <1>8 DEF Next

(***************************************************************************)
(* The whole machine implements Renaming: what commit(), writeback(),      *)
(* issue(), recover() and rename() do to the renaming structures within    *)
(* tick() is one of its behaviours.  A register field names 32 registers.  *)
(***************************************************************************)
THEOREM ImplementsRenaming ==
  ASSUME NumArch >= 32
  PROVE  Spec => Ren!Spec
<1>1. Init => Ren!Init
  BY DEF Init
<1>2. CarryWords /\ [Next]_vars => [Ren!Next]_(Ren!vars)
  BY Refines DEF Ren!vars, renaming
<1> QED
  BY <1>1, <1>2, CarryWordsAlways, PTL DEF Spec, Ren!Spec

-----------------------------------------------------------------------------
(* What RenamingProofs shows, of the pipeline. *)

RP == INSTANCE RenamingProofs WITH Insts <- Shapes

\* decode() hands over instructions of the kind those proofs are about.
LEMMA RenamingApplies ==
  /\ NumArch \in Nat \ {0}
  /\ PrfSize \in Nat /\ PrfSize >= NumArch
  /\ RobSize \in Nat \ {0}
  /\ NumCkpt \in Nat
  /\ Shapes \subseteq RP!AllInsts
BY PipelineAssumption DEF Shapes, RP!AllInsts, Arch, RP!Arch, None, RP!None

\* The two instances of Renaming, the one Pipeline is built from and the one
\* its proofs are about, are the same specification: reset().
LEMMA SameInit == Ren!Init => RP!Init
BY DEF Ren!Init, RP!Init, Ren!Arch, RP!Arch, Ren!Phys, RP!Phys, Ren!Ckpt, RP!Ckpt

\* rename().
LEMMA SameRename == ASSUME NEW d PROVE Ren!Rename(d) = RP!Rename(d)
BY DEF Ren!Rename, RP!Rename, Ren!None, RP!None, Ren!Running, RP!Running,
       Ren!RobFull, RP!RobFull, Ren!Renamed, RP!Renamed, Ren!Mapped, RP!Mapped,
       Ren!Snapshot, RP!Snapshot

\* issue() and writeback().
LEMMA SameExecution ==
  ASSUME NEW i, NEW m
  PROVE  Ren!Issue(i, m) = RP!Issue(i, m) /\ Ren!Complete(i) = RP!Complete(i)
BY DEF Ren!Issue, RP!Issue, Ren!Complete, RP!Complete, Ren!Written, RP!Written,
       Ren!None, RP!None, Ren!Running, RP!Running

\* recover(), squash by squash.
LEMMA SameRecovery ==
  /\ Ren!Recover = RP!Recover
  /\ Ren!Reclaim = RP!Reclaim
  /\ Ren!Restore = RP!Restore
BY DEF Ren!Recover, RP!Recover, Ren!YoungestFirst, RP!YoungestFirst,
       Ren!Reclaim, RP!Reclaim, Ren!Reclaimed, RP!Reclaimed, Ren!FreeReg, RP!FreeReg,
       Ren!FreeCkpt, RP!FreeCkpt, Ren!Phys, RP!Phys, Ren!Ckpt, RP!Ckpt,
       Ren!Restore, RP!Restore

\* commit(), to the drain that follows a trap.
LEMMA SameCommit == Ren!Commit = RP!Commit /\ Ren!Drained = RP!Drained
BY DEF Ren!Commit, RP!Commit, Ren!CommitFree, RP!CommitFree, Ren!CommitCkpt, RP!CommitCkpt,
       Ren!YoungestFirst, RP!YoungestFirst, Ren!FreeReg, RP!FreeReg,
       Ren!FreeCkpt, RP!FreeCkpt, Ren!Phys, RP!Phys, Ren!Ckpt, RP!Ckpt, Ren!None, RP!None,
       Ren!Running, RP!Running, Ren!Drained, RP!Drained

LEMMA SameSpec == Ren!Spec => RP!Spec
<1>1. [Ren!Next]_(Ren!vars) => [RP!Next]_(RP!vars)
  BY SameRename, SameExecution, SameRecovery, SameCommit
  DEF Ren!Next, RP!Next, Ren!Advance, RP!Advance, Ren!vars, RP!vars
<1> QED
  BY <1>1, SameInit, PTL DEF Ren!Spec, RP!Spec

(***************************************************************************)
(* No physical register or checkpoint is ever lost or handed out twice,    *)
(* whatever tick() fetches, replays, squashes or retires, and a branch's   *)
(* snapshot and the committed mapping are what program order makes them.   *)
(***************************************************************************)
THEOREM PipelineKeepsRegisters ==
  ASSUME NumArch >= 32
  PROVE  Spec => [](/\ RP!OneOwner /\ RP!OneHolder /\ RP!Conserved
                    /\ RP!RatIsProgramOrder /\ RP!StaleIsPredecessor
                    /\ RP!SourcesAreProgramOrder /\ RP!CheckpointsAreExact)
<1>1. RP!Spec => [](RP!OneOwner /\ RP!OneHolder)
  BY RP!Conservation, RenamingApplies
<1>2. RP!Spec => [](RP!RatIsProgramOrder /\ RP!StaleIsPredecessor
                     /\ RP!SourcesAreProgramOrder /\ RP!CheckpointsAreExact)
  BY RP!PreciseMapping, RenamingApplies
<1>3. RP!Spec => []RP!Conserved
  BY RP!LedgerHolds, RenamingApplies
<1> QED
  BY <1>1, <1>2, <1>3, SameSpec, ImplementsRenaming, PTL

(***************************************************************************)
(* The registers an instruction is going to read in issue() are not given  *)
(* to another before it has issued, and one that is not ready is owed by   *)
(* an older instruction still to complete: no candidate of the issue queue *)
(* waits for a wakeup that cannot come.                                    *)
(***************************************************************************)
THEOREM PipelineOperandsArrive ==
  ASSUME NumArch >= 32
  PROVE  Spec => [](RP!NoEarlyReuse /\ RP!PendingIsOwed)
<1>1. RP!Spec => []RP!NoEarlyReuse
  BY RP!SourcesStayAlive, RenamingApplies
<1>2. RP!Spec => []RP!PendingIsOwed
  BY RP!NoLostProducer, RenamingApplies
<1> QED
  BY <1>1, <1>2, SameSpec, ImplementsRenaming, PTL

-----------------------------------------------------------------------------
(* inflight_ and the reorder buffer: one uop per entry, and they agree on  *)
(* which of them ends the run.                                             *)

UopOver(X) ==
  [seq : X, pc : X, dec : X, pred : X, next : X, robNext : X, result : X, lsq : X, wb : X]

SameTraps(es, us) ==
  Len(es) <= Len(us) /\ \A i \in 1 .. Len(es) : es[i].trap <=> us[i].dec.kind = "TRAP"

InStep ==
  /\ \E X : uops \in Seq(UopOver(X))
  /\ SameTraps(rob, uops)
  /\ mode = "run" => Len(uops) = Len(rob)
  /\ mode \in {"halt", "done"} => uops = <<>>

\* issue() and dispatch() write to a uop, and keep what decode() made of it.
LEMMA UopChanged ==
  ASSUME NEW X, NEW us \in Seq(UopOver(X)), NEW i, NEW u, NEW Y, u \in UopOver(Y),
         i \in 1 .. Len(us) => u.dec = us[i].dec
  PROVE  /\ \E Z : [us EXCEPT ![i] = u] \in Seq(UopOver(Z))
         /\ Len([us EXCEPT ![i] = u]) = Len(us)
         /\ \A k \in 1 .. Len(us) : [us EXCEPT ![i] = u][k].dec = us[k].dec
<1> DEFINE vs == [us EXCEPT ![i] = u]
           Z  == X \cup Y
<1>1. UopOver(X) \subseteq UopOver(Z) /\ u \in UopOver(Z)
  BY DEF UopOver
<1>2. us \in Seq(UopOver(Z))
  BY <1>1, SeqMonotonic
<1>3. vs \in Seq(UopOver(Z)) /\ Len(vs) = Len(us)
      /\ \A k \in 1 .. Len(us) : vs[k] = IF k = i THEN u ELSE us[k]
  <2> DEFINE S == UopOver(Z)
  <2>1. us \in Seq(S) /\ u \in S
    BY <1>1, <1>2
  <2> HIDE DEF S
  <2>2. vs \in Seq(S) /\ Len(vs) = Len(us)
        /\ \A k \in 1 .. Len(us) : vs[k] = IF k = i THEN u ELSE us[k]
    <3>1. vs = [k \in 1 .. Len(us) |-> IF k = i THEN u ELSE us[k]]
      BY <2>1
    <3>2. Len(us) \in Nat /\ \A k \in 1 .. Len(us) : us[k] \in S
      BY <2>1
    <3>3. \A k \in 1 .. Len(us) : (IF k = i THEN u ELSE us[k]) \in S
      BY <2>1, <3>2
    <3> HIDE DEF vs
    <3> QED
      BY <3>1, <3>2, <3>3
  <2> QED
    BY <2>2 DEF S
<1> HIDE DEF vs, Z
<1>4. \A k \in 1 .. Len(us) : vs[k].dec = us[k].dec
  BY <1>3
<1> QED
  BY <1>3, <1>4 DEF vs

\* Steps that leave either list, but for the state of an entry, alone.
LEMMA SameStep ==
  ASSUME RP!TypeOK, InStep, NEW i \in 1 .. Len(rob), NEW st,
         rob' = [rob EXCEPT ![i].state = st], mode' = mode, uops' = uops
  PROVE  InStep'
<1>1. rob \in Seq(RP!Entry)
  BY DEF RP!TypeOK
<1>2. Len(rob') = Len(rob) /\ \A k \in 1 .. Len(rob) : rob'[k].trap = rob[k].trap
  BY <1>1 DEF RP!Entry
<1> QED
  BY <1>2 DEF InStep, SameTraps

\* Steps of the other structures.
LEMMA StillInStep ==
  ASSUME InStep, UNCHANGED <<rob, mode, uops>>
  PROVE  InStep'
BY DEF InStep, SameTraps

\* commit(): both heads leave, and a trap empties both.
LEMMA CommitInStep ==
  ASSUME RP!TypeOK, InStep, CommitOne
  PROVE  InStep'
<1>1. /\ rob # <<>> /\ rob \in Seq(RP!Entry) /\ mode = "run"
      /\ Len(uops) = Len(rob) /\ Len(rob) \in Nat /\ Len(rob) >= 1
  BY DEF CommitOne, Turn, In, CanCommit, RP!TypeOK, InStep
<1>2. PICK X : uops \in Seq(UopOver(X))
  BY DEF InStep
<1>3. Head(rob) = rob[1] /\ Head(uops) = uops[1]
  BY <1>1, <1>2
<1>4. rob[1].trap <=> Head(uops).dec.kind = "TRAP"
  BY <1>1, <1>3 DEF InStep, SameTraps
<1>5. uops' = IF Head(uops).dec.kind = "TRAP" THEN <<>> ELSE Tail(uops)
  BY DEF CommitOne
<1>6. CASE rob[1].trap
  <2>1. rob' = <<>> /\ mode' = "halt"
    BY <1>3, <1>6 DEF CommitOne, Ren!Commit
  <2>2. uops' = <<>>
    BY <1>4, <1>5, <1>6
  <2> QED
    BY <2>1, <2>2 DEF InStep, SameTraps
<1>7. CASE ~rob[1].trap
  <2>1. rob' = Tail(rob) /\ mode' = "run"
    BY <1>1, <1>3, <1>7 DEF CommitOne, Ren!Commit
  <2>2. uops' = Tail(uops)
    BY <1>4, <1>5, <1>7
  <2>3. /\ Len(rob') = Len(rob) - 1 /\ \A i \in 1 .. Len(rob) - 1 : rob'[i] = rob[i + 1]
        /\ Len(uops') = Len(rob) - 1 /\ \A i \in 1 .. Len(rob) - 1 : uops'[i] = uops[i + 1]
        /\ uops' \in Seq(UopOver(X))
    BY <1>1, <1>2, <2>1, <2>2
  <2>4. \A i \in 1 .. Len(rob) - 1 : i + 1 \in 1 .. Len(rob)
    BY <1>1
  <2>5. \A i \in 1 .. Len(rob) - 1 : rob'[i].trap <=> uops'[i].dec.kind = "TRAP"
    BY <2>3, <2>4 DEF InStep, SameTraps
  <2> QED
    BY <1>1, <2>1, <2>3, <2>5 DEF InStep, SameTraps
<1> QED
  BY <1>6, <1>7

\* squash_in_flight() ends with nothing in flight.
LEMMA DrainInStep ==
  ASSUME InStep, Drain
  PROVE  InStep'
<1>1. mode = "halt" /\ mode' = "done" /\ rob' = rob /\ uops' = uops
  BY DEF Drain, Ren!Drained
<1> QED
  BY <1>1 DEF InStep, SameTraps

\* complete() writes an entry's state.
LEMMA CompleteInStep ==
  ASSUME RP!TypeOK, InStep, NEW seq, Complete(seq)
  PROVE  InStep'
<1>1. /\ At(seq) \in 1 .. Len(rob)
      /\ rob' = [rob EXCEPT ![At(seq)].state = "complete"] /\ mode' = mode /\ uops' = uops
  BY DEF Complete, InFlight, Ren!Complete
<1> QED
  BY <1>1, SameStep

\* issue() writes a uop's result and times.
LEMMA StartsInStep ==
  ASSUME RP!TypeOK, InStep, NEW u, NEW lat, NEW Y, u \in UopOver(Y),
         Considered \in 1 .. Len(rob), u.dec = uops[Considered].dec, Starts(u, lat)
  PROVE  InStep'
<1> DEFINE i == Considered
           v == [u EXCEPT !.wb = cycle + lat]
<1>1. /\ rob' = [rob EXCEPT ![i].state = "issued"] /\ mode' = mode
      /\ uops' = [uops EXCEPT ![i] = v]
  BY DEF Starts, Ren!Issue
<1>2. v \in UopOver(Y \cup {cycle + lat}) /\ v.dec = uops[i].dec
  BY DEF UopOver
<1> HIDE DEF i, v
<1>3. PICK X : uops \in Seq(UopOver(X))
  BY DEF InStep
<1>4. /\ \E Z : uops' \in Seq(UopOver(Z))
      /\ Len(uops') = Len(uops)
      /\ \A k \in 1 .. Len(uops) : uops'[k].dec = uops[k].dec
  BY <1>1, <1>2, <1>3, UopChanged
<1>5. rob \in Seq(RP!Entry) /\ i \in 1 .. Len(rob)
  BY DEF RP!TypeOK, i
<1>6. Len(rob') = Len(rob) /\ \A k \in 1 .. Len(rob) : rob'[k].trap = rob[k].trap
  BY <1>1, <1>5 DEF RP!Entry
<1>7. Len(uops) \in Nat /\ Len(rob) \in Nat /\ Len(rob) <= Len(uops)
  BY <1>3, <1>5 DEF InStep, SameTraps
<1>8. \A k \in 1 .. Len(rob) : k \in 1 .. Len(uops)
  BY <1>7
<1>9. SameTraps(rob', uops')
  BY <1>4, <1>6, <1>7, <1>8 DEF InStep, SameTraps
<1>10. uops = <<>> => uops' = <<>>
  BY <1>1, <1>3, <1>4
<1> QED
  BY <1>1, <1>4, <1>6, <1>9, <1>10 DEF InStep

\* recover() cuts the reorder buffer first,
LEMMA RecoverInStep ==
  ASSUME RP!TypeOK, InStep, Recover
  PROVE  InStep'
<1>1. /\ rob' = SubSeq(rob, 1, offender) /\ mode' = "recover" /\ uops' = uops
      /\ offender \in 0 .. Len(rob) /\ rob \in Seq(RP!Entry)
  BY DEF Recover, Ren!Recover, RP!TypeOK
<1>2. Len(rob') = offender /\ \A i \in 1 .. offender : rob'[i] = rob[i] /\ i \in 1 .. Len(rob)
  BY <1>1
<1>3. Len(rob) \in Nat /\ Len(uops) \in Nat
  BY <1>1 DEF InStep
<1> QED
  BY <1>1, <1>2, <1>3 DEF InStep, SameTraps

\* and inflight_ to the same length at its end.
LEMMA RestoreInStep ==
  ASSUME RP!TypeOK, InStep, Restore
  PROVE  InStep'
<1>1. /\ rob' = rob /\ mode' = "run" /\ uops' = SubSeq(uops, 1, Len(rob))
      /\ Len(rob) \in Nat
  BY DEF Restore, Ren!Restore, RP!TypeOK
<1>2. PICK X : uops \in Seq(UopOver(X))
  BY DEF InStep
<1>3. Len(rob) \in 0 .. Len(uops)
  BY <1>1, <1>2 DEF InStep, SameTraps
<1>4. /\ uops' \in Seq(UopOver(X)) /\ Len(uops') = Len(rob)
      /\ \A i \in 1 .. Len(rob) : uops'[i] = uops[i]
  BY <1>1, <1>2, <1>3
<1> QED
  BY <1>1, <1>4 DEF InStep, SameTraps

\* dispatch() writes a uop's seat.
LEMMA DispatchInStep ==
  ASSUME InStep, DispatchOne
  PROVE  InStep'
<1> DEFINE i == At(Head(renameQ))
<1>1. PICK seat : uops' = [uops EXCEPT ![i].lsq = seat]
  BY DEF DispatchOne
<1>2. rob' = rob /\ mode' = mode
  BY DEF DispatchOne, renaming
<1>3. PICK X : uops \in Seq(UopOver(X))
  BY DEF InStep
<1> HIDE DEF i
<1>4. CASE i \in 1 .. Len(uops)
  <2> DEFINE v == [uops[i] EXCEPT !.lsq = seat]
  <2>1. uops' = [uops EXCEPT ![i] = v]
    BY <1>1
  <2>2. v \in UopOver(X \cup {seat}) /\ v.dec = uops[i].dec
    <3>1. uops[i] \in UopOver(X)
      BY <1>3, <1>4
    <3> QED
      BY <3>1 DEF UopOver
  <2> HIDE DEF v
  <2>3. /\ \E Z : uops' \in Seq(UopOver(Z))
        /\ Len(uops') = Len(uops)
        /\ \A k \in 1 .. Len(uops) : uops'[k].dec = uops[k].dec
    BY <2>1, <2>2, <1>3, UopChanged
  <2>4. SameTraps(rob, uops')
    <3>1. \A k \in 1 .. Len(rob) : Len(rob) <= Len(uops) /\ Len(uops) \in Nat => k \in 1 .. Len(uops)
      BY SMT
    <3>2. Len(uops) \in Nat
      BY <1>3
    <3> QED
      BY <2>3, <3>1, <3>2 DEF InStep, SameTraps
  <2> QED
    BY <1>2, <1>3, <2>3, <2>4 DEF InStep, SameTraps
<1>5. CASE i \notin 1 .. Len(uops)
  <2>1. uops' = uops
    BY <1>1, <1>3, <1>5
  <2> QED
    BY <1>2, <2>1, StillInStep
<1> QED
  BY <1>4, <1>5

\* rename() adds one of each, made of the same instruction.
LEMMA RenameInStep ==
  ASSUME RP!TypeOK, InStep, RenameOne
  PROVE  InStep'
<1> DEFINE f == Head(decodeQ)
           u == [seq |-> nextSeq, pc |-> f.pc, dec |-> f.dec, pred |-> f.pred,
                 next |-> link_address(f.pc), robNext |-> link_address(f.pc),
                 result |-> 0, lsq |-> 0, wb |-> 0]
<1>0. u \in UopOver({nextSeq, f.pc, f.dec, f.pred, link_address(f.pc), 0})
  BY DEF UopOver
<1>1. uops' = Append(uops, u) /\ u.dec = f.dec
  BY DEF RenameOne
<1> HIDE DEF u
<1>2. PICK e : rob' = Append(rob, e) /\ e.trap = (f.dec.kind = "TRAP")
  <2>1. PICK dest, id : rob' = Append(rob, Ren!Renamed(ShapeOf(f.dec), dest, id))
    BY DEF RenameOne, Ren!Rename
  <2>2. Ren!Renamed(ShapeOf(f.dec), dest, id).trap = (f.dec.kind = "TRAP")
    BY DEF Ren!Renamed, ShapeOf
  <2> QED
    BY <2>1, <2>2
<1>3. mode = "run" /\ mode' = "run" /\ Len(uops) = Len(rob)
  BY DEF RenameOne, Turn, In, Ren!Rename, InStep
<1>4. PICK X : uops \in Seq(UopOver(X))
  BY DEF InStep
<1>5. PICK Y : u \in UopOver(Y)
  BY <1>0
<1>6. uops \in Seq(UopOver(X \cup Y)) /\ u \in UopOver(X \cup Y)
  <2>1. UopOver(X) \subseteq UopOver(X \cup Y) /\ UopOver(Y) \subseteq UopOver(X \cup Y)
    BY DEF UopOver
  <2> QED
    BY <1>4, <1>5, <2>1, SeqMonotonic
<1>7. /\ uops' \in Seq(UopOver(X \cup Y)) /\ Len(uops') = Len(uops) + 1
      /\ \A i \in 1 .. Len(uops) : uops'[i] = uops[i]
      /\ uops'[Len(uops) + 1] = u
  BY <1>1, <1>6
<1>8. rob \in Seq(RP!Entry)
  BY DEF RP!TypeOK
<1>9. /\ Len(rob') = Len(rob) + 1 /\ Len(rob) \in Nat
      /\ \A i \in 1 .. Len(rob) : rob'[i] = rob[i]
      /\ rob'[Len(rob) + 1] = e
  BY <1>2, <1>8
<1>10. \A i \in 1 .. Len(rob') : i \in 1 .. Len(rob) \/ i = Len(rob) + 1
  BY <1>9
<1>11. SameTraps(rob', uops')
  <2>1. e.trap <=> u.dec.kind = "TRAP"
    BY <1>1, <1>2
  <2>2. ASSUME NEW i \in 1 .. Len(rob') PROVE rob'[i].trap <=> uops'[i].dec.kind = "TRAP"
    <3>1. CASE i \in 1 .. Len(rob)
      BY <1>3, <1>7, <1>9, <3>1 DEF InStep, SameTraps
    <3>2. CASE i = Len(rob) + 1
      BY <1>3, <1>7, <1>9, <2>1, <3>2
    <3> QED
      BY <1>10, <3>1, <3>2
  <2> QED
    BY <1>3, <1>7, <1>9, <2>2 DEF SameTraps
<1> QED
  BY <1>3, <1>7, <1>9, <1>11 DEF InStep

\* Every stage keeps them in step.
LEMMA NextInStep == RP!TypeOK /\ InStep /\ [Next]_vars => InStep'
<1> SUFFICES ASSUME RP!TypeOK, InStep, [Next]_vars
             PROVE  InStep'
  OBVIOUS
<1>1. CASE UNCHANGED <<rob, mode, uops>>
  BY <1>1, StillInStep
<1>2. CASE CommitOne
  BY <1>2, CommitInStep
<1>3. CASE Drain
  BY <1>3, DrainInStep
<1>4. CASE WritebackFast \/ WritebackSlow
  BY <1>4, CompleteInStep DEF WritebackFast, WritebackSlow
<1>5. CASE IssueLoad \/ IssueOther
  <2>1. Considered \in 1 .. Len(rob)
    BY <1>5 DEF IssueLoad, IssueOther, Considers, InFlight, Considered
  <2>2. PICK X : uops \in Seq(UopOver(X))
    BY DEF InStep
  <2>3. Considered \in 1 .. Len(uops)
    BY <2>1, <2>2 DEF InStep, SameTraps, RP!TypeOK
  <2>4. uops[Considered] \in UopOver(X)
    BY <2>2, <2>3
  <2>5. CASE IssueLoad
    <3>1. PICK r, lat : Starts([uops[Considered] EXCEPT !.result = r], lat)
      BY <2>5 DEF IssueLoad
    <3> DEFINE u == [uops[Considered] EXCEPT !.result = r]
    <3>2. u \in UopOver(X \cup {r}) /\ u.dec = uops[Considered].dec
      BY <2>4 DEF UopOver
    <3> QED
      BY <2>1, <3>1, <3>2, StartsInStep
  <2>6. CASE IssueOther
    <3>1. PICK r, n, lat : Starts([uops[Considered] EXCEPT !.result = r, !.next = n], lat)
      BY <2>6 DEF IssueOther
    <3> DEFINE u == [uops[Considered] EXCEPT !.result = r, !.next = n]
    <3>2. u \in UopOver(X \cup {r, n}) /\ u.dec = uops[Considered].dec
      BY <2>4 DEF UopOver
    <3> QED
      BY <2>1, <3>1, <3>2, StartsInStep
  <2> QED
    BY <1>5, <2>5, <2>6
<1>6. CASE Recover
  BY <1>6, RecoverInStep
<1>7. CASE Restore
  BY <1>7, RestoreInStep
<1>8. CASE DispatchOne
  BY <1>8, DispatchInStep
<1>9. CASE RenameOne
  BY <1>9, RenameInStep
<1>10. CASE Tick \/ Rest \/ CommitEnd \/ WritebackEnd \/ Execute
  BY <1>1, <1>10 DEF Tick, Rest, CommitEnd, WritebackEnd, Execute, vars, renaming
<1>11. CASE TurnAway \/ ReplayLoad \/ IssueEnd \/ Reclaim
  BY <1>1, <1>11 DEF TurnAway, ReplayLoad, IssueEnd, Reclaim, Ren!Reclaim, renaming
<1>12. CASE DispatchEnd \/ RenameEnd \/ DecodeOne \/ DecodeTrap \/ DecodeEnd \/ FetchOne \/ FetchEnd
  BY <1>1, <1>12 DEF DispatchEnd, RenameEnd, DecodeOne, DecodeTrap, DecodeEnd,
              FetchOne, FetchEnd, renaming
<1>13. CASE UNCHANGED vars
  BY <1>1, <1>13 DEF vars, renaming
<1> QED
  BY <1>2, <1>3, <1>4, <1>5, <1>6, <1>7, <1>8, <1>9, <1>10, <1>11, <1>12, <1>13 DEF Next

-----------------------------------------------------------------------------
(* What is left when a run has ended. *)

\* squash_in_flight() leaves nothing queued or booked, and no stage starts again.
Emptied ==
  /\ fetchQ = <<>> /\ decodeQ = <<>> /\ renameQ = <<>> /\ iq = <<>>
  /\ executing = <<>> /\ wbFast = <<>> /\ wbSlow = <<>>
  /\ lq.count = 0 /\ sq.count = 0
  /\ \A s \in DOMAIN booked : booked[s] = 0
  /\ rat = archRat

Counted(q) == "count" \in DOMAIN q /\ "head" \in DOMAIN q

Rested == Counted(lq) /\ Counted(sq) /\ (mode = "done" => Emptied)

\* The operations of a memory queue change what it holds, not what it is.
LEMMA QueueKept ==
  ASSUME NEW q, Counted(q), NEW x, NEW y, NEW z
  PROVE  /\ Counted(Q!PopHead(q)) /\ Counted(Q!Alloc(q, x, y)) /\ Counted(Q!SquashAfter(q, x))
         /\ Counted(Q!ResolveAddr(q, x, y)) /\ Counted(Q!ResolveData(q, x, y))
         /\ Counted(Q!Clear(q)) /\ Q!Clear(q).count = 0
<1>1. Counted(Q!PopHead(q))
  BY DEF Counted, Q!PopHead
<1>2. Counted(Q!Alloc(q, x, y))
  BY DEF Counted, Q!Alloc
<1>3. Counted(Q!SquashAfter(q, x))
  BY DEF Counted, Q!SquashAfter
<1>4. Counted(Q!ResolveAddr(q, x, y)) /\ Counted(Q!ResolveData(q, x, y))
  BY DEF Counted, Q!ResolveAddr, Q!ResolveData
<1>5. Counted(Q!Clear(q)) /\ Q!Clear(q).count = 0
  BY DEF Counted, Q!Clear
<1> QED
  BY <1>1, <1>2, <1>3, <1>4, <1>5

\* And no step does anything else to them.
LEMMA QueuesKept ==
  ASSUME Counted(lq), Counted(sq), [Next]_vars
  PROVE  Counted(lq') /\ Counted(sq')
<1>1. CASE UNCHANGED <<lq, sq>>
  BY <1>1
<1>2. CASE CommitOne
  BY <1>2, QueueKept DEF CommitOne
<1>3. CASE Drain
  BY <1>3, QueueKept DEF Drain
<1>4. CASE ReplayLoad \/ IssueLoad \/ IssueOther
  <2>1. Counted(Addressed(lq)) /\ Counted(Addressed(sq))
    BY QueueKept DEF Addressed
  <2>2. \A i, x : Counted(Q!ResolveData(Addressed(sq), i, x))
    BY <2>1, QueueKept
  <2>3. lq' \in {lq, Addressed(lq)}
    BY <1>4 DEF ReplayLoad, IssueLoad, IssueOther
  <2>4. sq' = sq \/ \E i, x : sq' = Q!ResolveData(Addressed(sq), i, x)
    BY <1>4 DEF ReplayLoad, IssueLoad, IssueOther
  <2> QED
    BY <2>1, <2>2, <2>3, <2>4
<1>5. CASE Restore
  BY <1>5, QueueKept DEF Restore
<1>6. CASE DispatchOne
  BY <1>6, QueueKept DEF DispatchOne
<1>7. CASE Tick \/ Rest \/ CommitEnd \/ WritebackEnd \/ Execute \/ UNCHANGED vars
  BY <1>1, <1>7 DEF Tick, Rest, CommitEnd, WritebackEnd, Execute, vars
<1>8. CASE WritebackFast \/ WritebackSlow \/ TurnAway \/ IssueEnd \/ Recover \/ Reclaim
  BY <1>1, <1>8 DEF WritebackFast, WritebackSlow, Complete, TurnAway, IssueEnd, Recover, Reclaim
<1>9. CASE DispatchEnd \/ RenameOne \/ RenameEnd \/ DecodeOne \/ DecodeTrap \/ DecodeEnd
           \/ FetchOne \/ FetchEnd
  BY <1>1, <1>9 DEF DispatchEnd, RenameOne, RenameEnd, DecodeOne, DecodeTrap, DecodeEnd,
              FetchOne, FetchEnd
<1> QED
  BY <1>2, <1>3, <1>4, <1>5, <1>6, <1>7, <1>8, <1>9 DEF Next

\* Only the end of squash_in_flight() ends a run, and then only the clock may
\* still move.
LEMMA EndsInDrain ==
  ASSUME [Next]_vars, mode' = "done"
  PROVE  \/ Drain
         \/ mode = "done" /\ UNCHANGED <<fronts, renameQ, iq, lq, sq, timing, results, renaming>>
<1>1. CASE Tick \/ Rest \/ UNCHANGED vars
  BY <1>1 DEF Tick, Rest, vars, renaming
<1>2. CASE CommitOne
  BY <1>2 DEF CommitOne, Turn, In, Ren!Commit
<1>3. CASE CommitEnd \/ WritebackEnd \/ Execute \/ IssueEnd \/ DispatchEnd \/ RenameEnd
           \/ DecodeTrap \/ DecodeEnd \/ FetchEnd
  BY <1>3 DEF CommitEnd, WritebackEnd, Execute, IssueEnd, DispatchEnd, RenameEnd,
              DecodeTrap, DecodeEnd, FetchEnd, Over, In, renaming
<1>4. CASE WritebackFast \/ WritebackSlow
  BY <1>4 DEF WritebackFast, WritebackSlow, Complete, Ren!Complete, Ren!Running
<1>5. CASE TurnAway \/ ReplayLoad
  BY <1>5 DEF TurnAway, ReplayLoad, Considers, In, renaming
<1>6. CASE IssueLoad \/ IssueOther
  BY <1>6 DEF IssueLoad, IssueOther, Starts, Ren!Issue
<1>7. CASE Recover \/ Reclaim \/ Restore
  BY <1>7 DEF Recover, Reclaim, Restore, Ren!Recover, Ren!Reclaim, Ren!Restore
<1>8. CASE DispatchOne \/ DecodeOne
  BY <1>8 DEF DispatchOne, DecodeOne, Turn, In, renaming
<1>9. CASE RenameOne
  BY <1>9 DEF RenameOne, Ren!Rename, Ren!Running
<1>10. CASE FetchOne
  BY <1>10 DEF FetchOne, In, renaming
<1> QED
  BY <1>1, <1>2, <1>3, <1>4, <1>5, <1>6, <1>7, <1>8, <1>9, <1>10 DEF Next

LEMMA NextRested == Rested /\ [Next]_vars => Rested'
<1> SUFFICES ASSUME Rested, [Next]_vars
             PROVE  Rested'
  OBVIOUS
<1>1. Counted(lq') /\ Counted(sq')
  BY QueuesKept DEF Rested
<1>2. ASSUME mode' = "done" PROVE Emptied'
  <2>1. CASE Drain
    <3>1. lq'.count = 0 /\ sq'.count = 0
      BY <2>1, QueueKept DEF Drain, Rested
    <3>2. \A s \in DOMAIN booked' : booked'[s] = 0
      BY <2>1 DEF Drain
    <3>3. rat' = archRat'
      BY <2>1 DEF Drain, Ren!Drained
    <3> QED
      BY <2>1, <3>1, <3>2, <3>3 DEF Drain, Emptied
  <2>2. CASE mode = "done" /\ UNCHANGED <<fronts, renameQ, iq, lq, sq, timing, results, renaming>>
    BY <2>2 DEF Rested, Emptied, fronts, timing, results, renaming
  <2> QED
    BY <1>2, <2>1, <2>2, EndsInDrain
<1> QED
  BY <1>1, <1>2 DEF Rested, Counted

(***************************************************************************)
(* A run that ended left nothing behind: squash_in_flight() empties every  *)
(* queue, gives back every booked port, register and checkpoint, and what  *)
(* is neither architectural nor free does not exist.                       *)
(***************************************************************************)
THEOREM NothingLeftBehind ==
  ASSUME NumArch >= 32
  PROVE  Spec => []EndsClean
<1>1. Init => InStep /\ Rested
  <2> SUFFICES ASSUME Init PROVE InStep /\ Rested
    OBVIOUS
  <2>1. uops \in Seq(UopOver({})) /\ rob = <<>> /\ uops = <<>> /\ mode = "run"
    BY DEF Init, Ren!Init
  <2>2. Counted(lq) /\ Counted(sq)
    BY DEF Init, Q!EmptyQueue, Counted
  <2> QED
    BY <2>1, <2>2 DEF InStep, SameTraps, Rested
<1>2. RP!Spec => [](RP!TypeOK /\ RP!Shape)
  BY RP!TypeCorrect, RenamingApplies
<1>3. RP!Spec => [](RP!OneOwner /\ RP!OneHolder)
  BY RP!Conservation, RenamingApplies
<1>4. /\ RP!TypeOK /\ RP!Shape /\ RP!OneOwner /\ RP!OneHolder /\ InStep /\ Rested => EndsClean
  <2> SUFFICES ASSUME RP!TypeOK, RP!Shape, RP!OneOwner, RP!OneHolder, InStep, Rested,
                      mode = "done"
               PROVE  EndsClean
    BY DEF EndsClean
  <2>1. rob = <<>> /\ killed = <<>> /\ uops = <<>>
    BY DEF RP!Shape, InStep
  <2> QED
    BY <2>1, RP!PoolsAtRest, RenamingApplies DEF EndsClean, Rested, Emptied, RP!Phys, RP!Arch, Arch
<1> QED
  BY <1>1, <1>2, <1>3, <1>4, NextInStep, NextRested, SameSpec, ImplementsRenaming, PTL DEF Spec
=============================================================================
