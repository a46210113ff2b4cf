------------------------------ MODULE Renaming ------------------------------
(***************************************************************************)
(* Register renaming and precise commit: the structures of rename.h and    *)
(* rob.h under the four functions of cpu.cpp that own them, rename(),      *)
(* issue()'s choice of the branch to recover from, commit(), and the two   *)
(* squashes recover() and squash_in_flight().                              *)
(*                                                                         *)
(* Everything that decides WHEN an instruction moves (issue queue,         *)
(* function units, writeback ports, load/store queues, the predictor) is   *)
(* left open: the instruction offered to rename is any member of Insts,    *)
(* any instruction whose sources are ready may issue, any issued one may   *)
(* complete, and any branch may turn out mispredicted.  What is checked    *)
(* here therefore holds under every scheduling policy; module Scheduler    *)
(* has the policy the code implements.                                     *)
(*                                                                         *)
(* The reorder buffer is a sequence, oldest first: nothing here depends on *)
(* which slot of its ring an entry has.                                    *)
(***************************************************************************)
EXTENDS Integers, Sequences

CONSTANTS
  NumArch,   \* RegisterAliasTable::ARCH_REGS
  PrfSize,   \* Config::prf_size
  RobSize,   \* Config::rob_size
  NumCkpt,   \* Config::num_checkpoints
  Insts      \* the decoded instructions offered to rename

Arch == 0 .. NumArch - 1
Phys == 0 .. PrfSize - 1
Ckpt == 0 .. NumCkpt - 1

\* INVALID_PHYSREG, INVALID_ARCHREG and INVALID_CHECKPOINT: disjoint from
\* every legal index.
None == -1

(***************************************************************************)
(* A decoded instruction, as far as renaming can tell: rd is None unless   *)
(* writes_rd holds, which decode() never sets for x0; a trap (ECALL,       *)
(* EBREAK, INVALID) neither writes nor branches.                           *)
(***************************************************************************)
AllInsts ==
  {d \in [rd : (Arch \ {0}) \cup {None}, rs1 : Arch, rs2 : Arch,
          branch : BOOLEAN, trap : BOOLEAN] :
     d.trap => d.rd = None /\ ~d.branch}

ASSUME RenamingAssumption ==
  /\ NumArch \in Nat \ {0}
  /\ PrfSize \in Nat /\ PrfSize >= NumArch
  /\ RobSize \in Nat \ {0}
  /\ NumCkpt \in Nat
  /\ Insts \subseteq AllInsts

\* RobEntry together with the operands the issue queue keeps for it.
Entry ==
  [rd : (Arch \ {0}) \cup {None}, rs1 : Arch, rs2 : Arch,
   branch : BOOLEAN, trap : BOOLEAN,
   src1 : Phys, src2 : Phys,
   dest : Phys \cup {None}, stale : Phys \cup {None}, ckpt : Ckpt \cup {None},
   state : {"waiting", "issued", "complete"}]

VARIABLES
  free,      \* FreeList: registers in the order alloc() takes them
  ready,     \* PhysicalRegisterFile: the ready bits
  rat,       \* RegisterAliasTable: the speculative mapping
  archRat,   \* Cpu::arch_rat_: the mapping as of the last commit
  ckptFree,  \* CheckpointPool: free slots in alloc() order
  ckptRat,   \* CheckpointPool: the mapping held in each slot
  rob,       \* Rob: entries in flight, oldest first
  offender,  \* issue()'s local: position of the branch to recover, or 0
  killed,    \* entries truncate_to() or squash_all() returned, still to reclaim
  mode       \* "run", in a squash ("recover", "halt"), or "done"

vars == <<free, ready, rat, archRat, ckptFree, ckptRat, rob, offender, killed, mode>>

-----------------------------------------------------------------------------
(* The pools. *)

\* FreeList::free ignores p0, INVALID_PHYSREG and anything out of range.
FreeReg(list, r) == IF r \in Phys \ {0} THEN Append(list, r) ELSE list

\* CheckpointPool::free ignores INVALID_CHECKPOINT.
FreeCkpt(list, id) == IF id \in Ckpt THEN Append(list, id) ELSE list

\* Rob::drop_to: everything past the `keep` oldest, youngest first.
YoungestFirst(s, keep) ==
  [k \in 1 .. Len(s) - keep |-> s[Len(s) + 1 - k]]

Init ==
  /\ free = [k \in 1 .. PrfSize - NumArch |-> NumArch + k - 1]
  /\ ready = [p \in Phys |-> TRUE]
  /\ rat = [a \in Arch |-> a]
  /\ archRat = [a \in Arch |-> a]
  /\ ckptFree = [k \in 1 .. NumCkpt |-> k - 1]
  /\ ckptRat = [c \in Ckpt |-> [a \in Arch |-> 0]]
  /\ rob = <<>>
  /\ offender = 0
  /\ killed = <<>>
  /\ mode = "run"

\* No issue() loop with a pending redirect, no squash under way.
Running == mode = "run" /\ offender = 0

\* The operators whose names end in Slip are the mistakes the properties are
\* tested with: each replaces the operator that follows it, never both at once.

\* Room is checked for one entry too many.
RobFullSlip == Len(rob) > RobSize

\* Rob::full
RobFull == Len(rob) = RobSize

\* Sources and displaced mapping are read after step 4.
RenamedSlip(d, dest, id) ==
  LET after == IF dest # None THEN [rat EXCEPT ![d.rd] = dest] ELSE rat
  IN [rd |-> d.rd, rs1 |-> d.rs1, rs2 |-> d.rs2, branch |-> d.branch, trap |-> d.trap,
      src1 |-> after[d.rs1], src2 |-> after[d.rs2],
      dest |-> dest, stale |-> IF dest # None THEN after[d.rd] ELSE None,
      ckpt |-> id, state |-> "waiting"]

\* Steps 1 to 3 of the renaming transaction: source tags and the displaced
\* mapping are read before the destination is mapped.
Renamed(d, dest, id) ==
  [rd |-> d.rd, rs1 |-> d.rs1, rs2 |-> d.rs2, branch |-> d.branch, trap |-> d.trap,
   src1 |-> rat[d.rs1], src2 |-> rat[d.rs2],
   dest |-> dest, stale |-> IF dest # None THEN rat[d.rd] ELSE None,
   ckpt |-> id, state |-> "waiting"]

\* Step 4
Mapped(d, dest) == IF dest # None THEN [rat EXCEPT ![d.rd] = dest] ELSE rat

\* The checkpoint is taken before step 4.
SnapshotSlip(d, dest) == rat

\* What a branch's checkpoint holds: its own destination is mapped already.
Snapshot(d, dest) == Mapped(d, dest)

(***************************************************************************)
(* Cpu::rename, one instruction.  The guards are its stalls: reorder       *)
(* buffer full, no checkpoint for a branch, free list empty.               *)
(***************************************************************************)
Rename(d) ==
  LET dest == IF d.rd # None THEN Head(free) ELSE None
      id   == IF d.branch THEN Head(ckptFree) ELSE None
  IN /\ Running
     /\ ~RobFull
     /\ d.branch => ckptFree # <<>>
     /\ d.rd # None => free # <<>>
     /\ rob' = Append(rob, Renamed(d, dest, id))
     /\ rat' = Mapped(d, dest)
     /\ free' = IF d.rd # None THEN Tail(free) ELSE free
     /\ ready' = IF d.rd # None THEN [ready EXCEPT ![dest] = FALSE] ELSE ready
     /\ ckptFree' = IF d.branch THEN Tail(ckptFree) ELSE ckptFree
     /\ ckptRat' = IF d.branch THEN [ckptRat EXCEPT ![id] = Snapshot(d, dest)] ELSE ckptRat
     /\ UNCHANGED <<archRat, offender, killed, mode>>

(***************************************************************************)
(* Cpu::issue, one selected instruction: both sources are ready.  If it is *)
(* a branch that resolves against its prediction it becomes the offender,  *)
(* unless an older one already is.                                         *)
(***************************************************************************)
Issue(i, mispredicts) ==
  /\ mode = "run"
  /\ rob[i].state = "waiting"
  /\ ready[rob[i].src1] /\ ready[rob[i].src2]
  /\ mispredicts => rob[i].branch
  /\ rob' = [rob EXCEPT ![i].state = "issued"]
  /\ offender' = IF mispredicts /\ (offender = 0 \/ i < offender) THEN i ELSE offender
  /\ UNCHANGED <<free, ready, rat, archRat, ckptFree, ckptRat, killed, mode>>

(***************************************************************************)
(* Cpu::recover as issue() calls it at its end: the reorder buffer is cut  *)
(* after the offender, and the entries cut off are reclaimed one by one,   *)
(* youngest first, before the checkpoint is restored.                      *)
(***************************************************************************)
Recover ==
  /\ mode = "run"
  /\ offender # 0
  /\ rob' = SubSeq(rob, 1, offender)
  /\ killed' = YoungestFirst(rob, offender)
  /\ mode' = "recover"
  /\ offender' = 0
  /\ UNCHANGED <<free, ready, rat, archRat, ckptFree, ckptRat>>

\* A squash returns the displaced register, or none.
ReclaimedSlip(e) == e.stale
ReclaimedLeakSlip(e) == None

\* A squashed entry returns the register it allocated, not the one it displaced.
Reclaimed(e) == e.dest

\* One turn of the loop over the squashed entries, in recover() and in
\* squash_in_flight().
Reclaim ==
  /\ mode \in {"recover", "halt"}
  /\ killed # <<>>
  /\ free' = FreeReg(free, Reclaimed(Head(killed)))
  /\ ckptFree' = FreeCkpt(ckptFree, Head(killed).ckpt)
  /\ killed' = Tail(killed)
  /\ UNCHANGED <<ready, rat, archRat, ckptRat, rob, offender, mode>>

\* The end of recover(): the branch survives, and keeps its checkpoint.
Restore ==
  /\ mode = "recover"
  /\ killed = <<>>
  /\ rat' = ckptRat[rob[Len(rob)].ckpt]
  /\ mode' = "run"
  /\ UNCHANGED <<free, ready, archRat, ckptFree, ckptRat, rob, offender, killed>>

\* The ready bit is forgotten.
WrittenSlip(e) == ready

\* PhysicalRegisterFile::write: the value lands and the register is ready.
Written(e) == IF e.dest # None THEN [ready EXCEPT ![e.dest] = TRUE] ELSE ready

\* Cpu::complete, as writeback() calls it.
Complete(i) ==
  /\ Running
  /\ rob[i].state = "issued"
  /\ rob' = [rob EXCEPT ![i].state = "complete"]
  /\ ready' = Written(rob[i])
  /\ UNCHANGED <<free, rat, archRat, ckptFree, ckptRat, offender, killed, mode>>

\* Commit frees the register that becomes architectural; it keeps the
\* checkpoint.
CommitFreeSlip(e) == IF e.dest # None THEN FreeReg(free, e.dest) ELSE free
CommitCkptSlip(e) == ckptFree

\* The only correct-path free, and a branch's checkpoint.
CommitFree(e) == IF e.dest # None THEN FreeReg(free, e.stale) ELSE free
CommitCkpt(e) == IF e.branch THEN FreeCkpt(ckptFree, e.ckpt) ELSE ckptFree

(***************************************************************************)
(* Cpu::commit, one instruction: the head leaves once complete, a branch   *)
(* returns its checkpoint, the new mapping becomes architectural and the   *)
(* displaced register is freed.  A trap ends the run and squashes the rest *)
(* (squash_in_flight).                                                     *)
(***************************************************************************)
Commit ==
  LET e == Head(rob)
  IN /\ Running
     /\ rob # <<>>
     /\ e.state = "complete"
     /\ ckptFree' = CommitCkpt(e)
     /\ archRat' = IF e.dest # None THEN [archRat EXCEPT ![e.rd] = e.dest] ELSE archRat
     /\ free' = CommitFree(e)
     /\ IF e.trap
          THEN /\ rob' = <<>>
               /\ killed' = YoungestFirst(rob, 1)
               /\ mode' = "halt"
          ELSE /\ rob' = Tail(rob)
               /\ UNCHANGED <<killed, mode>>
     /\ UNCHANGED <<ready, rat, ckptRat, offender>>

\* The end of squash_in_flight(): the committed mapping is adopted.
Drained ==
  /\ mode = "halt"
  /\ killed = <<>>
  /\ rat' = archRat
  /\ mode' = "done"
  /\ UNCHANGED <<free, ready, archRat, ckptFree, ckptRat, rob, offender, killed>>

Advance ==
  \/ \E i \in 1 .. Len(rob) : \E m \in BOOLEAN : Issue(i, m)
  \/ \E i \in 1 .. Len(rob) : Complete(i)
  \/ Commit
  \/ Recover
  \/ Reclaim
  \/ Restore
  \/ Drained

Next == (\E d \in Insts : Rename(d)) \/ Advance

Spec == Init /\ [][Next]_vars

\* Cpu::tick calls every stage every cycle, so whatever is in flight moves on.
FairSpec == Spec /\ WF_vars(Advance)

-----------------------------------------------------------------------------
(* Properties. *)

\* Every structure holds what its C++ type and its capacity allow.
TypeOK ==
  /\ free \in Seq(Phys \ {0})
  /\ ready \in [Phys -> BOOLEAN]
  /\ rat \in [Arch -> Phys]
  /\ archRat \in [Arch -> Phys]
  /\ ckptFree \in Seq(Ckpt)
  /\ ckptRat \in [Ckpt -> [Arch -> Phys]]
  /\ rob \in Seq(Entry) /\ Len(rob) <= RobSize
  /\ offender \in 0 .. Len(rob)
  /\ killed \in Seq(Entry)
  /\ mode \in {"run", "recover", "halt", "done"}

Injective(s) == \A i, j \in DOMAIN s : s[i] = s[j] => i = j

\* Two entries of s never own the same register.
DestsDistinct(s) ==
  \A i, j \in 1 .. Len(s) : s[i].dest # None /\ s[i].dest = s[j].dest => i = j

Listed(s, x) == \E i \in 1 .. Len(s) : s[i] = x
InFree(p) == Listed(free, p)
InArch(p) == \E a \in Arch : archRat[a] = p
DestIn(s, p) == \E i \in 1 .. Len(s) : s[i].dest = p

(***************************************************************************)
(* Every physical register has exactly one owner: the free list, the       *)
(* committed mapping, an instruction in flight that allocated it, or a     *)
(* squashed one not yet reclaimed.  Nothing leaks and nothing is freed     *)
(* twice, on any path through commit(), recover() and squash_in_flight().  *)
(* The tests' conserved() looks between cycles, and cannot see a register  *)
(* twice on the free list.                                                 *)
(***************************************************************************)
OneOwner ==
  /\ Injective(free) /\ Injective(archRat)
  /\ DestsDistinct(rob) /\ DestsDistinct(killed)
  /\ \A p \in Phys :
       /\ InFree(p) => ~InArch(p) /\ ~DestIn(rob, p) /\ ~DestIn(killed, p)
       /\ InArch(p) => ~DestIn(rob, p) /\ ~DestIn(killed, p)
       /\ DestIn(rob, p) => ~DestIn(killed, p)
       /\ InFree(p) \/ InArch(p) \/ DestIn(rob, p) \/ DestIn(killed, p)

(***************************************************************************)
(* The tests' own ledger, conserved() in test_support.h: between steps of  *)
(* a squash, each register is on the free list, in the speculative mapping,*)
(* or held in flight as the mapping someone displaced, and in one of these *)
(* once.  A recovery that restores the wrong mapping breaks this and not   *)
(* OneOwner.                                                               *)
(***************************************************************************)
Conserved ==
  mode = "run" =>
    LET inRat(p)   == \E a \in Arch : rat[a] = p
        inStale(p) == \E i \in 1 .. Len(rob) : rob[i].stale = p
    IN /\ Injective(rat)
       /\ \A i, j \in 1 .. Len(rob) :
            rob[i].stale # None /\ rob[i].stale = rob[j].stale => i = j
       /\ \A p \in Phys :
            /\ InFree(p) => ~inRat(p) /\ ~inStale(p)
            /\ inRat(p) => ~inStale(p)
            /\ InFree(p) \/ inRat(p) \/ inStale(p)

\* Architectural register a stands for p after the k oldest instructions in
\* flight: the youngest of them that writes a allocated p, or none writes a
\* and p is the committed mapping.
MapsTo(k, a, p) ==
  \/ /\ archRat[a] = p
     /\ \A j \in 1 .. k : rob[j].rd # a
  \/ \E i \in 1 .. k :
       /\ rob[i].rd = a
       /\ rob[i].dest = p
       /\ \A j \in i + 1 .. k : rob[j].rd # a

\* The speculative mapping is the committed one overlaid with the
\* destinations in flight, in program order; right after a recovery too, which
\* is what "the exact speculative mapping at the branch" asks of recover().
RatIsProgramOrder ==
  /\ mode = "run"  => \A a \in Arch : MapsTo(Len(rob), a, rat[a])
  /\ mode = "done" => rat = archRat

\* What a writer will free at commit is the mapping that becomes unreachable
\* with that commit: the one its predecessor in program order installed.
StaleIsPredecessor ==
  \A i \in 1 .. Len(rob) :
    rob[i].rd # None => MapsTo(i - 1, rob[i].rd, rob[i].stale)

\* An instruction's source tags name the youngest older writer, however many
\* commits and recoveries happened since it was renamed.
SourcesAreProgramOrder ==
  \A i \in 1 .. Len(rob) :
    /\ MapsTo(i - 1, rob[i].rs1, rob[i].src1)
    /\ MapsTo(i - 1, rob[i].rs2, rob[i].src2)

\* An unresolved branch's checkpoint is the mapping right after the branch,
\* still exact when older instructions have committed since.
CheckpointsAreExact ==
  \A i \in 1 .. Len(rob) :
    rob[i].branch => \A a \in Arch : MapsTo(i, a, ckptRat[rob[i].ckpt][a])

CkptIn(s, c) == \E i \in 1 .. Len(s) : s[i].ckpt = c
CkptsDistinct(s) ==
  \A i, j \in 1 .. Len(s) : s[i].ckpt # None /\ s[i].ckpt = s[j].ckpt => i = j

\* Every checkpoint slot is free, or held by exactly one branch in flight or
\* squashed: a slot released at commit and again by a squash would hand one
\* snapshot to two branches.
OneHolder ==
  /\ Injective(ckptFree)
  /\ CkptsDistinct(rob) /\ CkptsDistinct(killed)
  /\ \A c \in Ckpt :
       /\ Listed(ckptFree, c) => ~CkptIn(rob, c) /\ ~CkptIn(killed, c)
       /\ CkptIn(rob, c) => ~CkptIn(killed, c)
       /\ Listed(ckptFree, c) \/ CkptIn(rob, c) \/ CkptIn(killed, c)

\* Step 6 of the renaming transaction: a register is never handed to a new
\* writer while an older instruction that has not read it yet holds its tag.
NoEarlyReuse ==
  \A i \in 1 .. Len(rob) :
    rob[i].state = "waiting" =>
      \A p \in {rob[i].src1, rob[i].src2} :
        /\ ~InFree(p) /\ ~DestIn(killed, p)
        /\ \A j \in i .. Len(rob) : rob[j].dest # p

\* A waiting instruction waits for something that will come: a register that
\* is not ready is owed by an older instruction in flight; committed
\* registers are always ready.
PendingIsOwed ==
  /\ \A a \in Arch : ready[archRat[a]]
  /\ \A i \in 1 .. Len(rob) :
       \A p \in {rob[i].src1, rob[i].src2} :
         ~ready[p] => \E j \in 1 .. i - 1 : rob[j].dest = p /\ rob[j].state # "complete"

\* Config::prf_can_starve: each instruction in flight holds at most one register
\* on top of the committed ones, so rename finds the free list empty only when
\* there are registers for no more than those; with RobSize + NumArch, never.
NeverStarved ==
  Running /\ NumArch + Len(rob) < PrfSize => free # <<>>

\* config.h calls a smaller register file legal, rename "just stalls": every
\* stall ends, whether for want of a reorder buffer entry, a register or a
\* checkpoint, if only because the run does.
StallsEnd ==
  /\ RobFull ~> ~RobFull
  /\ free = <<>> ~> free # <<>> \/ mode = "done"
  /\ ckptFree = <<>> ~> ckptFree # <<>>
=============================================================================
