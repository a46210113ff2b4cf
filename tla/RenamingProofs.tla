--------------------------- MODULE RenamingProofs ---------------------------
(***************************************************************************)
(* Renaming, proved for every number of registers, reorder buffer entries  *)
(* and checkpoints, and every set of instructions.                         *)
(***************************************************************************)
EXTENDS Renaming, NumberFacts

-----------------------------------------------------------------------------
(* Sequences, as the actions use them. *)

\* What Append does, index by index (rename(), the pools' free()).
LEMMA AppendFacts ==
  ASSUME NEW S, NEW s \in Seq(S), NEW e \in S
  PROVE  /\ Append(s, e) \in Seq(S)
         /\ Len(Append(s, e)) = Len(s) + 1
         /\ \A i \in 1 .. Len(s) : Append(s, e)[i] = s[i]
         /\ Append(s, e)[Len(s) + 1] = e
  OBVIOUS

\* What Head and Tail do, index by index (alloc(), commit()).
LEMMA TailFacts ==
  ASSUME NEW S, NEW s \in Seq(S), s # <<>>
  PROVE  /\ Len(s) \in Nat /\ Len(s) >= 1
         /\ Head(s) = s[1] /\ Head(s) \in S
         /\ Tail(s) \in Seq(S)
         /\ Len(Tail(s)) = Len(s) - 1
         /\ \A i \in 1 .. Len(s) - 1 : Tail(s)[i] = s[i + 1]
  OBVIOUS

\* The part of the reorder buffer a recovery keeps.
LEMMA PrefixFacts ==
  ASSUME NEW S, NEW s \in Seq(S), NEW n \in 0 .. Len(s)
  PROVE  /\ SubSeq(s, 1, n) \in Seq(S)
         /\ Len(SubSeq(s, 1, n)) = n
         /\ \A i \in 1 .. n : SubSeq(s, 1, n)[i] = s[i]
  OBVIOUS

\* The part a squash returns, youngest first.
LEMMA YoungestFirstFacts ==
  ASSUME NEW S, NEW s \in Seq(S), NEW n \in 0 .. Len(s)
  PROVE  /\ YoungestFirst(s, n) \in Seq(S)
         /\ Len(YoungestFirst(s, n)) = Len(s) - n
         /\ \A k \in 1 .. Len(s) - n : YoungestFirst(s, n)[k] = s[Len(s) + 1 - k]
  BY DEF YoungestFirst

-----------------------------------------------------------------------------
(* Type correctness. *)

\* A squash reads the register and the checkpoint of an entry only; each is
\* dropped by the pool unless it is one of the pool's own.
LEMMA PoolTypes ==
  /\ \A l \in Seq(Phys \ {0}), r \in Phys \cup {None} : FreeReg(l, r) \in Seq(Phys \ {0})
  /\ \A l \in Seq(Ckpt), c \in Ckpt \cup {None} : FreeCkpt(l, c) \in Seq(Ckpt)
  BY DEF FreeReg, FreeCkpt

\* The entry rename() builds.
LEMMA RenamedType ==
  ASSUME TypeOK, NEW d \in Insts,
         NEW dest \in Phys \cup {None}, dest # None => d.rd # None,
         NEW id \in Ckpt \cup {None}
  PROVE  Renamed(d, dest, id) \in Entry
  BY RenamingAssumption DEF TypeOK, Renamed, Entry, AllInsts, Arch

(***************************************************************************)
(* What each field of an entry says of the others, and each mode of the    *)
(* queues.  TypeOK is not inductive without it: recover() reads the        *)
(* checkpoint of the branch it ends on, and only a branch holds one.       *)
(***************************************************************************)
EntryShape(e) ==
  /\ e.dest = None <=> e.rd = None
  /\ e.stale = None <=> e.rd = None
  /\ e.ckpt = None <=> ~e.branch

Shape ==
  /\ archRat[0] = 0
  /\ \A i \in 1 .. Len(rob) : EntryShape(rob[i])
  /\ offender # 0 => mode = "run" /\ rob[offender].branch
  /\ mode = "recover" => rob # <<>> /\ rob[Len(rob)].branch
  /\ mode \in {"run", "done"} => killed = <<>>
  /\ mode \in {"halt", "done"} => rob = <<>>

\* The initial state has its types: PrfSize - NumArch free registers, none of
\* them architectural, and every checkpoint free.
LEMMA InitType == Init => TypeOK /\ Shape
<1> SUFFICES ASSUME Init PROVE TypeOK /\ Shape
  OBVIOUS
<1>1. TypeOK
  BY RenamingAssumption DEF Init, TypeOK, Arch, Phys, Ckpt
<1>2. Shape
  BY RenamingAssumption DEF Init, Shape, Arch
<1> QED
  BY <1>1, <1>2

\* The register and the checkpoint rename() takes.
NewDest(d) == IF d.rd # None THEN Head(free) ELSE None
NewCkpt(d) == IF d.branch THEN Head(ckptFree) ELSE None

\* rename() takes a destination exactly when the instruction writes, from a
\* list that is not empty, and a checkpoint exactly when it branches.
LEMMA RenameTakes ==
  ASSUME TypeOK, NEW d \in Insts, Rename(d)
  PROVE  /\ d \in AllInsts
         /\ NewDest(d) \in (Phys \ {0}) \cup {None}
         /\ NewDest(d) = None <=> d.rd = None
         /\ NewCkpt(d) \in Ckpt \cup {None}
         /\ NewCkpt(d) = None <=> ~d.branch
<1>1. /\ NewCkpt(d) \in Ckpt \cup {None}
      /\ d.branch => NewCkpt(d) \in Ckpt
  BY TailFacts DEF TypeOK, Rename, NewCkpt
<1>2. NewCkpt(d) = None <=> ~d.branch
  BY <1>1 DEF NewCkpt, Ckpt, None
<1>3. /\ NewDest(d) \in (Phys \ {0}) \cup {None}
      /\ d.rd # None => NewDest(d) \in Phys
  BY TailFacts DEF TypeOK, Rename, NewDest
<1>4. NewDest(d) = None <=> d.rd = None
  BY <1>3 DEF NewDest, Phys, None
<1> QED
  BY <1>1, <1>2, <1>3, <1>4, RenamingAssumption

\* rename() leaves every entry alone and adds a well-formed one at the end.
LEMMA RenameAppends ==
  ASSUME TypeOK, NEW d \in Insts, Rename(d)
  PROVE  LET e == rob'[Len(rob) + 1]
         IN  /\ e \in Entry /\ EntryShape(e)
             /\ e.rd = d.rd /\ e.rs1 = d.rs1 /\ e.rs2 = d.rs2 /\ e.branch = d.branch
             /\ e.src1 = rat[d.rs1] /\ e.src2 = rat[d.rs2]
             /\ e.dest = NewDest(d) /\ e.ckpt = NewCkpt(d) /\ e.state = "waiting"
             /\ d.rd # None => e.stale = rat[d.rd]
             /\ rob' \in Seq(Entry)
             /\ Len(rob') = Len(rob) + 1
             /\ \A i \in 1 .. Len(rob) : rob'[i] = rob[i]
<1> DEFINE e == Renamed(d, NewDest(d), NewCkpt(d))
<1>1. rob' = Append(rob, e) /\ rob \in Seq(Entry)
  BY DEF Rename, NewDest, NewCkpt, TypeOK
<1>2. e \in Entry
  BY RenameTakes, RenamedType
<1>3. d.rd # None => rat[d.rd] \in Phys
  BY RenameTakes DEF AllInsts, TypeOK
<1>4. EntryShape(e)
  BY <1>3, RenameTakes DEF EntryShape, Renamed, Phys, None
<1>5. /\ e.rd = d.rd /\ e.rs1 = d.rs1 /\ e.rs2 = d.rs2 /\ e.branch = d.branch
      /\ e.src1 = rat[d.rs1] /\ e.src2 = rat[d.rs2]
      /\ e.dest = NewDest(d) /\ e.ckpt = NewCkpt(d) /\ e.state = "waiting"
      /\ d.rd # None => e.stale = rat[d.rd]
  BY RenameTakes DEF Renamed
<1> HIDE DEF e
<1>6. /\ rob' \in Seq(Entry)
      /\ Len(rob') = Len(rob) + 1
      /\ \A i \in 1 .. Len(rob) : rob'[i] = rob[i]
      /\ rob'[Len(rob) + 1] = e
  BY <1>1, <1>2, AppendFacts
<1> QED
  BY <1>2, <1>4, <1>5, <1>6

\* rename() keeps the types.
LEMMA RenameType ==
  ASSUME TypeOK, Shape, NEW d \in Insts, Rename(d)
  PROVE  TypeOK' /\ Shape'
<1> DEFINE dest == NewDest(d)
           id   == NewCkpt(d)
<1>1. /\ rat' = Mapped(d, dest)
      /\ ready' = IF d.rd # None THEN [ready EXCEPT ![dest] = FALSE] ELSE ready
      /\ ckptRat' = IF d.branch THEN [ckptRat EXCEPT ![id] = Mapped(d, dest)] ELSE ckptRat
  BY DEF Rename, NewDest, NewCkpt, Snapshot
<1>2. dest \in (Phys \ {0}) \cup {None} /\ id \in Ckpt \cup {None}
  BY RenameTakes
<1> HIDE DEF dest, id
<1>3. Mapped(d, dest) \in [Arch -> Phys]
  BY <1>2, RenameTakes DEF TypeOK, Mapped, AllInsts
<1>4. /\ rat' \in [Arch -> Phys]
      /\ ready' \in [Phys -> BOOLEAN]
      /\ ckptRat' \in [Ckpt -> [Arch -> Phys]]
  BY <1>1, <1>3 DEF TypeOK
<1>5. free' \in Seq(Phys \ {0}) /\ ckptFree' \in Seq(Ckpt)
  BY TailFacts DEF TypeOK, Rename
<1>6. /\ rob' \in Seq(Entry)
      /\ Len(rob') = Len(rob) + 1
      /\ \A i \in 1 .. Len(rob') : EntryShape(rob'[i])
  <2>1. /\ rob' \in Seq(Entry)
        /\ Len(rob') = Len(rob) + 1
        /\ \A i \in 1 .. Len(rob) : rob'[i] = rob[i]
        /\ EntryShape(rob'[Len(rob) + 1])
    BY RenameAppends
  <2>2. Len(rob) \in Nat
    BY DEF TypeOK
  <2> QED
    BY <2>1, <2>2 DEF Shape
<1>7. /\ mode = "run" /\ mode' = "run"
      /\ offender = 0 /\ offender' = 0
      /\ killed' = killed /\ archRat' = archRat
      /\ Len(rob) # RobSize
  BY DEF Rename, Running, RobFull
<1>8. TypeOK'
  BY <1>4, <1>5, <1>6, <1>7, RenamingAssumption DEF TypeOK
<1>9. Shape'
  BY <1>6, <1>7 DEF Shape
<1> QED
  BY <1>8, <1>9

\* Two entries for the same instruction, renamed the same way.
Same(e, f) ==
  /\ f.rd = e.rd /\ f.rs1 = e.rs1 /\ f.rs2 = e.rs2
  /\ f.branch = e.branch /\ f.trap = e.trap
  /\ f.src1 = e.src1 /\ f.src2 = e.src2
  /\ f.dest = e.dest /\ f.stale = e.stale /\ f.ckpt = e.ckpt

\* issue() and complete() move instruction i on.
Moved(i, st) == rob' = [rob EXCEPT ![i].state = st]

\* Every entry keeps what renaming gave it.
LEMMA MovedFacts ==
  ASSUME TypeOK, NEW i \in 1 .. Len(rob), NEW st \in {"issued", "complete"},
         Moved(i, st)
  PROVE  /\ rob' \in Seq(Entry)
         /\ Len(rob') = Len(rob)
         /\ \A j \in 1 .. Len(rob) : Same(rob[j], rob'[j])
         /\ rob'[i].state = st
         /\ \A j \in 1 .. Len(rob) : j # i => rob'[j] = rob[j]
<1> DEFINE new == [rob[i] EXCEPT !.state = st]
<1>1. rob \in Seq(Entry) /\ rob[i] \in Entry
  BY DEF TypeOK
<1>2. new \in Entry /\ Same(rob[i], new) /\ new.state = st
  BY <1>1 DEF Entry, Same
<1>3. rob' = [rob EXCEPT ![i] = new]
  BY DEF Moved
<1> HIDE DEF new
<1>4. /\ rob' \in Seq(Entry)
      /\ Len(rob') = Len(rob)
      /\ rob'[i] = new
      /\ \A j \in 1 .. Len(rob) : j # i => rob'[j] = rob[j]
  BY <1>1, <1>2, <1>3
<1>5. \A j \in 1 .. Len(rob) : Same(rob[j], rob'[j])
  BY <1>2, <1>4 DEF Same
<1> QED
  BY <1>2, <1>4, <1>5

\* issue() keeps the types: the branch to recover is one it issued.
LEMMA IssueType ==
  ASSUME TypeOK, Shape, NEW i \in 1 .. Len(rob), NEW m \in BOOLEAN, Issue(i, m)
  PROVE  TypeOK' /\ Shape'
<1>1. /\ rob' \in Seq(Entry)
      /\ Len(rob') = Len(rob)
      /\ \A j \in 1 .. Len(rob) : Same(rob[j], rob'[j])
  <2>1. Moved(i, "issued")
    BY DEF Issue, Moved
  <2> QED
    BY <2>1, MovedFacts
<1>2. offender' \in 0 .. Len(rob) /\ (offender' # 0 => rob[offender'].branch)
  BY DEF Issue, TypeOK, Shape
<1>3. TypeOK'
  BY <1>1, <1>2 DEF TypeOK, Issue
<1>4. Shape'
  BY <1>1, <1>2 DEF Shape, Issue, Same, EntryShape, TypeOK
<1> QED
  BY <1>3, <1>4

\* complete() keeps the types.
LEMMA CompleteType ==
  ASSUME TypeOK, Shape, NEW i \in 1 .. Len(rob), Complete(i)
  PROVE  TypeOK' /\ Shape'
<1>1. /\ rob' \in Seq(Entry)
      /\ Len(rob') = Len(rob)
      /\ \A j \in 1 .. Len(rob) : Same(rob[j], rob'[j])
  <2>1. Moved(i, "complete")
    BY DEF Complete, Moved
  <2> QED
    BY <2>1, MovedFacts
<1>2. ready' \in [Phys -> BOOLEAN]
  BY DEF Complete, Written, TypeOK
<1>3. TypeOK'
  BY <1>1, <1>2 DEF TypeOK, Complete
<1>4. Shape'
  BY <1>1 DEF Shape, Complete, Running, Same, EntryShape, TypeOK
<1> QED
  BY <1>3, <1>4

\* recover() cuts the reorder buffer after the offender.
LEMMA RecoverType ==
  ASSUME TypeOK, Shape, Recover
  PROVE  TypeOK' /\ Shape'
<1>1. offender \in 1 .. Len(rob) /\ rob \in Seq(Entry)
  BY DEF Recover, TypeOK
<1>2. /\ rob' \in Seq(Entry)
      /\ Len(rob') = offender
      /\ \A i \in 1 .. offender : rob'[i] = rob[i]
  BY <1>1, PrefixFacts DEF Recover
<1>3. killed' \in Seq(Entry)
  BY <1>1, YoungestFirstFacts DEF Recover
<1>4. TypeOK'
  <2>1. Len(rob') <= RobSize /\ offender' \in 0 .. Len(rob')
    BY <1>1, <1>2, RenamingAssumption DEF TypeOK, Recover
  <2> QED
    BY <1>2, <1>3, <2>1 DEF TypeOK, Recover
<1>5. Shape'
  BY <1>1, <1>2 DEF Shape, Recover
<1> QED
  BY <1>4, <1>5

\* Reclaiming a squashed entry touches the two pools only.
LEMMA ReclaimType ==
  ASSUME TypeOK, Shape, Reclaim
  PROVE  TypeOK' /\ Shape'
<1>1. Head(killed) \in Entry /\ killed' \in Seq(Entry)
  BY TailFacts DEF TypeOK, Reclaim
<1>2. free' \in Seq(Phys \ {0}) /\ ckptFree' \in Seq(Ckpt)
  BY <1>1, PoolTypes DEF TypeOK, Reclaim, Reclaimed, Entry
<1>3. TypeOK'
  BY <1>1, <1>2 DEF TypeOK, Reclaim
<1>4. Shape'
  BY DEF Shape, Reclaim
<1> QED
  BY <1>3, <1>4

\* recover() ends on a branch, so the checkpoint it adopts exists.
LEMMA RestoreType ==
  ASSUME TypeOK, Shape, Restore
  PROVE  TypeOK' /\ Shape'
<1>1. rob # <<>> /\ rob \in Seq(Entry) /\ Len(rob) \in 1 .. Len(rob)
  BY DEF TypeOK, Restore, Shape
<1>2. rob[Len(rob)].ckpt \in Ckpt
  <2>1. rob[Len(rob)] \in Entry /\ EntryShape(rob[Len(rob)]) /\ rob[Len(rob)].branch
    BY <1>1 DEF Shape, Restore
  <2> QED
    BY <2>1 DEF EntryShape, Entry
<1>3. TypeOK'
  BY <1>2 DEF TypeOK, Restore
<1>4. Shape'
  BY DEF Shape, Restore, TypeOK
<1> QED
  BY <1>3, <1>4

\* What commit() takes off the reorder buffer, and what a trap squashes.
LEMMA CommitFacts ==
  ASSUME TypeOK, Shape, Commit
  PROVE  /\ Len(rob) \in Nat /\ Len(rob) >= 1
         /\ Head(rob) = rob[1] /\ rob[1] \in Entry /\ EntryShape(rob[1])
         /\ rob' \in Seq(Entry) /\ killed' \in Seq(Entry)
         /\ killed = <<>> /\ mode = "run" /\ offender = 0 /\ offender' = 0
         /\ \/ /\ mode' = "run" /\ killed' = <<>>
               /\ Len(rob') = Len(rob) - 1
               /\ \A i \in 1 .. Len(rob) - 1 : rob'[i] = rob[i + 1]
            \/ /\ mode' = "halt" /\ rob' = <<>>
               /\ Len(killed') = Len(rob) - 1
               /\ \A k \in 1 .. Len(rob) - 1 : killed'[k] = rob[Len(rob) + 1 - k]
<1>1. /\ rob \in Seq(Entry) /\ rob # <<>>
      /\ mode = "run" /\ offender = 0 /\ offender' = 0 /\ killed = <<>>
  BY DEF Commit, Running, TypeOK, Shape
<1>2. /\ Len(rob) \in Nat /\ Len(rob) >= 1 /\ 1 \in 0 .. Len(rob)
      /\ Head(rob) = rob[1] /\ rob[1] \in Entry
      /\ Tail(rob) \in Seq(Entry)
      /\ Len(Tail(rob)) = Len(rob) - 1
      /\ \A i \in 1 .. Len(rob) - 1 : Tail(rob)[i] = rob[i + 1]
  BY <1>1, TailFacts
<1>3. /\ YoungestFirst(rob, 1) \in Seq(Entry)
      /\ Len(YoungestFirst(rob, 1)) = Len(rob) - 1
      /\ \A k \in 1 .. Len(rob) - 1 : YoungestFirst(rob, 1)[k] = rob[Len(rob) + 1 - k]
  BY <1>1, <1>2, YoungestFirstFacts
<1>4. EntryShape(rob[1])
  BY <1>2 DEF Shape
<1>5. CASE Head(rob).trap
  <2>1. rob' = <<>> /\ killed' = YoungestFirst(rob, 1) /\ mode' = "halt"
    BY <1>5 DEF Commit
  <2>2. rob' \in Seq(Entry) /\ killed' \in Seq(Entry)
    BY <1>3, <2>1
  <2>3. /\ Len(killed') = Len(rob) - 1
        /\ \A k \in 1 .. Len(rob) - 1 : killed'[k] = rob[Len(rob) + 1 - k]
    BY <1>3, <2>1
  <2> QED
    BY <1>1, <1>2, <1>4, <2>1, <2>2, <2>3
<1>6. CASE ~Head(rob).trap
  <2>1. rob' = Tail(rob) /\ killed' = killed /\ mode' = mode
    BY <1>6 DEF Commit
  <2> QED
    BY <1>1, <1>2, <1>4, <2>1
<1> QED
  BY <1>5, <1>6

\* commit() keeps the types, whether or not the instruction traps.
LEMMA CommitType ==
  ASSUME TypeOK, Shape, Commit
  PROVE  TypeOK' /\ Shape'
<1>1. rob[1].dest # None => rob[1].rd \in Arch \ {0} /\ rob[1].dest \in Phys
  BY CommitFacts DEF Entry, EntryShape
<1>2. archRat' \in [Arch -> Phys] /\ archRat'[0] = 0
  <2>1. archRat' = IF rob[1].dest # None
                     THEN [archRat EXCEPT ![rob[1].rd] = rob[1].dest] ELSE archRat
    BY CommitFacts DEF Commit
  <2> QED
    BY <1>1, <2>1, RenamingAssumption DEF TypeOK, Shape, Arch
<1>3. free' \in Seq(Phys \ {0}) /\ ckptFree' \in Seq(Ckpt)
  BY CommitFacts, PoolTypes DEF Commit, CommitFree, CommitCkpt, TypeOK, Entry
<1>4. Len(rob') <= RobSize /\ (rob' = <<>> => Len(rob') = 0)
  BY CommitFacts, RenamingAssumption DEF TypeOK
<1>5. TypeOK'
  <2>1. ready' \in [Phys -> BOOLEAN] /\ rat' \in [Arch -> Phys] /\ ckptRat' \in [Ckpt -> [Arch -> Phys]]
    BY DEF TypeOK, Commit
  <2>2. rob' \in Seq(Entry) /\ killed' \in Seq(Entry)
    BY CommitFacts
  <2>3. offender' \in 0 .. Len(rob')
    BY <2>2, CommitFacts
  <2>4. mode' \in {"run", "recover", "halt", "done"}
    BY CommitFacts
  <2> QED
    BY <1>2, <1>3, <1>4, <2>1, <2>2, <2>3, <2>4 DEF TypeOK
<1>6. \A i \in 1 .. Len(rob') : EntryShape(rob'[i])
  <2>1. \A i \in 1 .. Len(rob) : EntryShape(rob[i])
    BY DEF Shape
  <2>2. CASE rob' = <<>>
    BY <2>2
  <2>3. CASE Len(rob') = Len(rob) - 1 /\ \A i \in 1 .. Len(rob) - 1 : rob'[i] = rob[i + 1]
    <3>1. ASSUME NEW i \in 1 .. Len(rob') PROVE rob'[i] = rob[i + 1] /\ i + 1 \in 1 .. Len(rob)
      BY <2>3, CommitFacts
    <3> QED
      BY <2>1, <3>1
  <2> QED
    BY <2>2, <2>3, CommitFacts
<1>7. Shape'
  BY <1>2, <1>6, CommitFacts DEF Shape
<1> QED
  BY <1>5, <1>7

\* The end of a run keeps the types.
LEMMA DrainedType ==
  ASSUME TypeOK, Shape, Drained
  PROVE  TypeOK' /\ Shape'
  BY DEF TypeOK, Shape, Drained

\* What the prover is given for a step that takes no action of its own.
LEMMA StutterType ==
  ASSUME TypeOK, Shape, UNCHANGED vars
  PROVE  TypeOK' /\ Shape'
  BY DEF TypeOK, Shape, vars

(***************************************************************************)
(* Every structure keeps the type and the capacity its C++ declaration     *)
(* gives it, on every path through rename(), issue(), commit(), recover()  *)
(* and squash_in_flight(); and recover() always finds a checkpoint on the  *)
(* branch it recovers to.                                                  *)
(***************************************************************************)
THEOREM TypeCorrect == Spec => [](TypeOK /\ Shape)
<1>1. Init => TypeOK /\ Shape
  BY InitType
<1>2. TypeOK /\ Shape /\ [Next]_vars => (TypeOK /\ Shape)'
  <2> SUFFICES ASSUME TypeOK, Shape, [Next]_vars
               PROVE  TypeOK' /\ Shape'
    OBVIOUS
  <2>1. ASSUME NEW d \in Insts, Rename(d) PROVE TypeOK' /\ Shape'
    BY <2>1, RenameType
  <2>2. ASSUME NEW i \in 1 .. Len(rob), NEW m \in BOOLEAN, Issue(i, m)
        PROVE  TypeOK' /\ Shape'
    BY <2>2, IssueType
  <2>3. ASSUME NEW i \in 1 .. Len(rob), Complete(i) PROVE TypeOK' /\ Shape'
    BY <2>3, CompleteType
  <2>4. CASE Commit
    BY <2>4, CommitType
  <2>5. CASE Recover
    BY <2>5, RecoverType
  <2>6. CASE Reclaim
    BY <2>6, ReclaimType
  <2>7. CASE Restore
    BY <2>7, RestoreType
  <2>8. CASE Drained
    BY <2>8, DrainedType
  <2>9. CASE UNCHANGED vars
    BY <2>9, StutterType
  <2> QED
    BY <2>1, <2>2, <2>3, <2>4, <2>5, <2>6, <2>7, <2>8, <2>9 DEF Next, Advance
<1> QED
  BY <1>1, <1>2, PTL DEF Spec

-----------------------------------------------------------------------------
(* Ownership: who holds a register or a checkpoint after each change to    *)
(* the reorder buffer.                                                     *)

\* rename(): the new entry owns what it took.
LEMMA OwnersAppend ==
  ASSUME NEW s \in Seq(Entry), NEW t \in Seq(Entry), Len(t) = Len(s) + 1,
         \A i \in 1 .. Len(s) : t[i] = s[i]
  PROVE  LET e == t[Len(s) + 1]
         IN  /\ \A p : DestIn(t, p) <=> DestIn(s, p) \/ e.dest = p
             /\ \A c : CkptIn(t, c) <=> CkptIn(s, c) \/ e.ckpt = c
             /\ DestsDistinct(s) /\ (e.dest # None => ~DestIn(s, e.dest)) => DestsDistinct(t)
             /\ CkptsDistinct(s) /\ (e.ckpt # None => ~CkptIn(s, e.ckpt)) => CkptsDistinct(t)
<1>1. Len(s) \in Nat /\ 1 .. Len(t) = (1 .. Len(s)) \cup {Len(s) + 1}
  OBVIOUS
<1> QED
  BY <1>1 DEF DestIn, CkptIn, DestsDistinct, CkptsDistinct

\* issue() and complete(): nothing changes hands.
LEMMA OwnersSame ==
  ASSUME NEW s, NEW t, Len(t) = Len(s), \A i \in 1 .. Len(s) : Same(s[i], t[i])
  PROVE  /\ \A p : DestIn(t, p) <=> DestIn(s, p)
         /\ \A c : CkptIn(t, c) <=> CkptIn(s, c)
         /\ DestsDistinct(s) => DestsDistinct(t)
         /\ CkptsDistinct(s) => CkptsDistinct(t)
  BY DEF Same, DestIn, CkptIn, DestsDistinct, CkptsDistinct

\* A squash: the n oldest entries of s stay in t, the others move to u.
Split(s, n, t, u) ==
  /\ n \in 0 .. Len(s)
  /\ s \in Seq(Entry) /\ t \in Seq(Entry) /\ u \in Seq(Entry)
  /\ Len(t) = n /\ \A i \in 1 .. n : t[i] = s[i]
  /\ Len(u) = Len(s) - n /\ \A k \in 1 .. Len(s) - n : u[k] = s[Len(s) + 1 - k]

\* Nothing is lost and nothing is shared by a squash.
LEMMA OwnersSplit ==
  ASSUME NEW s, NEW n, NEW t, NEW u, Split(s, n, t, u), DestsDistinct(s), CkptsDistinct(s)
  PROVE  /\ \A p : DestIn(s, p) <=> DestIn(t, p) \/ DestIn(u, p)
         /\ \A c : CkptIn(s, c) <=> CkptIn(t, c) \/ CkptIn(u, c)
         /\ \A p : p # None => ~(DestIn(t, p) /\ DestIn(u, p))
         /\ \A c : c # None => ~(CkptIn(t, c) /\ CkptIn(u, c))
         /\ DestsDistinct(t) /\ DestsDistinct(u)
         /\ CkptsDistinct(t) /\ CkptsDistinct(u)
<1> DEFINE r(k) == Len(s) + 1 - k
<1>0. /\ n \in 0 .. Len(s) /\ Len(t) = n /\ Len(u) = Len(s) - n
      /\ s \in Seq(Entry) /\ t \in Seq(Entry) /\ u \in Seq(Entry)
      /\ \A i \in 1 .. n : t[i] = s[i]
      /\ \A k \in 1 .. Len(s) - n : u[k] = s[Len(s) + 1 - k]
  BY DEF Split
<1>1. Len(s) \in Nat /\ n \in Nat /\ n <= Len(s)
  BY <1>0
<1>2. \A k \in 1 .. Len(u) : r(k) \in 1 .. Len(s) /\ r(k) > n /\ u[k] = s[r(k)]
  BY <1>0, <1>1
<1>3. ASSUME NEW i \in 1 .. Len(s), i > n
      PROVE  r(i) \in 1 .. Len(u) /\ u[r(i)] = s[i]
  <2>1. r(i) \in 1 .. Len(u) /\ r(r(i)) = i
    BY <1>0, <1>1, <1>3
  <2> QED
    BY <1>2, <2>1
<1>4. \A k, l \in 1 .. Len(u) : r(k) = r(l) => k = l
  BY <1>0, <1>1
<1>5. \A i \in 1 .. Len(s) : ~(i > n) => i \in 1 .. Len(t)
  BY <1>0, <1>1
<1>6. \A i \in 1 .. Len(t) : i \in 1 .. Len(s) /\ ~(i > n) /\ t[i] = s[i]
  BY <1>0, <1>1
<1> HIDE DEF r
<1>7. \A p : DestIn(s, p) <=> DestIn(t, p) \/ DestIn(u, p)
  BY <1>2, <1>3, <1>5, <1>6 DEF DestIn
<1>8. \A c : CkptIn(s, c) <=> CkptIn(t, c) \/ CkptIn(u, c)
  BY <1>2, <1>3, <1>5, <1>6 DEF CkptIn
<1>9. \A p : p # None => ~(DestIn(t, p) /\ DestIn(u, p))
  BY <1>2, <1>6 DEF DestIn, DestsDistinct
<1>10. \A c : c # None => ~(CkptIn(t, c) /\ CkptIn(u, c))
  BY <1>2, <1>6 DEF CkptIn, CkptsDistinct
<1>11. DestsDistinct(t) /\ CkptsDistinct(t)
  BY <1>6 DEF DestsDistinct, CkptsDistinct
<1>12. DestsDistinct(u) /\ CkptsDistinct(u)
  <2> SUFFICES ASSUME NEW k \in 1 .. Len(u), NEW l \in 1 .. Len(u)
               PROVE  /\ u[k].dest # None /\ u[k].dest = u[l].dest => k = l
                      /\ u[k].ckpt # None /\ u[k].ckpt = u[l].ckpt => k = l
    BY DEF DestsDistinct, CkptsDistinct
  <2>1. /\ r(k) \in 1 .. Len(s) /\ u[k] = s[r(k)]
        /\ r(l) \in 1 .. Len(s) /\ u[l] = s[r(l)]
    BY <1>2
  <2>2. u[k].dest # None /\ u[k].dest = u[l].dest => r(k) = r(l)
    BY <2>1 DEF DestsDistinct
  <2>3. u[k].ckpt # None /\ u[k].ckpt = u[l].ckpt => r(k) = r(l)
    BY <2>1 DEF CkptsDistinct
  <2> QED
    BY <1>4, <2>2, <2>3
<1> QED
  BY <1>7, <1>8, <1>9, <1>10, <1>11, <1>12

\* commit() and the reclaiming loop: the first entry leaves.
LEMMA OwnersTail ==
  ASSUME NEW s \in Seq(Entry), Len(s) >= 1, NEW t \in Seq(Entry),
         Len(t) = Len(s) - 1, \A i \in 1 .. Len(s) - 1 : t[i] = s[i + 1],
         DestsDistinct(s), CkptsDistinct(s)
  PROVE  /\ \A p : DestIn(s, p) <=> DestIn(t, p) \/ s[1].dest = p
         /\ \A c : CkptIn(s, c) <=> CkptIn(t, c) \/ s[1].ckpt = c
         /\ s[1].dest # None => ~DestIn(t, s[1].dest)
         /\ s[1].ckpt # None => ~CkptIn(t, s[1].ckpt)
         /\ DestsDistinct(t) /\ CkptsDistinct(t)
<1>1. /\ Len(s) \in Nat
      /\ \A i \in 2 .. Len(s) : i - 1 \in 1 .. Len(t) /\ t[i - 1] = s[i]
      /\ \A i \in 1 .. Len(t) : i + 1 \in 2 .. Len(s)
  OBVIOUS
<1>2. \A p : DestIn(s, p) <=> DestIn(t, p) \/ s[1].dest = p
  BY <1>1 DEF DestIn
<1>3. \A c : CkptIn(s, c) <=> CkptIn(t, c) \/ s[1].ckpt = c
  BY <1>1 DEF CkptIn
<1>4. s[1].dest # None => ~DestIn(t, s[1].dest)
  BY <1>1 DEF DestIn, DestsDistinct
<1>5. s[1].ckpt # None => ~CkptIn(t, s[1].ckpt)
  BY <1>1 DEF CkptIn, CkptsDistinct
<1>6. DestsDistinct(t) /\ CkptsDistinct(t)
  BY <1>1 DEF DestsDistinct, CkptsDistinct
<1> QED
  BY <1>2, <1>3, <1>4, <1>5, <1>6

\* alloc() of either pool.
LEMMA PoolTakes ==
  ASSUME NEW S, NEW s \in Seq(S), s # <<>>, Injective(s)
  PROVE  /\ \A x : Listed(s, x) <=> Listed(Tail(s), x) \/ x = Head(s)
         /\ ~Listed(Tail(s), Head(s))
         /\ Injective(Tail(s))
<1>1. /\ Len(s) \in Nat /\ Len(s) >= 1 /\ DOMAIN s = 1 .. Len(s)
      /\ Head(s) = s[1]
      /\ Tail(s) \in Seq(S) /\ Len(Tail(s)) = Len(s) - 1
      /\ DOMAIN Tail(s) = 1 .. Len(Tail(s))
      /\ \A i \in 1 .. Len(s) - 1 : Tail(s)[i] = s[i + 1]
  BY TailFacts
<1>2. /\ 1 .. Len(s) = {1} \cup (2 .. Len(s))
      /\ \A i \in 2 .. Len(s) : i - 1 \in 1 .. Len(Tail(s)) /\ Tail(s)[i - 1] = s[i]
  BY <1>1
<1>3. \A i \in 1 .. Len(Tail(s)) : i + 1 \in 2 .. Len(s) /\ Tail(s)[i] = s[i + 1]
  BY <1>1
<1>4. \A x : Listed(s, x) <=> Listed(Tail(s), x) \/ x = Head(s)
  BY <1>1, <1>2, <1>3 DEF Listed
<1>5. ~Listed(Tail(s), Head(s))
  BY <1>1, <1>3 DEF Listed, Injective
<1>6. Injective(Tail(s))
  BY <1>1, <1>3 DEF Injective
<1> QED
  BY <1>4, <1>5, <1>6

\* free() of either pool.
LEMMA PoolGives ==
  ASSUME NEW S, NEW s \in Seq(S), NEW y \in S
  PROVE  /\ \A x : Listed(Append(s, y), x) <=> Listed(s, x) \/ x = y
         /\ Injective(s) /\ ~Listed(s, y) => Injective(Append(s, y))
<1> DEFINE t == Append(s, y)
<1>1. /\ Len(s) \in Nat /\ DOMAIN s = 1 .. Len(s)
      /\ t \in Seq(S) /\ Len(t) = Len(s) + 1 /\ DOMAIN t = 1 .. Len(s) + 1
      /\ \A i \in 1 .. Len(s) : t[i] = s[i]
      /\ t[Len(s) + 1] = y
  BY AppendFacts
<1> HIDE DEF t
<1>2. 1 .. Len(t) = (1 .. Len(s)) \cup {Len(s) + 1}
  BY <1>1
<1>3. \A x : Listed(t, x) <=> Listed(s, x) \/ x = y
  BY <1>1, <1>2 DEF Listed
<1>4. ASSUME Injective(s), ~Listed(s, y) PROVE Injective(t)
  <2> SUFFICES ASSUME NEW i \in 1 .. Len(s) + 1, NEW j \in 1 .. Len(s) + 1, t[i] = t[j]
               PROVE  i = j
    BY <1>1 DEF Injective
  <2>1. \A k \in 1 .. Len(s) : t[k] # y
    BY <1>1, <1>4 DEF Listed
  <2> QED
    BY <1>1, <1>2, <1>4, <2>1 DEF Injective
<1> QED
  BY <1>3, <1>4 DEF t

(***************************************************************************)
(* The inductive invariant.  Ownership alone does not survive commit(),    *)
(* which frees the register an entry says it displaced: that must be the   *)
(* one the committed mapping holds, and so the whole program-order reading *)
(* of the mapping, the displaced registers and the checkpoints is needed.  *)
(***************************************************************************)
Inv ==
  /\ TypeOK /\ Shape
  /\ OneOwner /\ OneHolder
  /\ RatIsProgramOrder /\ StaleIsPredecessor /\ SourcesAreProgramOrder /\ CheckpointsAreExact

-----------------------------------------------------------------------------
(* OneOwner is preserved. *)

\* rename() moves one register from the free list to the new entry.
LEMMA RenameOwner ==
  ASSUME Inv, NEW d \in Insts, Rename(d)
  PROVE  OneOwner'
<1> DEFINE dest == NewDest(d)
<1>1. /\ TypeOK /\ OneOwner
      /\ archRat' = archRat /\ killed' = killed
      /\ free' = IF d.rd # None THEN Tail(free) ELSE free
      /\ d.rd # None => free # <<>> /\ dest = Head(free)
      /\ d.rd = None => dest = None
  BY DEF Inv, Rename, NewDest
<1>2. dest \in (Phys \ {0}) \cup {None} /\ (dest = None <=> d.rd = None)
  BY <1>1, RenameTakes
<1>3. rob'[Len(rob) + 1].dest = dest
  BY <1>1, RenameAppends
<1> HIDE DEF dest
<1>4. /\ \A p \in Phys : Listed(free, p) <=> Listed(free', p) \/ p = dest
      /\ \A p \in Phys : p = dest => ~Listed(free', p)
      /\ Injective(free')
  <2>1. CASE d.rd = None
    BY <1>1, <2>1 DEF OneOwner, Phys, None
  <2>2. CASE d.rd # None
    BY <1>1, <2>2, PoolTakes DEF OneOwner, TypeOK
  <2> QED
    BY <2>1, <2>2
<1>5. dest # None => ~DestIn(rob, dest)
  BY <1>2, <1>4, <1>1 DEF OneOwner, InFree
<1>6. /\ \A p : DestIn(rob', p) <=> DestIn(rob, p) \/ p = dest
      /\ DestsDistinct(rob')
  <2>1. /\ rob \in Seq(Entry) /\ rob' \in Seq(Entry) /\ Len(rob') = Len(rob) + 1
        /\ \A i \in 1 .. Len(rob) : rob'[i] = rob[i]
    BY <1>1, RenameAppends DEF TypeOK
  <2>2. DestsDistinct(rob)
    BY <1>1 DEF OneOwner
  <2> QED
    BY <1>3, <1>5, <2>1, <2>2, OwnersAppend
<1> QED
  BY <1>1, <1>2, <1>4, <1>6 DEF OneOwner, InFree, InArch

\* issue() and complete() move no register.
LEMMA MovedOwner ==
  ASSUME Inv, NEW i \in 1 .. Len(rob), NEW st \in {"issued", "complete"},
         Moved(i, st),
         UNCHANGED <<free, archRat, ckptFree, killed>>
  PROVE  OneOwner' /\ OneHolder'
<1>1. TypeOK /\ OneOwner /\ OneHolder
  BY DEF Inv
<1>2. Len(rob') = Len(rob) /\ \A j \in 1 .. Len(rob) : Same(rob[j], rob'[j])
  BY <1>1, MovedFacts
<1>3. /\ \A p : DestIn(rob', p) <=> DestIn(rob, p)
      /\ \A c : CkptIn(rob', c) <=> CkptIn(rob, c)
      /\ DestsDistinct(rob) => DestsDistinct(rob')
      /\ CkptsDistinct(rob) => CkptsDistinct(rob')
  BY <1>2, OwnersSame
<1>4. OneOwner'
  BY <1>1, <1>3 DEF OneOwner, InFree, InArch
<1>5. OneHolder'
  BY <1>1, <1>3 DEF OneHolder
<1> QED
  BY <1>4, <1>5

\* recover() hands what it cuts off to the squashed entries.
LEMMA RecoverOwner ==
  ASSUME Inv, Recover
  PROVE  OneOwner' /\ OneHolder'
<1>1. /\ TypeOK /\ OneOwner /\ OneHolder /\ killed = <<>>
      /\ offender \in 1 .. Len(rob) /\ rob \in Seq(Entry)
      /\ free' = free /\ archRat' = archRat /\ ckptFree' = ckptFree
  BY DEF Inv, Recover, TypeOK, Shape
<1>2. /\ rob' \in Seq(Entry) /\ Len(rob') = offender
      /\ \A i \in 1 .. offender : rob'[i] = rob[i]
  BY <1>1, PrefixFacts DEF Recover
<1>3. /\ killed' \in Seq(Entry) /\ Len(killed') = Len(rob) - offender
      /\ \A k \in 1 .. Len(rob) - offender : killed'[k] = rob[Len(rob) + 1 - k]
  BY <1>1, YoungestFirstFacts DEF Recover
<1>4. DestsDistinct(rob) /\ CkptsDistinct(rob) /\ Split(rob, offender, rob', killed')
  BY <1>1, <1>2, <1>3 DEF OneOwner, OneHolder, Split
<1>5. /\ \A p : DestIn(rob, p) <=> DestIn(rob', p) \/ DestIn(killed', p)
      /\ \A c : CkptIn(rob, c) <=> CkptIn(rob', c) \/ CkptIn(killed', c)
      /\ \A p : p # None => ~(DestIn(rob', p) /\ DestIn(killed', p))
      /\ \A c : c # None => ~(CkptIn(rob', c) /\ CkptIn(killed', c))
      /\ DestsDistinct(rob') /\ DestsDistinct(killed')
      /\ CkptsDistinct(rob') /\ CkptsDistinct(killed')
  BY <1>4, OwnersSplit
<1>6. \A x : ~DestIn(killed, x) /\ ~CkptIn(killed, x)
  BY <1>1 DEF DestIn, CkptIn
<1>7. None \notin Phys /\ None \notin Ckpt
  BY DEF Phys, Ckpt, None
<1>8. OneOwner'
  BY <1>1, <1>5, <1>6, <1>7 DEF OneOwner, InFree, InArch
<1>9. OneHolder'
  BY <1>1, <1>5, <1>6, <1>7 DEF OneHolder
<1> QED
  BY <1>8, <1>9

\* One turn of the reclaiming loop moves one entry's register and checkpoint
\* to the free lists: it never owns p0, which the free list would drop.
LEMMA ReclaimOwner ==
  ASSUME Inv, Reclaim
  PROVE  OneOwner' /\ OneHolder'
<1> DEFINE e == killed[1]
<1>1. /\ TypeOK /\ Shape /\ OneOwner /\ OneHolder /\ killed # <<>> /\ killed \in Seq(Entry)
      /\ rob' = rob /\ archRat' = archRat
      /\ killed' = Tail(killed)
      /\ free' = FreeReg(free, Head(killed).dest)
      /\ ckptFree' = FreeCkpt(ckptFree, Head(killed).ckpt)
  BY DEF Inv, Reclaim, Reclaimed, TypeOK
<1>2. /\ Len(killed) >= 1 /\ Head(killed) = e /\ e \in Entry
      /\ killed' \in Seq(Entry) /\ Len(killed') = Len(killed) - 1
      /\ \A i \in 1 .. Len(killed) - 1 : killed'[i] = killed[i + 1]
  BY <1>1, TailFacts
<1>3. DestsDistinct(killed) /\ CkptsDistinct(killed)
  BY <1>1 DEF OneOwner, OneHolder
<1>4. /\ \A p : DestIn(killed, p) <=> DestIn(killed', p) \/ e.dest = p
      /\ \A c : CkptIn(killed, c) <=> CkptIn(killed', c) \/ e.ckpt = c
      /\ e.dest # None => ~DestIn(killed', e.dest)
      /\ e.ckpt # None => ~CkptIn(killed', e.ckpt)
      /\ DestsDistinct(killed') /\ CkptsDistinct(killed')
  BY <1>1, <1>2, <1>3, OwnersTail
<1>5. e.dest \in Phys \cup {None} /\ e.ckpt \in Ckpt \cup {None}
  BY <1>2 DEF Entry
<1>6. None \notin Phys /\ None \notin Ckpt
  BY DEF Phys, Ckpt, None
<1>7. e.dest # 0
  <2>1. InArch(0) /\ 0 \in Phys
    BY <1>1, RenamingAssumption DEF InArch, Shape, Arch, Phys
  <2> QED
    BY <1>1, <1>4, <2>1 DEF OneOwner
<1> HIDE DEF e
<1>8. /\ \A p \in Phys : Listed(free', p) <=> Listed(free, p) \/ p = e.dest
      /\ Injective(free')
  <2>1. CASE e.dest = None
    BY <1>1, <1>2, <1>6, <2>1 DEF FreeReg, OneOwner
  <2>2. CASE e.dest # None
    <3>1. e.dest \in Phys \ {0} /\ ~Listed(free, e.dest)
      BY <1>1, <1>4, <1>5, <1>7, <2>2 DEF OneOwner, InFree
    <3>2. free' = Append(free, e.dest) /\ free \in Seq(Phys \ {0}) /\ Injective(free)
      BY <1>1, <1>2, <3>1 DEF FreeReg, TypeOK, OneOwner
    <3> QED
      BY <3>1, <3>2, PoolGives
  <2> QED
    BY <2>1, <2>2
<1>9. /\ \A c \in Ckpt : Listed(ckptFree', c) <=> Listed(ckptFree, c) \/ c = e.ckpt
      /\ Injective(ckptFree')
  <2>1. CASE e.ckpt = None
    BY <1>1, <1>2, <1>6, <2>1 DEF FreeCkpt, OneHolder
  <2>2. CASE e.ckpt # None
    <3>1. e.ckpt \in Ckpt /\ ~Listed(ckptFree, e.ckpt)
      BY <1>1, <1>4, <1>5, <2>2 DEF OneHolder
    <3>2. ckptFree' = Append(ckptFree, e.ckpt) /\ ckptFree \in Seq(Ckpt) /\ Injective(ckptFree)
      BY <1>1, <1>2, <3>1 DEF FreeCkpt, TypeOK, OneHolder
    <3> QED
      BY <3>1, <3>2, PoolGives
  <2> QED
    BY <2>1, <2>2
<1>10. OneOwner'
  BY <1>1, <1>4, <1>6, <1>8 DEF OneOwner, InFree, InArch
<1>11. OneHolder'
  BY <1>1, <1>4, <1>6, <1>9 DEF OneHolder
<1> QED
  BY <1>10, <1>11

\* rename() moves one checkpoint from the pool to a branch.
LEMMA RenameHolder ==
  ASSUME Inv, NEW d \in Insts, Rename(d)
  PROVE  OneHolder'
<1> DEFINE id == NewCkpt(d)
<1>1. /\ TypeOK /\ OneHolder /\ killed' = killed
      /\ ckptFree' = IF d.branch THEN Tail(ckptFree) ELSE ckptFree
      /\ d.branch => ckptFree # <<>> /\ id = Head(ckptFree)
      /\ ~d.branch => id = None
  BY DEF Inv, Rename, NewCkpt
<1>2. /\ id \in Ckpt \cup {None} /\ (id = None <=> ~d.branch)
      /\ None \notin Ckpt
  BY <1>1, RenameTakes DEF Ckpt, None
<1>3. rob'[Len(rob) + 1].ckpt = id
  BY <1>1, RenameAppends
<1> HIDE DEF id
<1>4. /\ \A c \in Ckpt : Listed(ckptFree, c) <=> Listed(ckptFree', c) \/ c = id
      /\ \A c \in Ckpt : c = id => ~Listed(ckptFree', c)
      /\ Injective(ckptFree')
  <2>1. CASE ~d.branch
    BY <1>1, <1>2, <2>1 DEF OneHolder
  <2>2. CASE d.branch
    BY <1>1, <2>2, PoolTakes DEF OneHolder, TypeOK
  <2> QED
    BY <2>1, <2>2
<1>5. id # None => ~CkptIn(rob, id)
  BY <1>1, <1>2, <1>4 DEF OneHolder
<1>6. /\ \A c : CkptIn(rob', c) <=> CkptIn(rob, c) \/ c = id
      /\ CkptsDistinct(rob')
  <2>1. /\ rob \in Seq(Entry) /\ rob' \in Seq(Entry) /\ Len(rob') = Len(rob) + 1
        /\ \A i \in 1 .. Len(rob) : rob'[i] = rob[i]
    BY <1>1, RenameAppends DEF TypeOK
  <2>2. CkptsDistinct(rob)
    BY <1>1 DEF OneHolder
  <2> QED
    BY <1>3, <1>5, <2>1, <2>2, OwnersAppend
<1> QED
  BY <1>1, <1>2, <1>4, <1>6 DEF OneHolder

\* The register commit() frees is the one the committed mapping held.
LEMMA StaleIsCommitted ==
  ASSUME Inv, Commit, rob[1].dest # None
  PROVE  /\ rob[1].rd \in Arch \ {0}
         /\ rob[1].stale \in Phys \ {0}
         /\ rob[1].dest \in Phys
         /\ archRat[rob[1].rd] = rob[1].stale
<1>1. TypeOK /\ Shape /\ OneOwner /\ StaleIsPredecessor
  BY DEF Inv
<1>2. 1 \in 1 .. Len(rob) /\ rob[1] \in Entry /\ EntryShape(rob[1])
  BY <1>1, CommitFacts
<1>3. rob[1].rd \in Arch \ {0} /\ rob[1].dest \in Phys
  BY <1>2 DEF Entry, EntryShape
<1>4. MapsTo(0, rob[1].rd, rob[1].stale)
  <2>1. rob[1].rd # None
    BY <1>2 DEF EntryShape
  <2>2. MapsTo(1 - 1, rob[1].rd, rob[1].stale)
    BY <1>1, <1>2, <2>1 DEF StaleIsPredecessor
  <2> QED
    BY <2>2
<1>5. archRat[rob[1].rd] = rob[1].stale
  BY <1>4 DEF MapsTo
<1>6. rob[1].stale # 0
  <2>1. /\ archRat \in [Arch -> Phys] /\ archRat[0] = 0 /\ Injective(archRat)
        /\ 0 \in Arch
    BY <1>1, RenamingAssumption DEF OneOwner, TypeOK, Shape, Arch
  <2> QED
    BY <1>3, <1>5, <2>1 DEF Injective
<1> QED
  BY <1>1, <1>3, <1>5, <1>6 DEF TypeOK

\* Whatever commit() does with the rest of the reorder buffer, the entries
\* behind the head keep what they own.
LEMMA CommitKeeps ==
  ASSUME Inv, Commit
  PROVE  LET e == rob[1]
             Behind(s) == DestsDistinct(s) /\ CkptsDistinct(s)
         IN  /\ Behind(rob') /\ Behind(killed')
             /\ rob' = <<>> \/ killed' = <<>>
             /\ \A p : DestIn(rob, p) <=> DestIn(rob', p) \/ DestIn(killed', p) \/ p = e.dest
             /\ \A c : CkptIn(rob, c) <=> CkptIn(rob', c) \/ CkptIn(killed', c) \/ c = e.ckpt
             /\ e.dest # None => ~DestIn(rob', e.dest) /\ ~DestIn(killed', e.dest)
             /\ e.ckpt # None => ~CkptIn(rob', e.ckpt) /\ ~CkptIn(killed', e.ckpt)
<1> DEFINE e == rob[1]
           one == SubSeq(rob, 1, 1)
<1>1. /\ TypeOK /\ Shape /\ rob \in Seq(Entry)
      /\ DestsDistinct(rob) /\ CkptsDistinct(rob)
  BY DEF Inv, TypeOK, OneOwner, OneHolder
<1>2. Len(rob) >= 1 /\ 1 \in 0 .. Len(rob) /\ rob' \in Seq(Entry) /\ killed' \in Seq(Entry)
  BY <1>1, CommitFacts
<1>3. \A s : s = <<>> => /\ DestsDistinct(s) /\ CkptsDistinct(s)
                         /\ \A x : ~DestIn(s, x) /\ ~CkptIn(s, x)
  BY DEF DestsDistinct, CkptsDistinct, DestIn, CkptIn
<1>4. CASE mode' = "run"
  <2>1. /\ killed' = <<>> /\ Len(rob') = Len(rob) - 1
        /\ \A i \in 1 .. Len(rob) - 1 : rob'[i] = rob[i + 1]
    BY <1>1, <1>4, CommitFacts
  <2>2. /\ \A p : DestIn(rob, p) <=> DestIn(rob', p) \/ e.dest = p
        /\ \A c : CkptIn(rob, c) <=> CkptIn(rob', c) \/ e.ckpt = c
        /\ e.dest # None => ~DestIn(rob', e.dest)
        /\ e.ckpt # None => ~CkptIn(rob', e.ckpt)
        /\ DestsDistinct(rob') /\ CkptsDistinct(rob')
    BY <1>1, <1>2, <2>1, OwnersTail
  <2> QED
    BY <1>3, <2>1, <2>2
<1>5. CASE mode' = "halt"
  <2>1. /\ rob' = <<>> /\ Len(killed') = Len(rob) - 1
        /\ \A k \in 1 .. Len(rob) - 1 : killed'[k] = rob[Len(rob) + 1 - k]
    BY <1>1, <1>5, CommitFacts
  <2>2. one \in Seq(Entry) /\ Len(one) = 1 /\ one[1] = e
    BY <1>1, <1>2, PrefixFacts
  <2>3. Split(rob, 1, one, killed')
    BY <1>1, <1>2, <2>1, <2>2 DEF Split
  <2> HIDE DEF one
  <2>4. /\ \A p : DestIn(rob, p) <=> DestIn(one, p) \/ DestIn(killed', p)
        /\ \A c : CkptIn(rob, c) <=> CkptIn(one, c) \/ CkptIn(killed', c)
        /\ \A p : p # None => ~(DestIn(one, p) /\ DestIn(killed', p))
        /\ \A c : c # None => ~(CkptIn(one, c) /\ CkptIn(killed', c))
        /\ DestsDistinct(killed') /\ CkptsDistinct(killed')
    BY <1>1, <2>3, OwnersSplit
  <2>5. /\ \A p : DestIn(one, p) <=> p = e.dest
        /\ \A c : CkptIn(one, c) <=> c = e.ckpt
    BY <2>2 DEF DestIn, CkptIn
  <2> QED
    BY <1>3, <2>1, <2>4, <2>5
<1> QED
  BY <1>1, <1>4, <1>5, CommitFacts

\* commit() exchanges the displaced register for the committed one, and
\* returns a branch's checkpoint.
LEMMA CommitOwner ==
  ASSUME Inv, Commit
  PROVE  OneOwner' /\ OneHolder'
<1> DEFINE e == rob[1]
<1>1. /\ TypeOK /\ Shape /\ OneOwner /\ OneHolder
      /\ Head(rob) = e /\ e \in Entry /\ EntryShape(e) /\ killed = <<>>
  BY CommitFacts DEF Inv
<1>2. /\ archRat' = IF e.dest # None THEN [archRat EXCEPT ![e.rd] = e.dest] ELSE archRat
      /\ free' = IF e.dest # None THEN FreeReg(free, e.stale) ELSE free
      /\ ckptFree' = IF e.branch THEN FreeCkpt(ckptFree, e.ckpt) ELSE ckptFree
  BY <1>1 DEF Commit, CommitFree, CommitCkpt
<1>3. /\ DestsDistinct(rob') /\ CkptsDistinct(rob') /\ DestsDistinct(killed') /\ CkptsDistinct(killed')
      /\ \A x : ~(DestIn(rob', x) /\ DestIn(killed', x)) /\ ~(CkptIn(rob', x) /\ CkptIn(killed', x))
      /\ \A p : DestIn(rob, p) <=> DestIn(rob', p) \/ DestIn(killed', p) \/ p = e.dest
      /\ \A c : CkptIn(rob, c) <=> CkptIn(rob', c) \/ CkptIn(killed', c) \/ c = e.ckpt
      /\ e.dest # None => ~DestIn(rob', e.dest) /\ ~DestIn(killed', e.dest)
      /\ e.ckpt # None => ~CkptIn(rob', e.ckpt) /\ ~CkptIn(killed', e.ckpt)
  BY CommitKeeps DEF DestIn, CkptIn
<1>4. /\ \A x : ~DestIn(killed, x) /\ ~CkptIn(killed, x)
      /\ None \notin Phys /\ None \notin Ckpt
  BY <1>1 DEF DestIn, CkptIn, Phys, Ckpt, None
<1>5. e.dest # None =>
        /\ e.rd \in Arch \ {0} /\ e.stale \in Phys \ {0} /\ e.dest \in Phys
        /\ archRat[e.rd] = e.stale
  BY StaleIsCommitted
<1>6. e.ckpt \in Ckpt \cup {None} /\ (e.ckpt = None <=> ~e.branch)
  BY <1>1 DEF Entry, EntryShape
<1> HIDE DEF e
<1>7. /\ \A c \in Ckpt : Listed(ckptFree', c) <=> Listed(ckptFree, c) \/ c = e.ckpt
      /\ Injective(ckptFree')
  <2>1. CASE e.ckpt = None
    BY <1>1, <1>2, <1>4, <1>6, <2>1 DEF OneHolder
  <2>2. CASE e.ckpt # None
    <3>1. e.ckpt \in Ckpt /\ ~Listed(ckptFree, e.ckpt)
      BY <1>1, <1>3, <1>6, <2>2 DEF OneHolder
    <3>2. ckptFree' = Append(ckptFree, e.ckpt) /\ ckptFree \in Seq(Ckpt) /\ Injective(ckptFree)
      BY <1>1, <1>2, <1>6, <2>2, <3>1 DEF FreeCkpt, TypeOK, OneHolder
    <3> QED
      BY <3>1, <3>2, PoolGives
  <2> QED
    BY <2>1, <2>2
<1>8. OneHolder'
  BY <1>1, <1>3, <1>4, <1>7 DEF OneHolder
<1>9. CASE e.dest = None
  <2>1. /\ free' = free /\ archRat' = archRat
        /\ \A p \in Phys : DestIn(rob, p) <=> DestIn(rob', p) \/ DestIn(killed', p)
    BY <1>2, <1>3, <1>4, <1>9
  <2>2. \A p \in Phys : InArch(p)' <=> InArch(p)
    BY <2>1 DEF InArch
  <2>3. /\ Injective(free') /\ Injective(archRat') /\ DestsDistinct(rob') /\ DestsDistinct(killed')
        /\ \A p \in Phys : DestIn(rob', p) => ~DestIn(killed', p)
    BY <1>1, <1>3, <2>1 DEF OneOwner
  <2>4. \A p \in Phys : InFree(p)' <=> InFree(p)
    BY <2>1 DEF InFree
  <2>5. \A p \in Phys :
          /\ InFree(p) => ~InArch(p) /\ ~DestIn(rob, p)
          /\ InArch(p) => ~DestIn(rob, p)
          /\ InFree(p) \/ InArch(p) \/ DestIn(rob, p)
    BY <1>1, <1>4 DEF OneOwner
  <2>6. ASSUME NEW p \in Phys
        PROVE  /\ InFree(p)' => ~InArch(p)' /\ ~DestIn(rob', p) /\ ~DestIn(killed', p)
               /\ InArch(p)' => ~DestIn(rob', p) /\ ~DestIn(killed', p)
               /\ InFree(p)' \/ InArch(p)' \/ DestIn(rob', p) \/ DestIn(killed', p)
    <3>1. /\ InFree(p)' <=> InFree(p)
          /\ InArch(p)' <=> InArch(p)
          /\ DestIn(rob, p) <=> DestIn(rob', p) \/ DestIn(killed', p)
      BY <2>1, <2>2, <2>4
    <3>2. /\ InFree(p) => ~InArch(p) /\ ~DestIn(rob, p)
          /\ InArch(p) => ~DestIn(rob, p)
          /\ InFree(p) \/ InArch(p) \/ DestIn(rob, p)
      BY <2>5
    <3> QED
      BY <3>1, <3>2
  <2> QED
    BY <1>8, <2>3, <2>6 DEF OneOwner
<1>10. CASE e.dest # None
  <2>1. archRat' = [archRat EXCEPT ![e.rd] = e.dest] /\ archRat \in [Arch -> Phys]
    BY <1>1, <1>2, <1>10 DEF TypeOK
  <2>2. Injective(archRat) /\ ~InArch(e.dest) /\ ~InFree(e.stale) /\ InArch(e.stale)
    BY <1>1, <1>3, <1>5, <1>10 DEF OneOwner, InArch
  <2>3. /\ \A p \in Phys : InArch(p)' <=> (InArch(p) /\ p # e.stale) \/ p = e.dest
        /\ Injective(archRat')
    BY <1>5, <1>10, <2>1, <2>2 DEF InArch, Injective
  <2>4. /\ \A p \in Phys : Listed(free', p) <=> Listed(free, p) \/ p = e.stale
        /\ Injective(free')
    <3>1. free' = Append(free, e.stale) /\ free \in Seq(Phys \ {0}) /\ Injective(free)
      BY <1>1, <1>2, <1>5, <1>10 DEF FreeReg, TypeOK, OneOwner
    <3> QED
      BY <1>5, <1>10, <2>2, <3>1, PoolGives DEF InFree
  <2>5. e.dest # e.stale
    BY <2>2
  <2>6. ASSUME NEW p \in Phys
        PROVE  /\ InFree(p)' => ~InArch(p)' /\ ~DestIn(rob', p) /\ ~DestIn(killed', p)
               /\ InArch(p)' => ~DestIn(rob', p) /\ ~DestIn(killed', p)
               /\ InFree(p)' \/ InArch(p)' \/ DestIn(rob', p) \/ DestIn(killed', p)
    <3>1. /\ InFree(p) => ~InArch(p) /\ ~DestIn(rob, p)
          /\ InArch(p) => ~DestIn(rob, p)
          /\ InFree(p) \/ InArch(p) \/ DestIn(rob, p)
      BY <1>1, <1>4 DEF OneOwner
    <3>2. InFree(p)' <=> InFree(p) \/ p = e.stale
      BY <2>4 DEF InFree
    <3>3. InArch(p)' <=> (InArch(p) /\ p # e.stale) \/ p = e.dest
      BY <2>3
    <3>4. /\ DestIn(rob, p) <=> DestIn(rob', p) \/ DestIn(killed', p) \/ p = e.dest
          /\ p = e.dest => DestIn(rob, p) /\ ~DestIn(rob', p) /\ ~DestIn(killed', p)
      BY <1>3, <1>10
    <3> QED
      BY <2>2, <2>5, <3>1, <3>2, <3>3, <3>4
  <2>7. /\ Injective(free') /\ Injective(archRat') /\ DestsDistinct(rob') /\ DestsDistinct(killed')
        /\ \A p \in Phys : DestIn(rob', p) => ~DestIn(killed', p)
    BY <1>3, <2>3, <2>4
  <2> QED
    BY <1>8, <2>6, <2>7 DEF OneOwner
<1> QED
  BY <1>8, <1>9, <1>10

-----------------------------------------------------------------------------
(* Program order. *)

\* MapsTo for any committed mapping m and reorder buffer s.
Names(m, s, k, a, p) ==
  \/ /\ m[a] = p
     /\ \A j \in 1 .. k : s[j].rd # a
  \/ \E i \in 1 .. k :
       /\ s[i].rd = a
       /\ s[i].dest = p
       /\ \A j \in i + 1 .. k : s[j].rd # a

\* The properties read program order off the current state.
LEMMA MapsToIsNames ==
  \A k, a, p : MapsTo(k, a, p) <=> Names(archRat, rob, k, a, p)
  BY DEF MapsTo, Names

\* Only the k oldest entries matter, and of them only what they write.
LEMMA NamesPrefix ==
  ASSUME NEW m, NEW s, NEW t, NEW k \in Nat,
         \A j \in 1 .. k : t[j].rd = s[j].rd /\ t[j].dest = s[j].dest
  PROVE  \A a, p : Names(m, s, k, a, p) => Names(m, t, k, a, p)
<1> SUFFICES ASSUME NEW a, NEW p, Names(m, s, k, a, p)
             PROVE  Names(m, t, k, a, p)
  OBVIOUS
<1>1. CASE m[a] = p /\ \A j \in 1 .. k : s[j].rd # a
  BY <1>1 DEF Names
<1>2. CASE \E i \in 1 .. k : s[i].rd = a /\ s[i].dest = p /\ \A j \in i + 1 .. k : s[j].rd # a
  <2>1. PICK i \in 1 .. k : s[i].rd = a /\ s[i].dest = p /\ \A j \in i + 1 .. k : s[j].rd # a
    BY <1>2
  <2>2. \A j \in i + 1 .. k : j \in 1 .. k
    OBVIOUS
  <2>3. t[i].rd = a /\ t[i].dest = p /\ \A j \in i + 1 .. k : t[j].rd # a
    BY <2>1, <2>2
  <2> QED
    BY <2>3 DEF Names
<1> QED
  BY <1>1, <1>2 DEF Names

\* One more entry is either the youngest writer of a, or does not write it.
LEMMA NamesNext ==
  ASSUME NEW m, NEW s, NEW k \in Nat
  PROVE  /\ \A a, p : Names(m, s, k, a, p) /\ s[k + 1].rd # a => Names(m, s, k + 1, a, p)
         /\ \A a : s[k + 1].rd = a => Names(m, s, k + 1, a, s[k + 1].dest)
<1>1. /\ 1 .. k + 1 = (1 .. k) \cup {k + 1}
      /\ \A i \in 1 .. k : i + 1 .. k + 1 = (i + 1 .. k) \cup {k + 1}
      /\ (k + 1) + 1 .. k + 1 = {}
  OBVIOUS
<1>2. ASSUME NEW a, NEW p, Names(m, s, k, a, p), s[k + 1].rd # a
      PROVE  Names(m, s, k + 1, a, p)
  BY <1>1, <1>2 DEF Names
<1>3. ASSUME NEW a, s[k + 1].rd = a
      PROVE  Names(m, s, k + 1, a, s[k + 1].dest)
  BY <1>1, <1>3 DEF Names
<1> QED
  BY <1>2, <1>3

\* The committed mapping m after entry e.
Committed(m, e) == IF e.dest # None THEN [m EXCEPT ![e.rd] = e.dest] ELSE m

\* commit() moves the oldest entry into the mapping: what the k + 1 oldest
\* entries named before, the k oldest name after.
LEMMA NamesCommit ==
  ASSUME NEW m \in [Arch -> Phys], NEW s, NEW t, NEW k \in Nat,
         \A j \in 1 .. k : t[j] = s[j + 1],
         s[1].dest = None <=> s[1].rd = None
  PROVE  \A a \in Arch : \A p : Names(m, s, k + 1, a, p) => Names(Committed(m, s[1]), t, k, a, p)
<1> DEFINE m1 == Committed(m, s[1])
<1> SUFFICES ASSUME NEW a \in Arch, NEW p, Names(m, s, k + 1, a, p)
             PROVE  Names(m1, t, k, a, p)
  OBVIOUS
<1>1. a # None /\ 1 \in 1 .. k + 1
  BY DEF Arch, None
<1>2. \A j \in 1 .. k : j + 1 \in 1 .. k + 1 /\ j + 1 \in 2 .. k + 1
  OBVIOUS
<1>3. CASE m[a] = p /\ \A j \in 1 .. k + 1 : s[j].rd # a
  <2>1. \A j \in 1 .. k : t[j].rd # a
    BY <1>2, <1>3
  <2>2. m1[a] = p
    BY <1>1, <1>3 DEF Committed
  <2> QED
    BY <2>1, <2>2 DEF Names
<1>4. ASSUME NEW i \in 1 .. k + 1, s[i].rd = a, s[i].dest = p,
             \A j \in i + 1 .. k + 1 : s[j].rd # a
      PROVE  Names(m1, t, k, a, p)
  <2>1. CASE i = 1
    <3>1. m1[a] = p
      BY <1>1, <1>4, <2>1 DEF Committed
    <3>2. \A j \in 1 .. k : t[j].rd # a
      BY <1>2, <1>4, <2>1
    <3> QED
      BY <3>1, <3>2 DEF Names
  <2>2. CASE i # 1
    <3>1. i - 1 \in 1 .. k /\ (i - 1) + 1 = i
      BY <2>2
    <3>2. t[i - 1].rd = a /\ t[i - 1].dest = p
      BY <1>4, <3>1
    <3>3. \A j \in (i - 1) + 1 .. k : t[j].rd # a
      <4> SUFFICES ASSUME NEW j \in (i - 1) + 1 .. k PROVE t[j].rd # a
        OBVIOUS
      <4>1. j \in 1 .. k /\ j + 1 \in i + 1 .. k + 1
        BY <2>2
      <4> QED
        BY <1>4, <4>1
    <3> QED
      BY <3>1, <3>2, <3>3 DEF Names
  <2> QED
    BY <2>1, <2>2
<1> QED
  BY <1>3, <1>4 DEF Names

\* The four readings of program order.
ProgramOrder ==
  RatIsProgramOrder /\ StaleIsPredecessor /\ SourcesAreProgramOrder /\ CheckpointsAreExact

\* What one entry says of program order.
EntryOrder(m, s, i, snap) ==
  /\ s[i].rd # None => Names(m, s, i - 1, s[i].rd, s[i].stale)
  /\ Names(m, s, i - 1, s[i].rs1, s[i].src1)
  /\ Names(m, s, i - 1, s[i].rs2, s[i].src2)
  /\ s[i].branch => \A a \in Arch : Names(m, s, i, a, snap[s[i].ckpt][a])

\* The four readings, entry by entry, as the steps change them.
LEMMA OrderByEntry ==
  ProgramOrder <=>
    /\ mode = "run" => \A a \in Arch : Names(archRat, rob, Len(rob), a, rat[a])
    /\ mode = "done" => rat = archRat
    /\ \A i \in 1 .. Len(rob) : EntryOrder(archRat, rob, i, ckptRat)
  BY MapsToIsNames
     DEF ProgramOrder, RatIsProgramOrder, StaleIsPredecessor, SourcesAreProgramOrder,
         CheckpointsAreExact, EntryOrder

\* The same in the next state.
LEMMA OrderByEntryPrime ==
  ProgramOrder' <=>
    /\ mode' = "run" => \A a \in Arch : Names(archRat', rob', Len(rob'), a, rat'[a])
    /\ mode' = "done" => rat' = archRat'
    /\ \A i \in 1 .. Len(rob') : EntryOrder(archRat', rob', i, ckptRat')
<1>1. \A k, a, p : MapsTo(k, a, p)' <=> Names(archRat', rob', k, a, p)
  BY DEF MapsTo, Names
<1> QED
  BY <1>1 DEF ProgramOrder, RatIsProgramOrder, StaleIsPredecessor, SourcesAreProgramOrder,
              CheckpointsAreExact, EntryOrder

\* An entry's reading survives any change behind it.
LEMMA EntryOrderPrefix ==
  ASSUME NEW m, NEW s, NEW t, NEW snap, NEW snap1, NEW i \in Nat, i >= 1,
         \A j \in 1 .. i : Same(s[j], t[j]),
         s[i].branch => snap1[s[i].ckpt] = snap[s[i].ckpt],
         EntryOrder(m, s, i, snap)
  PROVE  EntryOrder(m, t, i, snap1)
<1>1. /\ i - 1 \in Nat /\ i \in 1 .. i
      /\ \A j \in 1 .. i - 1 : t[j].rd = s[j].rd /\ t[j].dest = s[j].dest
      /\ \A j \in 1 .. i : t[j].rd = s[j].rd /\ t[j].dest = s[j].dest
  BY DEF Same
<1>2. /\ \A a, p : Names(m, s, i - 1, a, p) => Names(m, t, i - 1, a, p)
      /\ \A a, p : Names(m, s, i, a, p) => Names(m, t, i, a, p)
  BY <1>1, NamesPrefix
<1>3. Same(s[i], t[i])
  BY <1>1
<1> QED
  BY <1>2, <1>3 DEF EntryOrder, Same

\* rename() reads its operands from the mapping before the instruction, and
\* leaves the mapping after it in the RAT and in a branch's checkpoint.
LEMMA RenameOrder ==
  ASSUME Inv, NEW d \in Insts, Rename(d)
  PROVE  ProgramOrder'
<1> DEFINE n == Len(rob)
           e == rob'[n + 1]
<1>1. /\ TypeOK /\ OneHolder /\ ProgramOrder /\ mode = "run" /\ mode' = "run"
      /\ archRat' = archRat
      /\ rat' = IF NewDest(d) # None THEN [rat EXCEPT ![d.rd] = NewDest(d)] ELSE rat
      /\ ckptRat' = IF d.branch THEN [ckptRat EXCEPT ![NewCkpt(d)] = rat'] ELSE ckptRat
      /\ d.branch => ckptFree # <<>> /\ NewCkpt(d) = Head(ckptFree)
  BY DEF Inv, ProgramOrder, Rename, Running, NewDest, NewCkpt, Mapped, Snapshot
<1>2. /\ n \in Nat /\ Len(rob') = n + 1
      /\ \A i \in 1 .. n : rob'[i] = rob[i]
      /\ rob' \in Seq(Entry) /\ EntryShape(e)
      /\ e.rd = d.rd /\ e.rs1 = d.rs1 /\ e.rs2 = d.rs2 /\ e.branch = d.branch
      /\ e.src1 = rat[d.rs1] /\ e.src2 = rat[d.rs2]
      /\ e.dest = NewDest(d) /\ e.ckpt = NewCkpt(d)
      /\ d.rd # None => e.stale = rat[d.rd]
  BY <1>1, RenameAppends DEF TypeOK
<1>3. /\ d.rs1 \in Arch /\ d.rs2 \in Arch /\ d.rd \in (Arch \ {0}) \cup {None}
      /\ NewDest(d) = None <=> d.rd = None
      /\ NewCkpt(d) \in Ckpt \cup {None} /\ (NewCkpt(d) = None <=> ~d.branch)
  BY <1>1, RenameTakes DEF AllInsts
<1> HIDE DEF n, e
<1>4. \A a \in Arch : Names(archRat, rob, n, a, rat[a])
  BY <1>1, OrderByEntry DEF n
<1>5. \A a \in Arch : Names(archRat, rob', n, a, rat[a])
  <2>1. \A j \in 1 .. n : rob'[j].rd = rob[j].rd /\ rob'[j].dest = rob[j].dest
    BY <1>2
  <2> QED
    BY <1>2, <1>4, <2>1, NamesPrefix
<1>6. \A a \in Arch : Names(archRat, rob', n + 1, a, rat'[a])
  <2> SUFFICES ASSUME NEW a \in Arch PROVE Names(archRat, rob', n + 1, a, rat'[a])
    OBVIOUS
  <2>1. rob'[n + 1].rd = d.rd /\ rob'[n + 1].dest = NewDest(d)
    BY <1>2 DEF e
  <2>2. CASE d.rd = a
    <3>1. rat'[a] = NewDest(d)
      BY <1>1, <1>3, <2>2 DEF TypeOK, Arch, None
    <3> QED
      BY <1>2, <2>1, <2>2, <3>1, NamesNext
  <2>3. CASE d.rd # a
    <3>1. rat'[a] = rat[a]
      BY <1>1, <1>3, <2>3 DEF TypeOK
    <3> QED
      BY <1>2, <1>5, <2>1, <2>3, <3>1, NamesNext
  <2> QED
    BY <2>2, <2>3
<1>7. EntryOrder(archRat, rob', n + 1, ckptRat')
  <2>1. (n + 1) - 1 = n
    BY <1>2
  <2>2. d.branch => ckptRat'[e.ckpt] = rat'
    BY <1>1, <1>2, <1>3 DEF TypeOK
  <2> QED
    BY <1>2, <1>3, <1>5, <1>6, <2>1, <2>2 DEF EntryOrder, e
<1>8. ASSUME NEW i \in 1 .. n
      PROVE  EntryOrder(archRat, rob', i, ckptRat')
  <2>1. EntryOrder(archRat, rob, i, ckptRat) /\ i \in Nat /\ i >= 1
    BY <1>1, <1>2, OrderByEntry DEF n
  <2>2. \A j \in 1 .. i : Same(rob[j], rob'[j])
    BY <1>2 DEF Same
  <2>3. ASSUME rob[i].branch
        PROVE  ckptRat'[rob[i].ckpt] = ckptRat[rob[i].ckpt]
    <3>1. CkptIn(rob, rob[i].ckpt)
      BY DEF CkptIn, n
    <3>2. d.branch => Listed(ckptFree, NewCkpt(d)) /\ NewCkpt(d) \in Ckpt
      BY <1>1, <1>3, PoolTakes DEF TypeOK, OneHolder
    <3>3. d.branch => rob[i].ckpt # NewCkpt(d)
      BY <1>1, <3>1, <3>2 DEF OneHolder
    <3>4. d.branch => ckptRat' = [ckptRat EXCEPT ![NewCkpt(d)] = rat']
      BY <1>1
    <3>5. ckptRat \in [Ckpt -> [Arch -> Phys]]
      BY <1>1 DEF TypeOK
    <3>6. rob[i].ckpt \in Ckpt
      <4>1. EntryShape(rob[i]) /\ rob[i] \in Entry
        BY DEF Inv, Shape, TypeOK, n
      <4> QED
        BY <2>3, <4>1 DEF EntryShape, Entry
    <3> QED
      BY <1>1, <3>3, <3>4, <3>5, <3>6
  <2> QED
    BY <2>1, <2>2, <2>3, EntryOrderPrefix
<1> QED
  <2>1. \A i \in 1 .. n + 1 : EntryOrder(archRat, rob', i, ckptRat')
    BY <1>2, <1>7, <1>8
  <2> QED
    BY <1>1, <1>2, <1>6, <2>1, OrderByEntryPrime

\* issue() and complete() change no mapping and no tag.
LEMMA MovedOrder ==
  ASSUME Inv, NEW i \in 1 .. Len(rob), NEW st \in {"issued", "complete"},
         Moved(i, st),
         UNCHANGED <<rat, archRat, ckptRat, mode>>
  PROVE  ProgramOrder'
<1>1. TypeOK /\ ProgramOrder
  BY DEF Inv, ProgramOrder
<1>2. /\ Len(rob') = Len(rob) /\ Len(rob) \in Nat
      /\ \A j \in 1 .. Len(rob) : Same(rob[j], rob'[j])
  <2>1. Len(rob) \in Nat
    BY <1>1 DEF TypeOK
  <2>2. Len(rob') = Len(rob) /\ \A j \in 1 .. Len(rob) : Same(rob[j], rob'[j])
    BY <1>1, MovedFacts
  <2> QED
    BY <2>1, <2>2
<1>3. \A a, p : Names(archRat, rob, Len(rob), a, p) => Names(archRat, rob', Len(rob), a, p)
  <2>1. \A j \in 1 .. Len(rob) : rob'[j].rd = rob[j].rd /\ rob'[j].dest = rob[j].dest
    BY <1>2 DEF Same
  <2> QED
    BY <1>2, <2>1, NamesPrefix
<1>4. ASSUME NEW j \in 1 .. Len(rob)
      PROVE  EntryOrder(archRat, rob', j, ckptRat)
  <2>1. EntryOrder(archRat, rob, j, ckptRat) /\ j \in Nat /\ j >= 1
    BY <1>1, OrderByEntry
  <2>2. \A k \in 1 .. j : Same(rob[k], rob'[k])
    BY <1>2
  <2> QED
    BY <2>1, <2>2, EntryOrderPrefix
<1> QED
  BY <1>1, <1>2, <1>3, <1>4, OrderByEntry, OrderByEntryPrime

\* recover() keeps the entries up to the branch as they were.
LEMMA RecoverOrder ==
  ASSUME Inv, Recover
  PROVE  ProgramOrder'
<1>1. /\ TypeOK /\ ProgramOrder /\ mode' = "recover"
      /\ archRat' = archRat /\ ckptRat' = ckptRat
      /\ offender \in 1 .. Len(rob) /\ rob \in Seq(Entry) /\ offender \in 0 .. Len(rob)
  BY DEF Inv, ProgramOrder, Recover, TypeOK
<1>2. /\ Len(rob') = offender
      /\ \A i \in 1 .. offender : rob'[i] = rob[i]
  BY <1>1, PrefixFacts DEF Recover
<1>3. ASSUME NEW j \in 1 .. Len(rob')
      PROVE  EntryOrder(archRat, rob', j, ckptRat)
  <2>1. j \in 1 .. Len(rob) /\ j \in Nat /\ j >= 1
    BY <1>1, <1>2
  <2>2. EntryOrder(archRat, rob, j, ckptRat)
    BY <1>1, <2>1, OrderByEntry
  <2>3. \A k \in 1 .. j : Same(rob[k], rob'[k])
    BY <1>1, <1>2 DEF Same
  <2> QED
    BY <2>1, <2>2, <2>3, EntryOrderPrefix
<1> QED
  BY <1>1, <1>3, OrderByEntryPrime

\* The checkpoint recover() adopts is the mapping right after the branch, the
\* youngest entry left.
LEMMA RestoreOrder ==
  ASSUME Inv, Restore
  PROVE  ProgramOrder'
<1>1. /\ TypeOK /\ Shape /\ ProgramOrder /\ mode = "recover" /\ mode' = "run"
      /\ rob' = rob /\ archRat' = archRat /\ ckptRat' = ckptRat
      /\ rat' = ckptRat[rob[Len(rob)].ckpt]
  BY DEF Inv, ProgramOrder, Restore
<1>2. rob \in Seq(Entry) /\ rob # <<>> /\ rob[Len(rob)].branch /\ Len(rob) \in 1 .. Len(rob)
  BY <1>1 DEF TypeOK, Shape
<1>3. \A a \in Arch : Names(archRat, rob, Len(rob), a, rat'[a])
  BY <1>1, <1>2, OrderByEntry DEF EntryOrder
<1> QED
  BY <1>1, <1>3, OrderByEntry, OrderByEntryPrime

\* commit() moves the oldest entry's destination into the committed mapping,
\* and every younger entry still reads as it did.
LEMMA CommitOrder ==
  ASSUME Inv, Commit
  PROVE  ProgramOrder'
<1>1. /\ TypeOK /\ Shape /\ ProgramOrder /\ mode = "run"
      /\ rat' = rat /\ ckptRat' = ckptRat /\ EntryShape(rob[1])
      /\ Len(rob) \in Nat /\ Len(rob) >= 1 /\ Head(rob) = rob[1]
      /\ archRat \in [Arch -> Phys]
  BY CommitFacts DEF Inv, ProgramOrder, Commit, TypeOK
<1>2. /\ rob[1].dest = None <=> rob[1].rd = None
      /\ archRat' = Committed(archRat, rob[1])
  BY <1>1 DEF Commit, EntryShape, Committed
<1>3. CASE mode' = "halt"
  <2>1. rob' = <<>>
    BY <1>1, <1>3, CommitFacts
  <2> QED
    BY <1>3, <2>1, OrderByEntryPrime
<1>4. CASE mode' = "run"
  <2>1. /\ Len(rob') = Len(rob) - 1
        /\ \A i \in 1 .. Len(rob) - 1 : rob'[i] = rob[i + 1]
    BY <1>1, <1>4, CommitFacts
  <2>2. ASSUME NEW k \in 0 .. Len(rob')
        PROVE  \A a \in Arch : \A p : Names(archRat, rob, k + 1, a, p) => Names(archRat', rob', k, a, p)
    <3>1. k \in Nat /\ \A j \in 1 .. k : rob'[j] = rob[j + 1]
      BY <1>1, <2>1
    <3> QED
      BY <1>1, <1>2, <3>1, NamesCommit
  <2>3. \A a \in Arch : Names(archRat', rob', Len(rob'), a, rat'[a])
    <3>1. \A a \in Arch : Names(archRat, rob, Len(rob') + 1, a, rat[a])
      BY <1>1, <2>1, OrderByEntry
    <3>2. Len(rob') \in 0 .. Len(rob')
      BY <1>1, <2>1
    <3> QED
      BY <1>1, <2>2, <3>1, <3>2
  <2>4. ASSUME NEW i \in 1 .. Len(rob')
        PROVE  EntryOrder(archRat', rob', i, ckptRat')
    <3>1. /\ i + 1 \in 1 .. Len(rob) /\ rob'[i] = rob[i + 1] /\ (i + 1) - 1 = i
          /\ i \in 0 .. Len(rob') /\ i - 1 \in 0 .. Len(rob') /\ (i - 1) + 1 = i
      BY <1>1, <2>1
    <3>2. EntryOrder(archRat, rob, i + 1, ckptRat)
      BY <1>1, <3>1, OrderByEntry
    <3>3. rob[i + 1] \in Entry
      BY <1>1, <3>1 DEF TypeOK
    <3>4. /\ rob[i + 1].rs1 \in Arch /\ rob[i + 1].rs2 \in Arch
          /\ rob[i + 1].rd # None => rob[i + 1].rd \in Arch
      BY <3>3 DEF Entry
    <3>5. /\ \A a \in Arch : \A p : Names(archRat, rob, i, a, p) => Names(archRat', rob', i - 1, a, p)
          /\ \A a \in Arch : \A p : Names(archRat, rob, i + 1, a, p) => Names(archRat', rob', i, a, p)
      BY <2>2, <3>1
    <3> QED
      BY <1>1, <3>1, <3>2, <3>4, <3>5 DEF EntryOrder
  <2> QED
    BY <1>4, <2>3, <2>4, OrderByEntryPrime
<1> QED
  BY <1>3, <1>4, CommitFacts, <1>1

\* At the end of a run nothing is in flight and the committed mapping is
\* adopted.
LEMMA DrainedOrder ==
  ASSUME Inv, Drained
  PROVE  ProgramOrder'
<1>1. rob' = <<>> /\ mode' = "done" /\ rat' = archRat'
  BY DEF Inv, Shape, Drained
<1> QED
  BY <1>1, OrderByEntryPrime

-----------------------------------------------------------------------------
(* The theorem. *)

\* At reset every architectural register is its own physical register, and
\* every other one is free.
LEMMA InitInv == Init => Inv
<1> SUFFICES ASSUME Init PROVE Inv
  OBVIOUS
<1>1. TypeOK /\ Shape
  BY InitType
<1>2. /\ rob = <<>> /\ killed = <<>> /\ mode = "run" /\ rat = archRat
      /\ free = [k \in 1 .. PrfSize - NumArch |-> NumArch + k - 1]
      /\ ckptFree = [k \in 1 .. NumCkpt |-> k - 1]
      /\ archRat = [a \in Arch |-> a]
  BY DEF Init
<1>3. /\ \A x : ~DestIn(<<>>, x) /\ ~CkptIn(<<>>, x)
      /\ DestsDistinct(<<>>) /\ CkptsDistinct(<<>>)
  BY DEF DestIn, CkptIn, DestsDistinct, CkptsDistinct
<1>4. /\ Len(free) = PrfSize - NumArch
      /\ \A k \in 1 .. PrfSize - NumArch : free[k] = NumArch + k - 1
      /\ DOMAIN free = 1 .. PrfSize - NumArch
      /\ NumArch \in Nat /\ PrfSize \in Nat /\ PrfSize >= NumArch
  BY <1>2, RenamingAssumption
<1>5. OneOwner
  <2>1. Injective(free) /\ Injective(archRat)
    BY <1>2, <1>4 DEF Injective, Arch
  <2>2. \A p \in Phys : InArch(p) <=> p < NumArch
    BY <1>2, <1>4 DEF InArch, Arch, Phys
  <2>3. \A p \in Phys : InFree(p) <=> p >= NumArch
    <3> SUFFICES ASSUME NEW p \in Phys PROVE InFree(p) <=> p >= NumArch
      OBVIOUS
    <3>1. p \in Nat /\ p < PrfSize
      BY <1>4 DEF Phys
    <3>2. ASSUME p >= NumArch PROVE InFree(p)
      <4>1. p - NumArch + 1 \in 1 .. PrfSize - NumArch /\ NumArch + (p - NumArch + 1) - 1 = p
        BY <1>4, <3>1, <3>2
      <4>2. free[p - NumArch + 1] = p
        BY <1>4, <4>1
      <4> QED
        BY <1>4, <4>1, <4>2 DEF InFree, Listed
    <3>3. ASSUME InFree(p) PROVE p >= NumArch
      BY <1>4, <3>1, <3>3 DEF InFree, Listed
    <3> QED
      BY <3>2, <3>3
  <2>4. \A p \in Phys : ~(InFree(p) /\ InArch(p)) /\ (InFree(p) \/ InArch(p))
    BY <1>4, <2>2, <2>3 DEF Phys
  <2> QED
    BY <1>2, <1>3, <2>1, <2>4 DEF OneOwner
<1>6. OneHolder
  <2>1. /\ Len(ckptFree) = NumCkpt /\ DOMAIN ckptFree = 1 .. NumCkpt /\ NumCkpt \in Nat
        /\ \A k \in 1 .. NumCkpt : ckptFree[k] = k - 1
    BY <1>2, RenamingAssumption
  <2>2. Injective(ckptFree)
    BY <2>1 DEF Injective
  <2>3. ASSUME NEW c \in Ckpt PROVE Listed(ckptFree, c)
    <3>1. c + 1 \in 1 .. NumCkpt /\ (c + 1) - 1 = c
      BY <2>1 DEF Ckpt
    <3> QED
      BY <2>1, <3>1 DEF Listed
  <2> QED
    BY <1>2, <1>3, <2>2, <2>3 DEF OneHolder
<1>7. ProgramOrder
  <2>1. \A a \in Arch : Names(archRat, rob, Len(rob), a, rat[a])
    BY <1>2 DEF Names
  <2> QED
    BY <1>2, <2>1, OrderByEntry
<1> QED
  BY <1>1, <1>5, <1>6, <1>7 DEF Inv, ProgramOrder

\* Every action preserves the invariant.
LEMMA NextInv == Inv /\ [Next]_vars => Inv'
<1> SUFFICES ASSUME Inv, [Next]_vars
             PROVE  TypeOK' /\ Shape' /\ OneOwner' /\ OneHolder' /\ ProgramOrder'
  BY DEF Inv, ProgramOrder
<1>0. TypeOK /\ Shape
  BY DEF Inv
<1>1. ASSUME NEW d \in Insts, Rename(d)
      PROVE  TypeOK' /\ Shape' /\ OneOwner' /\ OneHolder' /\ ProgramOrder'
  BY <1>0, <1>1, RenameType, RenameOwner, RenameHolder, RenameOrder
<1>2. ASSUME NEW i \in 1 .. Len(rob), NEW m \in BOOLEAN, Issue(i, m)
      PROVE  TypeOK' /\ Shape' /\ OneOwner' /\ OneHolder' /\ ProgramOrder'
  <2>1. /\ Moved(i, "issued")
        /\ UNCHANGED <<free, rat, archRat, ckptFree, ckptRat, killed, mode>>
    BY <1>2 DEF Issue, Moved
  <2> QED
    BY <1>0, <1>2, <2>1, IssueType, MovedOwner, MovedOrder
<1>3. ASSUME NEW i \in 1 .. Len(rob), Complete(i)
      PROVE  TypeOK' /\ Shape' /\ OneOwner' /\ OneHolder' /\ ProgramOrder'
  <2>1. /\ Moved(i, "complete")
        /\ UNCHANGED <<free, rat, archRat, ckptFree, ckptRat, killed, mode>>
    BY <1>3 DEF Complete, Moved
  <2> QED
    BY <1>0, <1>3, <2>1, CompleteType, MovedOwner, MovedOrder
<1>4. CASE Commit
  BY <1>0, <1>4, CommitType, CommitOwner, CommitOrder
<1>5. CASE Recover
  BY <1>0, <1>5, RecoverType, RecoverOwner, RecoverOrder
<1>6. CASE Reclaim
  <2>1. ProgramOrder'
    <3>1. ProgramOrder /\ UNCHANGED <<rat, archRat, ckptRat, rob, mode>>
      BY <1>6 DEF Inv, ProgramOrder, Reclaim
    <3> QED
      BY <3>1, OrderByEntry, OrderByEntryPrime
  <2> QED
    BY <1>0, <1>6, <2>1, ReclaimType, ReclaimOwner
<1>7. CASE Restore
  <2>1. OneOwner' /\ OneHolder'
    BY <1>7 DEF Inv, Restore, OneOwner, OneHolder, InFree, InArch
  <2> QED
    BY <1>0, <1>7, <2>1, RestoreType, RestoreOrder
<1>8. CASE Drained
  <2>1. OneOwner' /\ OneHolder'
    BY <1>8 DEF Inv, Drained, OneOwner, OneHolder, InFree, InArch
  <2> QED
    BY <1>0, <1>8, <2>1, DrainedType, DrainedOrder
<1>9. CASE UNCHANGED vars
  <2>1. OneOwner' /\ OneHolder'
    BY <1>9 DEF Inv, vars, OneOwner, OneHolder, InFree, InArch
  <2>2. ProgramOrder'
    <3>1. ProgramOrder /\ UNCHANGED <<rat, archRat, ckptRat, rob, mode>>
      BY <1>9 DEF Inv, ProgramOrder, vars
    <3> QED
      BY <3>1, OrderByEntry, OrderByEntryPrime
  <2> QED
    BY <1>0, <1>9, <2>1, <2>2, StutterType
<1> QED
  BY <1>1, <1>2, <1>3, <1>4, <1>5, <1>6, <1>7, <1>8, <1>9 DEF Next, Advance

\* The invariant of every run of rename(), issue(), commit() and the squashes.
LEMMA InvHolds == Spec => []Inv
  BY InitInv, NextInv, PTL DEF Spec

(***************************************************************************)
(* No physical register and no checkpoint ever leaks or has two owners,    *)
(* for every size of every structure: renames, commits, recoveries and the *)
(* squash behind a halt only move them between the free list, the          *)
(* committed mapping, the instructions in flight and the squashed ones.    *)
(***************************************************************************)
THEOREM Conservation == Spec => [](OneOwner /\ OneHolder)
<1>1. Inv => OneOwner /\ OneHolder
  BY DEF Inv
<1> QED
  BY <1>1, InvHolds, PTL

(***************************************************************************)
(* The mapping, the displaced registers, the source tags and the           *)
(* checkpoints always read as program order, however issue, completion and *)
(* recovery interleave: a recovery leaves exactly the mapping after the    *)
(* branch, and the end of a run exactly the committed one.                 *)
(***************************************************************************)
THEOREM PreciseMapping ==
  Spec => [](RatIsProgramOrder /\ StaleIsPredecessor /\ SourcesAreProgramOrder /\ CheckpointsAreExact)
<1>1. Inv => RatIsProgramOrder /\ StaleIsPredecessor /\ SourcesAreProgramOrder /\ CheckpointsAreExact
  BY DEF Inv
<1> QED
  BY <1>1, InvHolds, PTL

-----------------------------------------------------------------------------
(* Consequences: no register is reused early, none is waited for in vain.  *)

\* What a source tag names is committed, or the destination of an older
\* instruction in flight.
LEMMA SourceOwner ==
  ASSUME Inv, NEW i \in 1 .. Len(rob), NEW p \in {rob[i].src1, rob[i].src2}
  PROVE  p \in Phys /\ (InArch(p) \/ \E j \in 1 .. i - 1 : rob[j].dest = p)
<1>1. TypeOK /\ SourcesAreProgramOrder
  BY DEF Inv
<1>2. rob[i] \in Entry
  BY <1>1 DEF TypeOK
<1>3. /\ rob[i].rs1 \in Arch /\ rob[i].rs2 \in Arch
      /\ rob[i].src1 \in Phys /\ rob[i].src2 \in Phys
  BY <1>2 DEF Entry
<1>4. PICK a \in Arch : MapsTo(i - 1, a, p)
  BY <1>1, <1>3 DEF SourcesAreProgramOrder
<1> QED
  BY <1>3, <1>4 DEF MapsTo, InArch

\* An instruction's sources are not free, not about to be, and not the
\* destination of itself or of anything younger.
LEMMA SourcesHeld ==
  ASSUME Inv, NEW i \in 1 .. Len(rob), NEW p \in {rob[i].src1, rob[i].src2}
  PROVE  /\ ~InFree(p) /\ ~DestIn(killed, p)
         /\ \A j \in i .. Len(rob) : rob[j].dest # p
<1>1. OneOwner /\ p \in Phys /\ p # None /\ Len(rob) \in Nat
  BY SourceOwner DEF Inv, TypeOK, Phys, None
<1>2. CASE InArch(p)
  <2>1. ~InFree(p) /\ ~DestIn(killed, p) /\ ~DestIn(rob, p)
    BY <1>1, <1>2 DEF OneOwner
  <2>2. \A j \in i .. Len(rob) : j \in 1 .. Len(rob)
    BY <1>1
  <2> QED
    BY <2>1, <2>2 DEF DestIn
<1>3. ASSUME NEW j \in 1 .. i - 1, rob[j].dest = p
      PROVE  /\ ~InFree(p) /\ ~DestIn(killed, p)
             /\ \A k \in i .. Len(rob) : rob[k].dest # p
  <2>1. j \in 1 .. Len(rob) /\ \A k \in i .. Len(rob) : k \in 1 .. Len(rob) /\ k # j
    BY <1>1
  <2>2. DestIn(rob, p)
    BY <1>3, <2>1 DEF DestIn
  <2> QED
    BY <1>1, <1>3, <2>1, <2>2 DEF OneOwner, DestsDistinct
<1> QED
  BY <1>2, <1>3, SourceOwner

\* So it is for those that still have to read them.
LEMMA NoReuse == Inv => NoEarlyReuse
  BY SourcesHeld DEF NoEarlyReuse

(***************************************************************************)
(* A physical register that an instruction in flight still reads is never  *)
(* on the free list, never about to be put there by a squash, and never    *)
(* the destination of the reader or of anything younger.                   *)
(***************************************************************************)
THEOREM SourcesStayAlive == Spec => []NoEarlyReuse
  BY NoReuse, InvHolds, PTL

\* What makes a ready bit trustworthy: a committed register and a completed
\* destination are always ready.
ReadyBits ==
  /\ \A a \in Arch : ready[archRat[a]]
  /\ \A i \in 1 .. Len(rob) :
       rob[i].state = "complete" /\ rob[i].dest # None => ready[rob[i].dest]

\* A register that is not ready is some entry's destination, not yet written.
LEMMA PendingFromBits == Inv /\ ReadyBits => PendingIsOwed
<1> SUFFICES ASSUME Inv, ReadyBits PROVE PendingIsOwed
  OBVIOUS
<1>1. ASSUME NEW i \in 1 .. Len(rob), NEW p \in {rob[i].src1, rob[i].src2}, ~ready[p]
      PROVE  \E j \in 1 .. i - 1 : rob[j].dest = p /\ rob[j].state # "complete"
  <2>1. ~InArch(p)
    BY <1>1 DEF ReadyBits, InArch
  <2>2. PICK j \in 1 .. i - 1 : rob[j].dest = p
    BY <2>1, SourceOwner
  <2>3. j \in 1 .. Len(rob) /\ p # None
    <3>1. Len(rob) \in Nat /\ p \in Phys
      BY SourceOwner DEF Inv, TypeOK
    <3> QED
      BY <3>1 DEF Phys, None
  <2> QED
    BY <1>1, <2>2, <2>3 DEF ReadyBits
<1> QED
  BY <1>1 DEF PendingIsOwed, ReadyBits

\* The destinations rename() hands out are registers.
LEMMA DestIsPhys ==
  ASSUME TypeOK, NEW i \in 1 .. Len(rob), rob[i].dest # None
  PROVE  rob[i].dest \in Phys
<1>1. rob[i] \in Entry
  BY DEF TypeOK
<1> QED
  BY <1>1 DEF Entry

\* The bit rename() clears belongs to no committed register and to no entry
\* in flight, and commit() makes architectural only what has been written.
LEMMA BitsNext ==
  ASSUME Inv, Inv', ReadyBits, [Next]_vars
  PROVE  ReadyBits'
<1>0. TypeOK /\ Shape /\ OneOwner
  BY DEF Inv
<1>1. ASSUME NEW d \in Insts, Rename(d) PROVE ReadyBits'
  <2> DEFINE dest == NewDest(d)
  <2>1. /\ Len(rob') = Len(rob) + 1 /\ Len(rob) \in Nat
        /\ \A i \in 1 .. Len(rob) : rob'[i] = rob[i]
        /\ rob'[Len(rob) + 1].state = "waiting"
    BY <1>0, <1>1, RenameAppends DEF TypeOK
  <2>2. /\ archRat' = archRat
        /\ ready' = IF d.rd # None THEN [ready EXCEPT ![dest] = FALSE] ELSE ready
        /\ d.rd # None => dest = Head(free) /\ free # <<>>
    BY <1>1 DEF Rename, NewDest
  <2>3. d.rd # None => dest \in Phys /\ InFree(dest)
    BY <1>0, <2>2, PoolTakes, TailFacts DEF OneOwner, TypeOK, InFree
  <2> HIDE DEF dest
  <2>4. d.rd # None => ~InArch(dest) /\ ~DestIn(rob, dest)
    BY <1>0, <2>3 DEF OneOwner
  <2>5. \A a \in Arch : ready'[archRat'[a]]
    BY <1>0, <2>2, <2>4 DEF ReadyBits, InArch, TypeOK
  <2>6. ASSUME NEW i \in 1 .. Len(rob), rob[i].state = "complete", rob[i].dest # None
        PROVE  ready'[rob[i].dest]
    <3>1. rob[i].dest \in Phys
      BY <1>0, <2>6, DestIsPhys
    <3>2. ready[rob[i].dest] /\ (d.rd # None => rob[i].dest # dest)
      BY <2>4, <2>6 DEF ReadyBits, DestIn
    <3> QED
      BY <1>0, <2>2, <3>1, <3>2 DEF TypeOK
  <2> QED
    BY <2>1, <2>5, <2>6 DEF ReadyBits
<1>2. ASSUME NEW i \in 1 .. Len(rob), NEW m \in BOOLEAN, Issue(i, m) PROVE ReadyBits'
  <2>1. Moved(i, "issued") /\ ready' = ready /\ archRat' = archRat
    BY <1>2 DEF Issue, Moved
  <2>2. /\ Len(rob') = Len(rob)
        /\ rob'[i].state = "issued"
        /\ \A j \in 1 .. Len(rob) : j # i => rob'[j] = rob[j]
    BY <1>0, <2>1, MovedFacts
  <2> QED
    BY <2>1, <2>2 DEF ReadyBits
<1>3. ASSUME NEW i \in 1 .. Len(rob), Complete(i) PROVE ReadyBits'
  <2>1. Moved(i, "complete") /\ ready' = Written(rob[i]) /\ archRat' = archRat
    BY <1>3 DEF Complete, Moved
  <2>2. /\ Len(rob') = Len(rob)
        /\ \A j \in 1 .. Len(rob) : Same(rob[j], rob'[j])
        /\ \A j \in 1 .. Len(rob) : j # i => rob'[j] = rob[j]
    BY <1>0, <2>1, MovedFacts
  <2>3. \A p \in Phys : ready[p] => ready'[p]
    BY <1>0, <2>1 DEF Written, TypeOK
  <2>4. rob[i].dest # None => ready'[rob[i].dest]
    <3>1. rob[i].dest # None => rob[i].dest \in Phys
      BY <1>0, DestIsPhys
    <3> QED
      BY <1>0, <2>1, <3>1 DEF Written, TypeOK
  <2>5. \A a \in Arch : ready'[archRat'[a]]
    BY <1>0, <2>1, <2>3 DEF ReadyBits, TypeOK
  <2>6. ASSUME NEW j \in 1 .. Len(rob'), rob'[j].state = "complete", rob'[j].dest # None
        PROVE  ready'[rob'[j].dest]
    <3>1. CASE j = i
      BY <2>2, <2>4, <2>6, <3>1 DEF Same
    <3>2. CASE j # i
      <4>1. rob'[j] = rob[j] /\ rob[j].dest \in Phys
        BY <1>0, <2>2, <2>6, <3>2, DestIsPhys
      <4> QED
        BY <2>2, <2>3, <2>6, <4>1 DEF ReadyBits
    <3> QED
      BY <3>1, <3>2
  <2> QED
    BY <2>5, <2>6 DEF ReadyBits
<1>4. CASE Commit
  <2>1. /\ ready' = ready
        /\ Len(rob) >= 1 /\ Len(rob) \in Nat /\ 1 \in 1 .. Len(rob)
        /\ Head(rob) = rob[1] /\ rob[1].state = "complete"
        /\ \/ rob' = <<>>
           \/ /\ Len(rob') = Len(rob) - 1
              /\ \A i \in 1 .. Len(rob) - 1 : rob'[i] = rob[i + 1]
    BY <1>0, <1>4, CommitFacts DEF Commit
  <2>2. archRat' = Committed(archRat, rob[1])
    BY <1>4, <2>1 DEF Commit, Committed
  <2>3. rob[1].dest # None => rob[1].rd \in Arch /\ ready[rob[1].dest]
    BY <1>4, <2>1, StaleIsCommitted DEF ReadyBits
  <2>4. \A a \in Arch : ready[archRat'[a]]
    BY <1>0, <2>2, <2>3 DEF ReadyBits, Committed, TypeOK
  <2>5. \A i \in 1 .. Len(rob') : \E j \in 1 .. Len(rob) : rob'[i] = rob[j]
    BY <2>1
  <2> QED
    BY <2>1, <2>4, <2>5 DEF ReadyBits
<1>5. CASE Recover
  <2>1. /\ ready' = ready /\ archRat' = archRat
        /\ offender \in 1 .. Len(rob) /\ offender \in 0 .. Len(rob) /\ rob \in Seq(Entry)
    BY <1>0, <1>5 DEF Recover, TypeOK
  <2>2. Len(rob') = offender /\ \A i \in 1 .. offender : rob'[i] = rob[i]
    BY <1>5, <2>1, PrefixFacts DEF Recover
  <2> QED
    BY <2>1, <2>2 DEF ReadyBits
<1>6. CASE Reclaim \/ Restore \/ Drained \/ UNCHANGED vars
  BY <1>6 DEF Reclaim, Restore, Drained, vars, ReadyBits
<1> QED
  BY <1>1, <1>2, <1>3, <1>4, <1>5, <1>6 DEF Next, Advance

(***************************************************************************)
(* No instruction waits for a tag that will not be broadcast: whatever is  *)
(* not ready is the destination of an older instruction in flight that has *)
(* yet to complete, and what is committed is always ready.                 *)
(***************************************************************************)
THEOREM NoLostProducer == Spec => []PendingIsOwed
<1>1. Init => ReadyBits
  BY RenamingAssumption DEF Init, ReadyBits, Arch, Phys
<1>2. Inv /\ Inv' /\ ReadyBits /\ [Next]_vars => ReadyBits'
  BY BitsNext
<1> QED
  BY <1>1, <1>2, PendingFromBits, InvHolds, PTL DEF Spec

-----------------------------------------------------------------------------
(* Values stay where their readers look for them. *)

\* The sources of what has started are ready for good, and the destination of
\* what has not completed is not ready: complete() never writes to a register
\* that somebody has read already.
Settled ==
  \A i \in 1 .. Len(rob) :
    /\ rob[i].state # "waiting" => ready[rob[i].src1] /\ ready[rob[i].src2]
    /\ rob[i].state # "complete" /\ rob[i].dest # None => ~ready[rob[i].dest]

\* The bit that rename() clears is no operand of an entry in flight.
LEMMA RenameSettled ==
  ASSUME Inv, Settled, NEW d \in Insts, Rename(d)
  PROVE  Settled'
<1> DEFINE dest == NewDest(d)
           n    == Len(rob)
<1>0. TypeOK /\ OneOwner /\ n \in Nat
  BY DEF Inv, TypeOK
<1>1. /\ Len(rob') = n + 1
      /\ \A i \in 1 .. n : rob'[i] = rob[i]
      /\ rob'[n + 1].state = "waiting" /\ rob'[n + 1].dest = dest
  BY <1>0, RenameAppends DEF Rename, Renamed
<1>2. /\ ready' = IF d.rd # None THEN [ready EXCEPT ![dest] = FALSE] ELSE ready
      /\ d.rd # None => dest = Head(free) /\ free # <<>>
      /\ d.rd = None => dest = None
  BY DEF Rename, NewDest
<1>3. d.rd # None => dest \in Phys /\ InFree(dest)
  BY <1>0, <1>2, PoolTakes, TailFacts DEF OneOwner, TypeOK, InFree
<1> HIDE DEF dest, n
<1>4. d.rd # None => ~DestIn(rob, dest)
  BY <1>0, <1>3 DEF OneOwner
<1>5. \A p \in Phys : ready'[p] => ready[p]
  BY <1>0, <1>2, <1>3 DEF TypeOK
<1>6. \A p \in Phys : ready[p] /\ ~InFree(p) => ready'[p]
  BY <1>0, <1>2, <1>3 DEF TypeOK
<1>7. ASSUME NEW i \in 1 .. n
      PROVE  /\ rob'[i].state # "waiting" => ready'[rob'[i].src1] /\ ready'[rob'[i].src2]
             /\ rob'[i].state # "complete" /\ rob'[i].dest # None => ~ready'[rob'[i].dest]
  <2>1. /\ rob[i].src1 \in Phys /\ ~InFree(rob[i].src1)
        /\ rob[i].src2 \in Phys /\ ~InFree(rob[i].src2)
    BY SourceOwner, SourcesHeld DEF n
  <2>2. rob[i].dest # None => rob[i].dest \in Phys
    BY <1>0, DestIsPhys DEF n
  <2> QED
    BY <1>1, <1>5, <1>6, <2>1, <2>2 DEF Settled, n
<1>8. rob'[n + 1].dest # None => ~ready'[rob'[n + 1].dest]
  BY <1>0, <1>1, <1>2, <1>3 DEF TypeOK
<1>9. \A i \in 1 .. n + 1 : i \in 1 .. n \/ i = n + 1
  BY <1>0
<1> QED
  BY <1>1, <1>7, <1>8, <1>9 DEF Settled

\* complete() sets the bit of one entry's destination, which is nobody else's.
LEMMA CompleteSettled ==
  ASSUME Inv, Settled, NEW i \in 1 .. Len(rob), Complete(i)
  PROVE  Settled'
<1>0. TypeOK /\ OneOwner
  BY DEF Inv
<1>1. Moved(i, "complete") /\ ready' = Written(rob[i]) /\ rob[i].state = "issued"
  BY DEF Complete, Moved
<1>2. /\ Len(rob') = Len(rob) /\ rob'[i].state = "complete"
      /\ \A j \in 1 .. Len(rob) : Same(rob[j], rob'[j])
      /\ \A j \in 1 .. Len(rob) : j # i => rob'[j] = rob[j]
  BY <1>0, <1>1, MovedFacts
<1>3. \A p \in Phys : ready[p] => ready'[p]
  BY <1>0, <1>1 DEF Written, TypeOK
<1>4. \A p \in Phys : p # rob[i].dest => ready'[p] = ready[p]
  BY <1>0, <1>1 DEF Written, TypeOK
<1>5. ASSUME NEW j \in 1 .. Len(rob)
      PROVE  /\ rob'[j].state # "waiting" => ready'[rob'[j].src1] /\ ready'[rob'[j].src2]
             /\ rob'[j].state # "complete" /\ rob'[j].dest # None => ~ready'[rob'[j].dest]
  <2>1. rob[j].src1 \in Phys /\ rob[j].src2 \in Phys
    BY SourceOwner
  <2>2. rob[j].dest # None => rob[j].dest \in Phys
    BY <1>0, DestIsPhys
  <2>3. rob'[j].state # "waiting" => rob[j].state # "waiting"
    BY <1>1, <1>2
  <2>4. rob'[j].state # "waiting" => ready'[rob'[j].src1] /\ ready'[rob'[j].src2]
    BY <1>2, <1>3, <2>1, <2>3 DEF Same, Settled
  <2>5. ASSUME j # i, rob[j].dest # None PROVE rob[j].dest # rob[i].dest
    BY <1>0, <2>5 DEF OneOwner, DestsDistinct
  <2> QED
    BY <1>2, <1>4, <2>2, <2>4, <2>5 DEF Settled
<1> QED
  BY <1>2, <1>5 DEF Settled

\* The other steps set no ready bit.
LEMMA SettledNext ==
  ASSUME Inv, Settled, [Next]_vars
  PROVE  Settled'
<1>0. TypeOK
  BY DEF Inv
<1>1. ASSUME NEW i \in 1 .. Len(rob), NEW m \in BOOLEAN, Issue(i, m) PROVE Settled'
  <2>1. Moved(i, "issued") /\ ready' = ready /\ ready[rob[i].src1] /\ ready[rob[i].src2]
        /\ rob[i].state = "waiting"
    BY <1>1 DEF Issue, Moved
  <2>2. /\ Len(rob') = Len(rob) /\ rob'[i].state = "issued"
        /\ Same(rob[i], rob'[i])
        /\ \A j \in 1 .. Len(rob) : j # i => rob'[j] = rob[j]
    BY <1>0, <2>1, MovedFacts
  <2> QED
    BY <2>1, <2>2 DEF Settled, Same
<1>2. CASE Commit
  <2>1. /\ ready' = ready
        /\ Len(rob) >= 1 /\ Len(rob) \in Nat
        /\ \/ rob' = <<>>
           \/ /\ Len(rob') = Len(rob) - 1
              /\ \A i \in 1 .. Len(rob) - 1 : rob'[i] = rob[i + 1]
    BY <1>0, <1>2, CommitFacts DEF Commit
  <2>2. \A i \in 1 .. Len(rob') : \E j \in 1 .. Len(rob) : rob'[i] = rob[j]
    BY <2>1
  <2> QED
    BY <2>1, <2>2 DEF Settled
<1>3. CASE Recover
  <2>1. /\ ready' = ready
        /\ offender \in 1 .. Len(rob) /\ offender \in 0 .. Len(rob) /\ rob \in Seq(Entry)
    BY <1>0, <1>3 DEF Recover, TypeOK
  <2>2. Len(rob') = offender /\ \A i \in 1 .. offender : rob'[i] = rob[i]
    BY <1>3, <2>1, PrefixFacts DEF Recover
  <2> QED
    BY <2>1, <2>2 DEF Settled
<1>4. CASE Reclaim \/ Restore \/ Drained \/ UNCHANGED vars
  BY <1>4 DEF Reclaim, Restore, Drained, vars, Settled
<1> QED
  BY <1>1, <1>2, <1>3, <1>4, RenameSettled, CompleteSettled DEF Next, Advance

LEMMA SettledHolds == Spec => []Settled
<1>1. Init => Settled
  BY DEF Init, Settled
<1>2. Inv /\ Settled /\ [Next]_vars => Settled'
  BY SettledNext
<1> QED
  BY <1>1, <1>2, InvHolds, PTL DEF Spec

-----------------------------------------------------------------------------
(* The branch to recover. *)

\* issue() names a branch it has just issued, and nothing completes or commits
\* before recover() has cut the reorder buffer behind it.
Resolved ==
  /\ offender # 0 => rob[offender].state = "issued"
  /\ mode = "recover" => rob[Len(rob)].state = "issued"

LEMMA ResolvedNext ==
  ASSUME TypeOK, Shape, Resolved, [Next]_vars
  PROVE  Resolved'
<1>0. rob \in Seq(Entry) /\ Len(rob) \in Nat /\ offender \in 0 .. Len(rob)
  BY DEF TypeOK
<1>1. ASSUME NEW d \in Insts, Rename(d) PROVE Resolved'
  <2>1. offender' = 0 /\ mode' = "run"
    BY <1>1 DEF Rename, Running
  <2> QED
    BY <2>1 DEF Resolved
<1>2. ASSUME NEW i \in 1 .. Len(rob), NEW m \in BOOLEAN, Issue(i, m) PROVE Resolved'
  <2>1. /\ Moved(i, "issued") /\ mode' = "run"
        /\ offender' = IF m /\ (offender = 0 \/ i < offender) THEN i ELSE offender
    BY <1>2 DEF Issue, Moved
  <2>2. /\ rob'[i].state = "issued"
        /\ \A j \in 1 .. Len(rob) : j # i => rob'[j] = rob[j]
    BY <2>1, MovedFacts
  <2>3. offender' # 0 => rob'[offender'].state = "issued"
    BY <1>0, <2>1, <2>2 DEF Resolved
  <2> QED
    BY <2>1, <2>3 DEF Resolved
<1>3. ASSUME NEW i \in 1 .. Len(rob), Complete(i) PROVE Resolved'
  BY <1>3 DEF Complete, Running, Resolved
<1>4. CASE Commit
  BY <1>4 DEF Commit, Running, Resolved
<1>5. CASE Recover
  <2>1. rob' = SubSeq(rob, 1, offender) /\ offender' = 0 /\ offender \in 1 .. Len(rob)
    BY <1>0, <1>5 DEF Recover
  <2>2. Len(rob') = offender /\ rob'[offender] = rob[offender]
    BY <1>0, <2>1
  <2> QED
    BY <2>1, <2>2 DEF Resolved
<1>6. CASE Reclaim \/ Restore \/ Drained \/ UNCHANGED vars
  BY <1>6 DEF Reclaim, Restore, Drained, vars, Shape, Resolved
<1> QED
  BY <1>1, <1>2, <1>3, <1>4, <1>5, <1>6 DEF Next, Advance

LEMMA ResolvedHolds == Spec => []Resolved
<1>1. Init => Resolved
  BY DEF Init, Resolved
<1>2. TypeOK /\ Shape /\ Resolved /\ [Next]_vars => Resolved'
  BY ResolvedNext
<1> QED
  BY <1>1, <1>2, TypeCorrect, PTL DEF Spec

-----------------------------------------------------------------------------
(* The free list at its limit. *)

\* As many values as there are indices, at most.
LEMMA ImageBound ==
  ASSUME NEW m \in Int, NEW n \in Int, m <= n + 1, NEW f
  PROVE  LET T == {f[k] : k \in m .. n}
         IN IsFiniteSet(T) /\ Cardinality(T) <= n - m + 1
<1> DEFINE T == {f[k] : k \in m .. n}
           g == [k \in m .. n |-> f[k]]
<1>1. IsFiniteSet(m .. n) /\ Cardinality(m .. n) = n - m + 1
  BY FS_Interval
<1>2. g \in Surjection(m .. n, T)
  BY DEF Surjection
<1> QED
  BY <1>1, <1>2, FS_Surjection

\* With an empty free list and no squash under way, every register is
\* committed or in flight: there are at most NumArch + Len(rob) of them.
LEMMA EnoughRegisters == Inv => NeverStarved
<1> SUFFICES ASSUME Inv, Running, NumArch + Len(rob) < PrfSize, free = <<>>
             PROVE  FALSE
  BY DEF NeverStarved
<1> DEFINE A == {archRat[a] : a \in 0 .. NumArch - 1}
           D == {rob[i].dest : i \in 1 .. Len(rob)}
<1>0. /\ NumArch \in Nat /\ PrfSize \in Nat /\ RobSize \in Nat
      /\ Len(rob) \in Nat
      /\ killed = <<>>
  BY RenamingAssumption DEF Inv, TypeOK, Shape, Running
<1>1. \A p \in Phys : p \in A \cup D
  <2> SUFFICES ASSUME NEW p \in Phys PROVE p \in A \cup D
    OBVIOUS
  <2>1. ~InFree(p) /\ ~DestIn(killed, p)
    BY <1>0 DEF InFree, Listed, DestIn
  <2>2. InArch(p) \/ DestIn(rob, p)
    BY <2>1 DEF Inv, OneOwner
  <2> QED
    BY <2>2 DEF InArch, DestIn, Arch
<1>2. IsFiniteSet(A) /\ Cardinality(A) <= NumArch
  <2>1. 0 \in Int /\ NumArch - 1 \in Int /\ 0 <= (NumArch - 1) + 1
    BY <1>0
  <2>2. IsFiniteSet(A) /\ Cardinality(A) <= (NumArch - 1) - 0 + 1
    BY <2>1, ImageBound
  <2> QED
    BY <2>2, <1>0
<1>3. IsFiniteSet(D) /\ Cardinality(D) <= Len(rob)
  <2> DEFINE h == [i \in 1 .. Len(rob) |-> rob[i].dest]
  <2>1. 1 \in Int /\ Len(rob) \in Int /\ 1 <= Len(rob) + 1
    BY <1>0
  <2>2. D = {h[i] : i \in 1 .. Len(rob)}
    OBVIOUS
  <2> HIDE DEF h, D
  <2>3. IsFiniteSet(D) /\ Cardinality(D) <= Len(rob) - 1 + 1
    BY <2>1, <2>2, ImageBound
  <2> QED
    BY <2>3, <1>0
<1> HIDE DEF A, D
<1>4. /\ IsFiniteSet(A \cup D)
      /\ Cardinality(A \cup D) = Cardinality(A) + Cardinality(D) - Cardinality(A \cap D)
  BY <1>2, <1>3, FS_Union
<1>5. /\ Cardinality(A) \in Nat /\ Cardinality(D) \in Nat
      /\ Cardinality(A \cap D) \in Nat /\ Cardinality(A \cup D) \in Nat
  <2>1. IsFiniteSet(A \cap D)
    BY <1>2, FS_Subset
  <2> QED
    BY <2>1, <1>2, <1>3, <1>4, FS_CardinalityType
<1>6. Cardinality(Phys) = PrfSize /\ Cardinality(Phys) \in Nat
  <2>1. 0 \in Int /\ PrfSize - 1 \in Int
    BY <1>0
  <2>2. Cardinality(0 .. PrfSize - 1) = IF 0 > PrfSize - 1 THEN 0 ELSE (PrfSize - 1) - 0 + 1
    BY <2>1, FS_Interval
  <2> QED
    BY <2>2, <1>0 DEF Phys
<1>7. Cardinality(Phys) <= Cardinality(A \cup D)
  BY <1>1, <1>4, FS_Subset
<1> QED
  BY <1>0, <1>2, <1>3, <1>4, <1>5, <1>6, <1>7

(***************************************************************************)
(* rename() finds the free list empty only when as many instructions are   *)
(* in flight as there are registers beyond the architectural ones,         *)
(* whatever squashes and commits went before.                              *)
(***************************************************************************)
THEOREM StarvationFree == Spec => []NeverStarved
  BY EnoughRegisters, InvHolds, PTL

(***************************************************************************)
(* Config::prf_can_starve is right: with a physical register for every     *)
(* reorder buffer entry on top of the architectural ones, the free list is *)
(* never what stops rename().                                              *)
(***************************************************************************)
THEOREM StarvationRule ==
  ASSUME PrfSize >= RobSize + NumArch
  PROVE  Spec => [](Running /\ ~RobFull => free # <<>>)
<1>1. Inv => (Running /\ ~RobFull => free # <<>>)
  <2>1. TypeOK => Len(rob) \in Nat /\ Len(rob) <= RobSize
    BY DEF TypeOK
  <2> QED
    BY <2>1, EnoughRegisters, RenamingAssumption DEF Inv, NeverStarved, RobFull
<1> QED
  BY <1>1, InvHolds, PTL

-----------------------------------------------------------------------------
(* Nothing in flight: what squash_in_flight() leaves in the pools. *)

\* A pool that lists each member of a set once is as long as the set is large.
LEMMA PoolSize ==
  ASSUME NEW S, NEW s \in Seq(S), Injective(s), \A x \in S : Listed(s, x)
  PROVE  IsFiniteSet(S) /\ Cardinality(S) = Len(s)
<1> DEFINE I == 1 .. Len(s)
<1>1. Len(s) \in Nat /\ s \in [I -> S] /\ DOMAIN s = I
  OBVIOUS
<1>2. IsFiniteSet(I) /\ Cardinality(I) = Len(s)
  BY <1>1, FS_Interval
<1>3. s \in Bijection(I, S)
  <2>1. s \in Injection(I, S)
    BY <1>1 DEF Injective, Injection, IsInjective
  <2>2. \A x \in S : \E k \in I : s[k] = x
    BY DEF Listed
  <2> QED
    BY <1>1, <2>1, <2>2 DEF Bijection, Surjection
<1>4. ExistsBijection(I, S)
  BY <1>3 DEF ExistsBijection
<1> QED
  BY <1>2, <1>4, FS_Bijection

\* The committed mapping names as many registers as there are architectural ones.
LEMMA ArchSize ==
  ASSUME NumArch \in Nat, archRat \in [Arch -> Phys], Injective(archRat)
  PROVE  LET A == {archRat[r] : r \in Arch} IN IsFiniteSet(A) /\ Cardinality(A) = NumArch
<1> DEFINE A == {archRat[r] : r \in Arch}
<1>1. IsFiniteSet(Arch) /\ Cardinality(Arch) = NumArch
  BY FS_Interval DEF Arch
<1>2. archRat \in Bijection(Arch, A)
  <2>1. archRat \in Injection(Arch, A)
    BY DEF Injective, Injection, IsInjective
  <2> QED
    BY <2>1 DEF Bijection, Surjection
<1>3. ExistsBijection(Arch, A)
  BY <1>2 DEF ExistsBijection
<1> QED
  BY <1>1, <1>3, FS_Bijection

\* With nothing in flight, the pools hold what is not architectural.
LEMMA PoolsAtRest ==
  ASSUME TypeOK, OneOwner, OneHolder, rob = <<>>, killed = <<>>
  PROVE  /\ {free[k] : k \in DOMAIN free} = Phys \ {archRat[r] : r \in Arch}
         /\ Len(free) = PrfSize - NumArch /\ Len(ckptFree) = NumCkpt
<1> DEFINE A == {archRat[r] : r \in Arch}
           P == Phys
           F == {free[k] : k \in DOMAIN free}
<1>1. /\ free \in Seq(P) /\ archRat \in [Arch -> P] /\ ckptFree \in Seq(Ckpt)
  <2>1. free \in Seq(Phys \ {0})
    BY DEF TypeOK
  <2>2. Len(free) \in Nat /\ free \in [1 .. Len(free) -> P]
    BY <2>1
  <2>3. free \in Seq(P)
    BY <2>2
  <2> QED
    BY <2>3 DEF TypeOK
<1>2. DOMAIN free = 1 .. Len(free)
  BY <1>1
<1>3. F = P \ A
  <2>1. \A p \in P : InFree(p) <=> ~InArch(p)
    BY DEF OneOwner, DestIn
  <2>2. \A p \in P : InFree(p) <=> p \in F
    BY <1>2 DEF InFree, Listed
  <2>3. \A p \in P : InArch(p) <=> p \in A
    BY DEF InArch
  <2>4. F \subseteq P
    BY <1>1
  <2> QED
    BY <2>1, <2>2, <2>3, <2>4
<1>4. Cardinality(F) = Len(free)
  <2>1. free \in Seq(F)
    BY <1>1, <1>2
  <2>2. \A x \in F : Listed(free, x)
    BY <1>2 DEF Listed
  <2> QED
    BY <2>1, <2>2, PoolSize DEF OneOwner
<1>5. IsFiniteSet(A) /\ Cardinality(A) = NumArch
  <2>1. archRat \in [Arch -> Phys] /\ NumArch \in Nat
    BY RenamingAssumption DEF TypeOK
  <2> QED
    BY <2>1, ArchSize DEF OneOwner
<1>6. A \subseteq P
  BY <1>1
<1>7. IsFiniteSet(P) /\ Cardinality(P) = PrfSize
  BY FS_Interval, RenamingAssumption DEF Phys
<1>8. Len(free) = PrfSize - NumArch
  <2>1. Cardinality(P \ A) = Cardinality(P) - Cardinality(P \cap A)
    BY <1>7, FS_Difference
  <2>2. P \cap A = A
    BY <1>6
  <2> QED
    BY <1>3, <1>4, <1>5, <1>7, <2>1, <2>2
<1>9. Len(ckptFree) = NumCkpt
  <2>1. IsFiniteSet(Ckpt) /\ Cardinality(Ckpt) = NumCkpt
    BY FS_Interval, RenamingAssumption DEF Ckpt
  <2>2. \A c \in Ckpt : Listed(ckptFree, c)
    BY DEF OneHolder, CkptIn, Ckpt
  <2> QED
    BY <1>1, <2>1, <2>2, PoolSize DEF OneHolder
<1> QED
  BY <1>3, <1>8, <1>9

-----------------------------------------------------------------------------
(* The ledger of the tests, from the ownership of registers and program    *)
(* order: a register in use is read off exactly one place, the speculative *)
(* mapping or the writer that displaced it.                                *)

\* What program order names is committed or allocated in flight.
LEMMA NamedIsOwned ==
  ASSUME Inv, NEW k \in 0 .. Len(rob), NEW a \in Arch, NEW p \in Phys,
         Names(archRat, rob, k, a, p)
  PROVE  /\ InArch(p) \/ DestIn(rob, p)
         /\ ~InFree(p)
<1>1. OneOwner /\ Len(rob) \in Nat
  BY DEF Inv, TypeOK
<1>2. CASE archRat[a] = p
  BY <1>1, <1>2 DEF InArch, OneOwner
<1>3. ASSUME NEW i \in 1 .. k, rob[i].dest = p
      PROVE  DestIn(rob, p)
  <2>1. i \in 1 .. Len(rob)
    BY <1>1
  <2> QED
    BY <1>3, <2>1 DEF DestIn
<1> QED
  BY <1>1, <1>2, <1>3 DEF Names, OneOwner

\* Two readings of program order that name one register read one
\* architectural register, which nothing between them writes.
LEMMA NamedOnce ==
  ASSUME Inv, NEW k \in 0 .. Len(rob), NEW l \in k .. Len(rob),
         NEW a \in Arch, NEW b \in Arch, NEW p \in Phys,
         Names(archRat, rob, k, a, p), Names(archRat, rob, l, b, p)
  PROVE  a = b /\ \A j \in k + 1 .. l : rob[j].rd # a
<1>1. /\ OneOwner /\ Len(rob) \in Nat /\ archRat \in [Arch -> Phys]
      /\ \A j \in 1 .. k : j \in 1 .. Len(rob)
      /\ \A j \in 1 .. l : j \in 1 .. Len(rob)
      /\ \A j \in k + 1 .. l : j \in 1 .. l
  BY DEF Inv, TypeOK
<1>2. CASE archRat[a] = p
  <2>1. InArch(p)
    BY <1>2 DEF InArch
  <2>2. ~DestIn(rob, p)
    BY <1>1, <2>1 DEF OneOwner
  <2>3. \A i \in 1 .. l : rob[i].dest # p
    BY <1>1, <2>2 DEF DestIn
  <2>4. archRat[b] = p /\ \A j \in 1 .. l : rob[j].rd # b
    BY <2>3 DEF Names
  <2>5. a = b
    BY <1>1, <1>2, <2>4 DEF OneOwner, Injective
  <2> QED
    BY <1>1, <2>4, <2>5
<1>3. CASE archRat[a] # p
  <2>1. PICK i \in 1 .. k : /\ rob[i].rd = a /\ rob[i].dest = p
                            /\ \A j \in i + 1 .. k : rob[j].rd # a
    BY <1>3 DEF Names
  <2>2. DestIn(rob, p)
    BY <1>1, <2>1 DEF DestIn
  <2>3. ~InArch(p)
    BY <1>1, <2>2 DEF OneOwner
  <2>4. archRat[b] # p
    BY <2>3 DEF InArch
  <2>5. PICK h \in 1 .. l : /\ rob[h].rd = b /\ rob[h].dest = p
                            /\ \A j \in h + 1 .. l : rob[j].rd # b
    BY <2>4 DEF Names
  <2>6. p # None
    BY RenamingAssumption DEF Phys, None
  <2>7. h = i
    BY <1>1, <2>1, <2>5, <2>6 DEF OneOwner, DestsDistinct
  <2>8. \A j \in k + 1 .. l : j \in h + 1 .. l
    BY <2>7
  <2> QED
    BY <2>1, <2>5, <2>7, <2>8
<1> QED
  BY <1>2, <1>3

\* Program order names one register for each architectural one.
LEMMA NamesOne ==
  ASSUME NEW m, NEW s, NEW k \in Nat, NEW a, NEW p, NEW q,
         Names(m, s, k, a, p), Names(m, s, k, a, q)
  PROVE  p = q
<1>1. CASE \A j \in 1 .. k : s[j].rd # a
  BY <1>1 DEF Names
<1>2. CASE \E j \in 1 .. k : s[j].rd = a
  <2>1. PICK i \in 1 .. k : /\ s[i].rd = a /\ s[i].dest = p
                            /\ \A j \in i + 1 .. k : s[j].rd # a
    BY <1>2 DEF Names
  <2>2. PICK h \in 1 .. k : /\ s[h].rd = a /\ s[h].dest = q
                            /\ \A j \in h + 1 .. k : s[j].rd # a
    BY <1>2 DEF Names
  <2>3. i = h
    <3>1. i < h => h \in i + 1 .. k
      OBVIOUS
    <3>2. h < i => i \in h + 1 .. k
      OBVIOUS
    <3> QED
      BY <2>1, <2>2, <3>1, <3>2
  <2> QED
    BY <2>1, <2>2, <2>3
<1> QED
  BY <1>1, <1>2

\* A register named for a after the k oldest instructions is in the
\* speculative mapping, or the next writer of a displaces it.
LEMMA NamedIsFound ==
  ASSUME Inv, mode = "run", NEW k \in 0 .. Len(rob), NEW a \in Arch, NEW p \in Phys,
         Names(archRat, rob, k, a, p)
  PROVE  rat[a] = p \/ \E i \in 1 .. Len(rob) : rob[i].stale = p
<1> DEFINE T == {j \in k + 1 .. Len(rob) : rob[j].rd = a}
<1>1. Len(rob) \in Nat /\ ProgramOrder /\ a # None
  BY RenamingAssumption DEF Inv, TypeOK, ProgramOrder, Arch, None
<1>2. T \in SUBSET Nat
  BY <1>1
<1>3. ASSUME NEW l \in k .. Len(rob), \A j \in k + 1 .. l : rob[j].rd # a
      PROVE  Names(archRat, rob, l, a, p)
  <2>1. /\ \A j \in 1 .. l : j \in 1 .. k \/ j \in k + 1 .. l
        /\ \A j \in 1 .. k : j \in 1 .. l
        /\ \A i \in 1 .. k : \A j \in i + 1 .. l : j \in i + 1 .. k \/ j \in k + 1 .. l
    BY <1>1
  <2> QED
    BY <1>3, <2>1 DEF Names
<1>4. CASE T = {}
  <2>1. /\ Len(rob) \in k .. Len(rob)
        /\ \A j \in k + 1 .. Len(rob) : rob[j].rd # a
    BY <1>1, <1>4
  <2>2. Names(archRat, rob, Len(rob), a, p)
    BY <1>3, <2>1
  <2>3. Names(archRat, rob, Len(rob), a, rat[a])
    BY <1>1, OrderByEntry
  <2> QED
    BY <1>1, <2>2, <2>3, NamesOne
<1>5. CASE T # {}
  <2>0. \E x \in T : \A y \in T : x <= y
    BY <1>2, <1>5, LeastElement, Zenon
  <2>1. PICK i \in T : \A y \in T : i <= y
    BY <2>0
  <2>2. /\ i \in 1 .. Len(rob) /\ rob[i].rd = a
        /\ i - 1 \in k .. Len(rob) /\ i - 1 \in Nat
        /\ \A j \in k + 1 .. i - 1 : j \in k + 1 .. Len(rob) /\ ~(i <= j)
    BY <1>1
  <2>3. Names(archRat, rob, i - 1, a, p)
    BY <1>3, <2>1, <2>2
  <2>4. Names(archRat, rob, i - 1, a, rob[i].stale)
    <3>1. EntryOrder(archRat, rob, i, ckptRat)
      BY <1>1, <2>2, OrderByEntry
    <3> QED
      BY <1>1, <2>2, <3>1 DEF EntryOrder
  <2> QED
    BY <2>2, <2>3, <2>4, NamesOne
<1> QED
  BY <1>4, <1>5

\* A writer displaces what program order names for its destination before it.
LEMMA StaleIsNamed ==
  ASSUME Inv, NEW i \in 1 .. Len(rob), NEW p \in Phys, rob[i].stale = p
  PROVE  /\ rob[i].rd \in Arch
         /\ i - 1 \in 0 .. Len(rob)
         /\ Names(archRat, rob, i - 1, rob[i].rd, p)
<1>1. /\ Len(rob) \in Nat /\ ProgramOrder /\ p # None
      /\ rob[i] \in Entry /\ EntryShape(rob[i])
  BY RenamingAssumption DEF Inv, TypeOK, Shape, ProgramOrder, Phys, None
<1>2. rob[i].rd # None /\ rob[i].rd \in Arch
  BY <1>1 DEF Entry, EntryShape
<1>3. EntryOrder(archRat, rob, i, ckptRat)
  BY <1>1, OrderByEntry
<1> QED
  BY <1>1, <1>2, <1>3 DEF EntryOrder

\* The tests' ledger follows: the speculative mapping and the displaced
\* registers of the instructions in flight list every register that is not
\* free, each once.
LEMMA LedgerBalances == Inv => Conserved
<1> SUFFICES ASSUME Inv, mode = "run" PROVE Conserved
  BY DEF Conserved
<1> DEFINE inRat(p)   == \E a \in Arch : rat[a] = p
           inStale(p) == \E i \in 1 .. Len(rob) : rob[i].stale = p
<1>1. /\ Len(rob) \in Nat /\ OneOwner /\ rat \in [Arch -> Phys]
      /\ Len(rob) \in 0 .. Len(rob) /\ rob \in Seq(Entry)
      /\ archRat \in [Arch -> Phys] /\ killed = <<>>
      /\ \A i \in 1 .. Len(rob) : rob[i] \in Entry /\ EntryShape(rob[i])
  BY DEF Inv, TypeOK, Shape
<1>2. \A a \in Arch : Names(archRat, rob, Len(rob), a, rat[a]) /\ rat[a] \in Phys
  BY <1>1, OrderByEntry DEF Inv, ProgramOrder
<1>3. Injective(rat)
  <2> SUFFICES ASSUME NEW a \in Arch, NEW b \in Arch, rat[a] = rat[b] PROVE a = b
    BY <1>1 DEF Injective
  <2>1. /\ Names(archRat, rob, Len(rob), a, rat[a]) /\ Names(archRat, rob, Len(rob), b, rat[a])
        /\ rat[a] \in Phys /\ Len(rob) \in Len(rob) .. Len(rob)
    BY <1>1, <1>2
  <2> QED
    BY <1>1, <2>1, NamedOnce
<1>4. ASSUME NEW i \in 1 .. Len(rob), NEW l \in i .. Len(rob), NEW b \in Arch, NEW p \in Phys,
             rob[i].stale = p
      PROVE  ~Names(archRat, rob, l, b, p)
  <2>1. /\ rob[i].rd \in Arch /\ i - 1 \in 0 .. Len(rob)
        /\ Names(archRat, rob, i - 1, rob[i].rd, p)
    BY <1>4, StaleIsNamed
  <2>2. l \in i - 1 .. Len(rob) /\ i \in (i - 1) + 1 .. l
    BY <1>1
  <2> QED
    BY <2>1, <2>2, NamedOnce
<1>5. ASSUME NEW i \in 1 .. Len(rob), NEW j \in 1 .. Len(rob), i < j,
             rob[i].stale # None
      PROVE  rob[i].stale # rob[j].stale
  <2>1. rob[i].stale \in Phys /\ j - 1 \in i .. Len(rob)
    BY <1>1, <1>5 DEF Entry
  <2>2. SUFFICES ASSUME rob[i].stale = rob[j].stale PROVE FALSE
    OBVIOUS
  <2>3. rob[j].rd \in Arch /\ Names(archRat, rob, j - 1, rob[j].rd, rob[i].stale)
    BY <2>1, <2>2, StaleIsNamed
  <2> QED
    BY <1>4, <2>1, <2>3
<1>6. ASSUME NEW i \in 1 .. Len(rob), NEW j \in 1 .. Len(rob),
             rob[i].stale # None, rob[i].stale = rob[j].stale
      PROVE  i = j
  <2>1. i < j \/ j < i \/ i = j
    BY <1>1
  <2> QED
    BY <1>5, <1>6, <2>1
<1>7. ASSUME NEW p \in Phys, InFree(p) PROVE ~inRat(p) /\ ~inStale(p)
  <2>1. ASSUME NEW a \in Arch PROVE rat[a] # p
    BY <1>1, <1>2, <1>7, NamedIsOwned
  <2>2. ASSUME NEW i \in 1 .. Len(rob) PROVE rob[i].stale # p
    BY <1>7, StaleIsNamed, NamedIsOwned
  <2> QED
    BY <2>1, <2>2
<1>8. ASSUME NEW p \in Phys, NEW i \in 1 .. Len(rob), rob[i].stale = p PROVE ~inRat(p)
  <2>1. Len(rob) \in i .. Len(rob)
    BY <1>1
  <2>2. ASSUME NEW a \in Arch PROVE ~Names(archRat, rob, Len(rob), a, p)
    BY <1>4, <1>8, <2>1
  <2> QED
    BY <1>2, <2>2
<1>9. ASSUME NEW p \in Phys PROVE InFree(p) \/ inRat(p) \/ inStale(p)
  <2>1. InFree(p) \/ InArch(p) \/ DestIn(rob, p)
    BY <1>1 DEF OneOwner, DestIn
  <2>2. ASSUME NEW a \in Arch, archRat[a] = p PROVE inRat(p) \/ inStale(p)
    <3>1. 0 \in 0 .. Len(rob) /\ Names(archRat, rob, 0, a, p)
      BY <1>1, <2>2 DEF Names
    <3> QED
      BY <3>1, NamedIsFound
  <2>3. ASSUME NEW i \in 1 .. Len(rob), rob[i].dest = p PROVE inRat(p) \/ inStale(p)
    <3>1. rob[i].rd \in Arch
      <4>1. rob[i] \in Entry /\ EntryShape(rob[i]) /\ p # None
        BY <1>1, RenamingAssumption DEF Phys, None
      <4>2. rob[i].rd # None
        BY <2>3, <4>1 DEF EntryShape
      <4> QED
        BY <4>1, <4>2 DEF Entry
    <3>2. i \in 0 .. Len(rob) /\ i \in 1 .. i /\ \A j \in i + 1 .. i : FALSE
      BY <1>1
    <3>3. Names(archRat, rob, i, rob[i].rd, p)
      BY <2>3, <3>2 DEF Names
    <3> QED
      BY <3>1, <3>2, <3>3, NamedIsFound
  <2> QED
    BY <2>1, <2>2, <2>3 DEF InArch, DestIn
<1> QED
  BY <1>3, <1>6, <1>7, <1>8, <1>9 DEF Conserved

(***************************************************************************)
(* conserved() of test_support.h holds after every step outside a squash,  *)
(* for every configuration: each register is free, mapped, or the one a    *)
(* writer in flight displaced, and listed there once.                      *)
(***************************************************************************)
THEOREM LedgerHolds == Spec => []Conserved
  BY LedgerBalances, InvHolds, PTL
=============================================================================
