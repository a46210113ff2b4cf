----------------------- MODULE PipelineInOrderProofs ------------------------
(***************************************************************************)
(* The pipeline executes programs: whatever it predicts, forwards, replays *)
(* and squashes, what commit() makes of registers, memory, the pc and the  *)
(* outcome is a behaviour of the in-order interpreter of tests/ref.h.      *)
(***************************************************************************)
EXTENDS PipelineQueuesProofs

-----------------------------------------------------------------------------
(* The operators of Instruction and Memory that the in-order machine uses  *)
(* are the pipeline's own.                                                 *)

\* Wrapping and sign extension.
LEMMA SameWrap ==
  /\ \A x : Reference!Wrap(x) = Wrap(x)
  /\ \A x : Reference!Signed(x) = Signed(x)
  /\ \A v, n : Reference!Sext(v, n) = Sext(v, n)
BY DEF Reference!Wrap, Reference!Mod, Wrap, Mod, Signed, Reference!Signed, Sext, Reference!Sext

\* What a word is.
LEMMA SameOp ==
  /\ \A w : Reference!OpOf(w) = OpOf(w)
  /\ \A w : Reference!FormatOf(w) = FormatOf(w)
  /\ \A op : Reference!KindOf(op) = KindOf(op)
BY DEF OpOf, Reference!OpOf, FormatOf, Reference!FormatOf, KindOf, Reference!KindOf, Branches, Reference!Branches,
  Loads, Reference!Loads, Stores, Reference!Stores, Ariths, Reference!Ariths, MulDivs, Reference!MulDivs,
  ImmediateOp, Reference!ImmediateOp, RegisterOp, Reference!RegisterOp,
  BranchOps, Reference!BranchOps, LoadOps, Reference!LoadOps, StoreOps, Reference!StoreOps,
  MulOps, Reference!MulOps, DivOps, Reference!DivOps, NopOps, Reference!NopOps, TrapOps, Reference!TrapOps

\* Its immediate.
LEMMA SameImm ==
 \A w, op : Reference!ImmOf(w, op) = ImmOf(w, op)
BY SameWrap, SameOp DEF ImmOf, Reference!ImmOf, imm_I, Reference!imm_I, imm_S, Reference!imm_S, imm_B, Reference!imm_B,
 imm_U, Reference!imm_U, imm_J, Reference!imm_J

\* decode().
LEMMA SameDecode == \A w : Reference!Decode(w) = Decode(w)
BY SameOp, SameImm DEF Decode, Reference!Decode, BranchOps, Reference!BranchOps, LoadOps, Reference!LoadOps, StoreOps, Reference!StoreOps

\* The bits of a value, and back.
LEMMA SameBits == \A s : Reference!OfBits(s) = OfBits(s) /\ \A a : Reference!Bits(a) = Bits(a)
BY DEF OfBits, Reference!OfBits, Bits, Reference!Bits

\* The value bytes make.
LEMMA SameValue == \A b : Reference!ValueOf(b) = ValueOf(b)
BY SameWrap DEF ValueOf, Reference!ValueOf

\* The one-cycle operations.
LEMMA SameArith ==
  /\ \A a, b : Reference!add(a, b) = add(a, b) /\ Reference!sub(a, b) = sub(a, b)
  /\ \A a, b : Reference!sll(a, b) = sll(a, b) /\ Reference!srl(a, b) = srl(a, b)
  /\ \A a, b : Reference!sra(a, b) = sra(a, b)
  /\ \A a, b : Reference!and_(a, b) = and_(a, b) /\ Reference!or_(a, b) = or_(a, b)
  /\ \A a, b : Reference!xor_(a, b) = xor_(a, b)
  /\ \A a, b : Reference!slt(a, b) = slt(a, b) /\ Reference!sltu(a, b) = sltu(a, b)
<1>1. Reference!Mod = Mod
  BY DEF Reference!Mod, Mod
<1>2. \A a, b : Reference!sll(a, b) = sll(a, b) /\ Reference!srl(a, b) = srl(a, b)
  BY SameWrap DEF Reference!sll, sll, Reference!srl, srl
<1>3. /\ \A a, b : Reference!add(a, b) = add(a, b) /\ Reference!sub(a, b) = sub(a, b)
      /\ \A a, b : Reference!slt(a, b) = slt(a, b) /\ Reference!sltu(a, b) = sltu(a, b)
  BY SameWrap DEF Reference!add, add, Reference!sub, sub, Reference!slt, slt, Reference!sltu, sltu
<1>4. \A a, b : Reference!sra(a, b) = sra(a, b)
  BY <1>1, <1>2 DEF Reference!sra, sra
<1>5. /\ \A a, b : Reference!and_(a, b) = and_(a, b) /\ Reference!or_(a, b) = or_(a, b)
      /\ \A a, b : Reference!xor_(a, b) = xor_(a, b)
  BY SameBits DEF Reference!and_, and_, Reference!or_, or_, Reference!xor_, xor_
<1> QED
  BY <1>2, <1>3, <1>4, <1>5

\* The multiplier.
LEMMA SameMul ==
  /\ \A a, b : Reference!mul(a, b) = mul(a, b) /\ Reference!mulh(a, b) = mulh(a, b)
  /\ \A a, b : Reference!mulhsu(a, b) = mulhsu(a, b) /\ Reference!mulhu(a, b) = mulhu(a, b)
<1>1. \A x : Reference!Upper(x) = Upper(x)
  BY DEF Reference!Upper, Upper, Reference!Mod, Mod
<1> QED
  BY <1>1, SameWrap
     DEF Reference!mul, mul, Reference!mulh, mulh, Reference!mulhsu, mulhsu, Reference!mulhu, mulhu

\* The divider.
LEMMA SameDiv ==
  /\ \A a, b : Reference!div(a, b) = div(a, b) /\ Reference!divu(a, b) = divu(a, b)
  /\ \A a, b : Reference!rem(a, b) = rem(a, b) /\ Reference!remu(a, b) = remu(a, b)
<1>1. Reference!Mod = Mod /\ \A a, b : Reference!Overflows(a, b) = Overflows(a, b)
  BY DEF Reference!Mod, Mod, Reference!Overflows, Overflows
<1>2. \A x, y : Reference!Quotient(x, y) = Quotient(x, y)
  BY DEF Reference!Quotient, Quotient, Reference!Magnitude, Magnitude
<1> QED
  BY <1>1, <1>2, SameWrap
     DEF Reference!div, div, Reference!divu, divu, Reference!rem, rem, Reference!remu, remu

\* Where control can go.
LEMMA SameTargets ==
  /\ \A at : Reference!link_address(at) = link_address(at)
  /\ \A at, imm : Reference!branch_target(at, imm) = branch_target(at, imm)
  /\ \A a, imm : Reference!jalr_target(a, imm) = jalr_target(a, imm)
BY SameWrap
   DEF Reference!link_address, link_address, Reference!branch_target, branch_target,
       Reference!jalr_target, jalr_target

\* execute_uop().
LEMMA SameOutcome ==
  /\ \A d, at, a, b : Reference!Result(d, at, a, b) = Result(d, at, a, b)
  /\ \A d, at, a, b : Reference!NextPc(d, at, a, b) = NextPc(d, at, a, b)
<1>1. \A d, at, a, b : Reference!Result(d, at, a, b) = Result(d, at, a, b)
  BY SameWrap, SameArith, SameMul, SameDiv, SameTargets
     DEF Reference!Result, Result, Reference!uses_immediate, uses_immediate
<1>2. \A op, a, b : Reference!branch_taken(op, a, b) = branch_taken(op, a, b)
  BY SameWrap DEF Reference!branch_taken, branch_taken
<1>3. \A d, at, a, b : Reference!NextPc(d, at, a, b) = NextPc(d, at, a, b)
  BY <1>2, SameTargets DEF Reference!NextPc, NextPc
<1> QED
  BY <1>1, <1>3

\* Memory accesses.
LEMMA SameBytes ==
  /\ \A m, a, n : Reference!LoadBytes(m, a, n) = LoadBytes(m, a, n)
  /\ \A m, a, b : Reference!StoreBytes(m, a, b) = StoreBytes(m, a, b)
  /\ \A v, n : Reference!BytesOf(v, n) = BytesOf(v, n)
  /\ \A op : Reference!access_size(op) = access_size(op)
  /\ \A op, v : Reference!extend_load(op, v) = extend_load(op, v)
<1>1. \A m, a : Reference!load_u8(m, a) = load_u8(m, a)
  BY DEF Reference!load_u8, load_u8
<1>2. \A m, a, n : Reference!LoadBytes(m, a, n) = LoadBytes(m, a, n)
  BY <1>1, SameWrap DEF Reference!LoadBytes, LoadBytes
<1>3. \A m, a, b : Reference!StoreBytes(m, a, b) = StoreBytes(m, a, b)
  BY SameWrap DEF Reference!StoreBytes, StoreBytes
<1>4. \A v, n : Reference!BytesOf(v, n) = BytesOf(v, n)
  BY DEF Reference!BytesOf, BytesOf
<1>5. \A op : Reference!access_size(op) = access_size(op)
  BY DEF Reference!access_size, access_size
<1>6. \A op, v : Reference!extend_load(op, v) = extend_load(op, v)
  BY SameWrap DEF Reference!extend_load, extend_load
<1> QED
  BY <1>2, <1>3, <1>4, <1>5, <1>6

\* Fetch, and the loader.
LEMMA SameWords ==
  /\ \A m, a : Reference!WordAt(m, a) = WordAt(m, a)
  /\ \A ws, b : Reference!load_hex(ws, b) = load_hex(ws, b)
<1>1. \A m, a : Reference!WordAt(m, a) = WordAt(m, a)
  BY SameBytes DEF Reference!WordAt, WordAt, Reference!WordOfBytes, WordOfBytes
<1>2. \A ws, b : Reference!load_hex(ws, b) = load_hex(ws, b)
  BY SameWrap DEF Reference!load_hex, load_hex, Reference!BytesOfWord, BytesOfWord
<1> QED
  BY <1>1, <1>2

-----------------------------------------------------------------------------
(* The invariant. *)

Started(i) == rob[i].state # "waiting"

\* An entry names the registers of its instruction; what the instruction has
\* computed, it has computed from the operand values in m.  A load's result is
\* LoadsRead's.
Computed(e, u, m) ==
  /\ e.rd = ShapeOf(u.dec).rd /\ e.rs1 = u.dec.rs1 /\ e.rs2 = u.dec.rs2
  /\ e.state = "waiting" => u.next = link_address(u.pc)
  /\ e.state # "waiting" =>
       /\ u.next = NextPc(u.dec, u.pc, m[e.src1], m[e.src2])
       /\ ~u.dec.is_load => u.result = Result(u.dec, u.pc, m[e.src1], m[e.src2])
  /\ e.state = "complete" /\ e.dest # None => m[e.dest] = u.result

AllComputed == \A i \in 1 .. Len(rob) : Computed(rob[i], uops[i], prf)

\* Where the i oldest instructions in flight lead, as far as is known.
GoesTo(e, u) == IF e.state = "waiting" THEN u.pred ELSE u.next
After(i) == IF i = 0 THEN archPc ELSE GoesTo(rob[i], uops[i])

\* Up to a branch that went elsewhere, instructions follow one another.
OnPath ==
  \A i \in 1 .. Len(rob) : offender = 0 \/ i <= offender => uops[i].pc = After(i - 1)

\* A queue of instructions that follow one another, the first at `from`, and
\* where they lead.
Chained(q, from) ==
  /\ q # <<>> => q[1].pc = from
  /\ \A k \in 1 .. Len(q) - 1 : q[k + 1].pc = q[k].pred
LeadsTo(q, from) == IF q = <<>> THEN from ELSE q[Len(q)].pred

\* Decode and fetch go on where rename stopped.
FrontOnPath ==
  mode = "run" /\ offender = 0 =>
    /\ Chained(decodeQ, After(Len(rob)))
    /\ Chained(fetchQ, LeadsTo(decodeQ, After(Len(rob))))
    /\ ~stalled => pc = LeadsTo(fetchQ, LeadsTo(decodeQ, After(Len(rob))))

\* What was fetched from an address of Code is what memory holds there.
Coded(Code) ==
  /\ \A k \in 1 .. Len(fetchQ) :
       fetchQ[k].pc \in Code => fetchQ[k].raw = WordAt(mem, fetchQ[k].pc)
  /\ \A k \in 1 .. Len(decodeQ) :
       decodeQ[k].pc \in Code => decodeQ[k].dec = Decode(WordAt(mem, decodeQ[k].pc))
  /\ \A i \in 1 .. Len(rob) :
       uops[i].pc \in Code => uops[i].dec = Decode(WordAt(mem, uops[i].pc))

\* The access of a load or a store: its address, its size, a store's bytes.
AddrOf(e, u, m) == Wrap(m[e.src1] + u.dec.imm)
SizeOf(u) == access_size(u.dec.op)
DataOf(e, u, m) == BytesOf(m[e.src2], SizeOf(u))

\* What an access has told its slot of the memory queue.
StoreTold(e, u, m, slot) ==
  /\ slot.size = SizeOf(u)
  /\ e.state = "waiting" => slot.addrReady = FALSE
  /\ e.state # "waiting" =>
       /\ slot.addrReady = TRUE /\ slot.addr = AddrOf(e, u, m)
       /\ slot.dataReady = TRUE /\ slot.data = DataOf(e, u, m)

Told ==
  \A i \in 1 .. Len(rob) : uops[i].seq \notin Range(renameQ) =>
    /\ uops[i].dec.is_store => StoreTold(rob[i], uops[i], prf, sq.slots[uops[i].lsq])
    /\ uops[i].dec.is_load => lq.slots[uops[i].lsq].size = SizeOf(uops[i])

Addr(i) == AddrOf(rob[i], uops[i], prf)
Size(i) == SizeOf(uops[i])
Stored(i) == DataOf(rob[i], uops[i], prf)

\* Store j writes to address a; instruction j is known not to.
Touches(j, a) == Addr(j) <= a /\ a < Addr(j) + Size(j)
Spares(j, a) == uops[j].dec.is_store => Started(j) /\ ~Touches(j, a)

\* After everything older than i, address a holds b: the youngest of the older
\* stores to write there wrote it, or none does and memory has it.
HoldsFrom(i, j, a, b) ==
  /\ uops[j].dec.is_store /\ Started(j) /\ Touches(j, a) /\ b = Stored(j)[a - Addr(j)]
  /\ \A k \in j + 1 .. i - 1 : Spares(k, a)
HoldsAll(i, a, b) == b = load_u8(mem, a) /\ \A k \in 1 .. i - 1 : Spares(k, a)
Holds(i, a, b) == (\E j \in 1 .. i - 1 : HoldsFrom(i, j, a, b)) \/ HoldsAll(i, a, b)

\* No access up to i, as far as is known, reaches past the last address.
Inside(i) == Addr(i) \in 0 .. Mod - Size(i)
AllInside(i) ==
  \A j \in 1 .. i : Started(j) /\ (uops[j].dec.is_load \/ uops[j].dec.is_store) => Inside(j)

\* The load made its result of the bytes that are to be there in program order.
ReadBytes(i, bytes) ==
  /\ bytes = [k \in 0 .. Size(i) - 1 |-> bytes[k]]
  /\ uops[i].result = extend_load(uops[i].dec.op, ValueOf(bytes))
  /\ \A k \in 0 .. Size(i) - 1 : Holds(i, Addr(i) + k, bytes[k])
LoadsRead ==
  \A i \in 1 .. Len(rob) :
    uops[i].dec.is_load /\ Started(i) /\ AllInside(i) => \E bytes : ReadBytes(i, bytes)

\* A cycle retires Width instructions at most, and the run lasts no more than
\* MaxCycles.
Paced ==
  /\ slots \in Nat /\ cycle \in Nat /\ cycle <= MaxCycles /\ retired \in Nat
  /\ retired <= Width * cycle
  /\ stage = "commit" => cycle >= 1 /\ retired <= Width * (cycle - 1) + slots

\* What a program's correctness rests on, while anything is in flight.
Flowing(Code) ==
  AllComputed /\ OnPath /\ FrontOnPath /\ Coded(Code) /\ Told /\ LoadsRead

Correct(Code) ==
  /\ Paced /\ DOMAIN prf = 0 .. PrfSize - 1
  /\ Live => outcome = "running" /\ Flowing(Code)

\* What the proofs so far establish, in every state.
Sound ==
  /\ Grounded /\ InPlace
  /\ RP!Settled /\ RP!OneOwner /\ RP!SourcesAreProgramOrder

-----------------------------------------------------------------------------
(* What a step does to an instruction that stays in flight: it keeps what  *)
(* rename() and issue() gave it, and the values it read or wrote.          *)

SameUop(u, v) ==
  /\ v.seq = u.seq /\ v.pc = u.pc /\ v.dec = u.dec /\ v.pred = u.pred
  /\ v.next = u.next /\ v.result = u.result

Carries(e, u, m, f, v, n) ==
  /\ RP!Same(e, f) /\ SameUop(u, v)
  /\ \/ f.state = e.state
     \/ e.state = "issued" /\ f.state = "complete" /\ (e.dest # None => n[e.dest] = u.result)
  /\ e.state # "waiting" => n[e.src1] = m[e.src1] /\ n[e.src2] = m[e.src2]
  /\ e.state = "complete" /\ e.dest # None => n[e.dest] = m[e.dest]

\* The step moves everything s places forward, but for entry k, which it makes
\* or starts.
Carried(s, k) ==
  \A j \in 1 .. Len(rob') : j # k =>
    /\ j + s \in 1 .. Len(rob)
    /\ Carries(rob[j + s], uops[j + s], prf, rob'[j], uops'[j], prf')

\* The instruction's results, its access and where it leads are the same.
LEMMA CarriesFacts ==
  ASSUME NEW e, NEW u, NEW m, NEW f, NEW v, NEW n, Carries(e, u, m, f, v, n)
  PROVE  /\ Computed(e, u, m) => Computed(f, v, n)
         /\ GoesTo(f, v) = GoesTo(e, u)
         /\ f.state = "waiting" <=> e.state = "waiting"
         /\ SizeOf(v) = SizeOf(u) /\ v.dec = u.dec /\ v.pc = u.pc /\ v.seq = u.seq
         /\ v.result = u.result /\ f.dest = e.dest /\ f.trap = e.trap
         /\ e.state # "waiting" =>
              AddrOf(f, v, n) = AddrOf(e, u, m) /\ DataOf(f, v, n) = DataOf(e, u, m)
         /\ \A slot : StoreTold(e, u, m, slot) => StoreTold(f, v, n, slot)
<1>1. /\ RP!Same(e, f) /\ SameUop(u, v)
      /\ f.state = "waiting" <=> e.state = "waiting"
  BY DEF Carries
<1>2. GoesTo(f, v) = GoesTo(e, u)
  BY <1>1 DEF GoesTo, SameUop
<1>3. SizeOf(v) = SizeOf(u) /\ v.dec = u.dec
  BY <1>1 DEF SizeOf, SameUop
<1>4. e.state # "waiting" =>
        AddrOf(f, v, n) = AddrOf(e, u, m) /\ DataOf(f, v, n) = DataOf(e, u, m)
  BY <1>1, <1>3 DEF Carries, RP!Same, AddrOf, DataOf
<1>5. Computed(e, u, m) => Computed(f, v, n)
  <2> SUFFICES ASSUME Computed(e, u, m) PROVE Computed(f, v, n)
    OBVIOUS
  <2>1. f.rd = ShapeOf(v.dec).rd /\ f.rs1 = v.dec.rs1 /\ f.rs2 = v.dec.rs2
    BY <1>1, <1>3 DEF Computed, RP!Same
  <2>2. f.state = "waiting" => v.next = link_address(v.pc)
    BY <1>1 DEF Computed, SameUop
  <2>3. f.state # "waiting" =>
          /\ v.next = NextPc(v.dec, v.pc, n[f.src1], n[f.src2])
          /\ ~v.dec.is_load => v.result = Result(v.dec, v.pc, n[f.src1], n[f.src2])
    <3> SUFFICES ASSUME f.state # "waiting"
                 PROVE  /\ v.next = NextPc(v.dec, v.pc, n[f.src1], n[f.src2])
                        /\ ~v.dec.is_load => v.result = Result(v.dec, v.pc, n[f.src1], n[f.src2])
      OBVIOUS
    <3>1. n[f.src1] = m[e.src1] /\ n[f.src2] = m[e.src2]
      BY <1>1 DEF Carries, RP!Same
    <3> QED
      BY <1>1, <3>1 DEF Computed, SameUop
  <2>4. f.state = "complete" /\ f.dest # None => n[f.dest] = v.result
    BY <1>1 DEF Computed, Carries, SameUop, RP!Same
  <2> QED
    BY <2>1, <2>2, <2>3, <2>4 DEF Computed
<1>6. \A slot : StoreTold(e, u, m, slot) => StoreTold(f, v, n, slot)
  BY <1>1, <1>3, <1>4 DEF StoreTold
<1> QED
  BY <1>1, <1>2, <1>3, <1>4, <1>5, <1>6 DEF SameUop, RP!Same

\* An instruction that nothing happens to.
LEMMA CarriesSame ==
  ASSUME NEW e, NEW u, NEW m
  PROVE  Carries(e, u, m, e, u, m)
BY DEF Carries, RP!Same, SameUop

\* Nothing happens to what is in flight, but that some of it is cut off.
LEMMA CarriedStill ==
  ASSUME InStep, RP!TypeOK, prf' = prf, Len(rob') <= Len(rob), Len(rob') \in Nat,
         \A j \in 1 .. Len(rob') : rob'[j] = rob[j] /\ uops'[j] = uops[j]
  PROVE  Carried(0, 0)
<1> SUFFICES ASSUME NEW j \in 1 .. Len(rob')
             PROVE  /\ j + 0 \in 1 .. Len(rob)
                    /\ Carries(rob[j + 0], uops[j + 0], prf, rob'[j], uops'[j], prf')
  BY DEF Carried
<1>1. j + 0 = j /\ j \in 1 .. Len(rob)
  BY DEF RP!TypeOK
<1> QED
  BY <1>1, CarriesSame

\* Stages that only pass the turn on, and the front end.
LEMMA CarriedQuiet ==
  ASSUME Sound, UNCHANGED <<rob, uops, prf>>
  PROVE  Carried(0, 0)
BY CarriedStill DEF Sound, Grounded, RP!TypeOK

\* recover() cuts the reorder buffer.
LEMMA CarriedRecover ==
  ASSUME Sound, Recover
  PROVE  Carried(0, 0)
<1>1. rob' = SubSeq(rob, 1, offender) /\ UNCHANGED <<uops, prf>>
  BY DEF Recover, Ren!Recover
<1>2. rob \in Seq(RP!Entry) /\ offender \in 0 .. Len(rob)
  BY DEF Sound, Grounded, RP!TypeOK
<1>3. Len(rob') = offender /\ \A i \in 1 .. offender : i \in 1 .. Len(rob) /\ rob'[i] = rob[i]
  BY <1>1, <1>2
<1>4. Len(rob') <= Len(rob) /\ Len(rob') \in Nat
  BY <1>2, <1>3
<1> QED
  BY <1>1, <1>3, <1>4, CarriedStill DEF Sound, Grounded

\* Then it cuts inflight_.
LEMMA CarriedRestore ==
  ASSUME Sound, Restore
  PROVE  /\ Carried(0, 0)
         /\ Len(uops') = Len(rob) /\ \A i \in 1 .. Len(rob) : uops'[i] = uops[i]
<1> DEFINE n == Len(rob)
<1>1. rob' = rob /\ uops' = SubSeq(uops, 1, n) /\ prf' = prf
  BY DEF Restore, Ren!Restore
<1>2. n \in Nat /\ n <= Len(uops) /\ Len(uops) \in Nat
  BY UopsFacts DEF Sound, Grounded
<1>3. Len(uops') = n /\ \A i \in 1 .. n : uops'[i] = uops[i]
  <2>1. PICK X : uops \in Seq(UopOver(X))
    BY DEF Sound, Grounded, InStep
  <2> DEFINE S == UopOver(X)
  <2>2. uops \in Seq(S) /\ n \in 0 .. Len(uops)
    BY <1>2, <2>1
  <2> HIDE DEF S, n
  <2> QED
    BY <1>1, <2>2
<1>4. Carried(0, 0)
  BY <1>1, <1>2, <1>3, CarriedStill DEF Sound, Grounded
<1> QED
  BY <1>3, <1>4

\* dispatch() writes where the access sits.
LEMMA CarriedDispatch ==
  ASSUME Sound, DispatchOne
  PROVE  /\ Carried(0, 0) /\ mode = "run" /\ rob' = rob /\ prf' = prf
         /\ At(Head(renameQ)) \in 1 .. Len(rob)
         /\ uops[At(Head(renameQ))].seq = Head(renameQ)
         /\ Range(renameQ') = Range(renameQ) \ {Head(renameQ)} /\ Head(renameQ) \in Range(renameQ)
         /\ \A k \in 1 .. Len(rob) :
              k # At(Head(renameQ)) => uops'[k] = uops[k] /\ uops[k].seq # Head(renameQ)
         /\ uops'[At(Head(renameQ))].lsq =
              IF uops[At(Head(renameQ))].dec.is_load THEN Q!Tailed(lq)
              ELSE IF uops[At(Head(renameQ))].dec.is_store THEN Q!Tailed(sq)
              ELSE uops[At(Head(renameQ))].lsq
<1> DEFINE h == Head(renameQ)
           i == At(h)
           d == uops[i].dec
           seat == IF d.is_load THEN Q!Tailed(lq) ELSE IF d.is_store THEN Q!Tailed(sq) ELSE uops[i].lsq
<1>1. /\ mode = "run" /\ renameQ # <<>> /\ renameQ' = Tail(renameQ)
      /\ uops' = [uops EXCEPT ![i] = [uops[i] EXCEPT !.lsq = seat]]
      /\ rob' = rob /\ prf' = prf
  BY DEF DispatchOne, Turn, In, CanDispatch, UopOf, renaming
<1>2. /\ Numbered /\ Listed /\ InStep /\ RP!TypeOK
  BY <1>1 DEF Sound, InPlace, Live, Grounded
<1>3. /\ h \in Nat /\ Range(renameQ) = {h} \cup Range(Tail(renameQ))
      /\ \A v \in Range(Tail(renameQ)) : <<h, v>> \in Precede
  BY <1>1, <1>2, TailOrder DEF Listed
<1>4. Range(renameQ') = Range(renameQ) \ {h} /\ h \in Range(renameQ)
  <2>1. \A v \in Range(Tail(renameQ)) : h < v
    BY <1>3 DEF Precede
  <2>2. h \notin Range(Tail(renameQ))
    BY <1>3, <2>1
  <2> QED
    BY <1>1, <1>3, <2>2
<1>5. Len(uops) = Len(rob) /\ Len(rob) \in Nat
  BY <1>1, <1>2, UopsFacts
<1>6. i \in 1 .. Len(rob) /\ uops[i].seq = h
  <2>1. h \in Known
    BY <1>2, <1>4 DEF Listed
  <2> QED
    BY <1>2, <1>5, <2>1, AtFacts
<1>7. \A k \in 1 .. Len(rob) : k = i \/ uops[k].seq # h
  BY <1>2, <1>5, <1>6, AtFacts
<1> DEFINE v == [uops[i] EXCEPT !.lsq = seat]
<1>8. PICK X : uops \in Seq(UopOver(X))
  BY <1>2 DEF InStep
<1>9. v.lsq = seat /\ SameUop(uops[i], v)
  <2>1. uops[i] \in UopOver(X)
    BY <1>5, <1>6, <1>8
  <2> HIDE DEF i, seat
  <2> QED
    BY <2>1 DEF UopOver, SameUop
<1>10. uops' = [uops EXCEPT ![i] = v]
  BY <1>1
<1> HIDE DEF h, i, d, seat, v
<1>11. \A k \in 1 .. Len(rob) : uops'[k] = IF k = i THEN v ELSE uops[k]
  BY <1>5, <1>6, <1>8, <1>10, UopsSet
<1>12. Carried(0, 0)
  <2> SUFFICES ASSUME NEW j \in 1 .. Len(rob)
               PROVE  /\ j + 0 \in 1 .. Len(rob)
                      /\ Carries(rob[j + 0], uops[j + 0], prf, rob'[j], uops'[j], prf')
    BY <1>1 DEF Carried
  <2>1. j + 0 = j
    OBVIOUS
  <2>2. SameUop(uops[j], uops'[j])
    BY <1>9, <1>11 DEF SameUop
  <2> QED
    BY <1>1, <2>1, <2>2 DEF Carries, RP!Same
<1> QED
  BY <1>1, <1>4, <1>6, <1>7, <1>9, <1>11, <1>12 DEF h, i, d, seat

\* rename() adds an entry at the end.
LEMMA CarriedRename ==
  ASSUME Sound, RenameOne, NEW f, f = Head(decodeQ)
  PROVE  /\ Carried(0, Len(rob) + 1) /\ mode = "run" /\ offender = 0 /\ prf' = prf
         /\ Len(rob) \in Nat /\ Len(rob') = Len(rob) + 1 /\ nextSeq \in Range(renameQ')
         /\ Range(renameQ) \subseteq Range(renameQ') /\ Range(renameQ') \subseteq Range(renameQ) \cup {nextSeq}
         /\ \A i \in 1 .. Len(rob) : rob'[i] = rob[i] /\ uops'[i] = uops[i] /\ uops[i].seq # nextSeq
         /\ LET e == rob'[Len(rob) + 1]
                u == uops'[Len(rob) + 1]
            IN  /\ e.state = "waiting" /\ e.rd = ShapeOf(u.dec).rd /\ e.rs1 = u.dec.rs1 /\ e.rs2 = u.dec.rs2
                /\ u.seq = nextSeq /\ u.pc = f.pc /\ u.dec = f.dec /\ u.pred = f.pred
                /\ u.next = link_address(f.pc)
<1> DEFINE n == Len(rob)
           u == [seq |-> nextSeq, pc |-> f.pc, dec |-> f.dec, pred |-> f.pred,
                 next |-> link_address(f.pc), robNext |-> link_address(f.pc),
                 result |-> 0, lsq |-> 0, wb |-> 0]
<1>1. /\ mode = "run" /\ offender = 0 /\ decodeQ # <<>> /\ uops' = Append(uops, u)
      /\ renameQ' = Append(renameQ, nextSeq) /\ prf' = prf
  BY DEF RenameOne, Turn, In, CanRename, Ren!Rename, Ren!Running
<1>2. /\ Numbered /\ Listed /\ InStep /\ RP!TypeOK /\ n \in Nat /\ Len(uops) = n
  <2>1. /\ Numbered /\ Listed /\ InStep /\ RP!TypeOK
    BY <1>1 DEF Sound, InPlace, Live, Grounded
  <2> QED
    BY <1>1, <2>1, UopsFacts
<1>3. /\ u.seq = nextSeq /\ u.pc = f.pc /\ u.dec = f.dec /\ u.pred = f.pred
      /\ u.next = link_address(f.pc)
  OBVIOUS
<1>4. uops'[n + 1] = u /\ \A i \in 1 .. n : uops'[i] = uops[i]
  <2>1. \E S : uops \in Seq(S)
    BY <1>2 DEF InStep
  <2>2. PICK S : uops \in Seq(S)
    BY <2>1
  <2> HIDE DEF u
  <2>3. uops \in Seq(S \cup {u})
    BY <2>2, SeqMonotonic
  <2> QED
    BY <1>1, <1>2, <2>3
<1>5. /\ Len(rob') = n + 1 /\ rob'[n + 1].state = "waiting"
      /\ rob'[n + 1].rd = ShapeOf(f.dec).rd
      /\ rob'[n + 1].rs1 = f.dec.rs1 /\ rob'[n + 1].rs2 = f.dec.rs2
      /\ \A i \in 1 .. n : rob'[i] = rob[i]
  <2>1. PICK dest, id : rob' = Append(rob, Ren!Renamed(ShapeOf(f.dec), dest, id))
    BY DEF RenameOne, Ren!Rename
  <2> DEFINE w == Ren!Renamed(ShapeOf(f.dec), dest, id)
  <2>2. w.state = "waiting" /\ w.rd = ShapeOf(f.dec).rd /\ w.rs1 = f.dec.rs1 /\ w.rs2 = f.dec.rs2
    BY DEF Ren!Renamed, ShapeOf
  <2>3. rob \in Seq(RP!Entry)
    BY <1>2 DEF RP!TypeOK
  <2> HIDE DEF w
  <2>4. rob \in Seq(RP!Entry \cup {w})
    BY <2>3, SeqMonotonic
  <2> QED
    BY <1>2, <2>1, <2>2, <2>4 DEF w
<1>6. nextSeq \in Nat /\ renameQ \in Seq(Nat)
  BY <1>2 DEF Numbered, Listed
<1>7. Range(renameQ') = Range(renameQ) \cup {nextSeq}
  <2>1. renameQ' = Append(renameQ, nextSeq)
    BY <1>1
  <2>2. Range(Append(renameQ, nextSeq)) = Range(renameQ) \cup {nextSeq}
    BY <1>6, AppendRange
  <2> QED
    BY <2>1, <2>2
<1>8. \A i \in 1 .. n : uops[i].seq # nextSeq
  BY <1>2 DEF Numbered
<1>9. Carried(0, n + 1)
  <2> HIDE DEF n
  <2> SUFFICES ASSUME NEW j \in 1 .. n + 1, j # n + 1
               PROVE  /\ j + 0 \in 1 .. n
                      /\ Carries(rob[j + 0], uops[j + 0], prf, rob'[j], uops'[j], prf')
    BY <1>5 DEF Carried, n
  <2>1. j + 0 = j /\ j \in 1 .. n
    BY <1>2
  <2> QED
    BY <1>1, <1>4, <1>5, <2>1, CarriesSame
<1> HIDE DEF u
<1> QED
  BY <1>1, <1>2, <1>3, <1>4, <1>5, <1>7, <1>8, <1>9

\* An instruction that writes a register names it.
LEMMA WritesNamed ==
  ASSUME NEW d \in Decs
  PROVE  ShapeOf(d).rd = None <=> ~d.writes_rd
<1>1. PICK w \in Words : d = Decode(w)
  BY DEF Decs
<1>2. w.rd \in 0 .. 31
  BY DEF Words
<1>3. d.rd # None /\ d.writes_rd \in BOOLEAN
  BY <1>1, <1>2 DEF Decode, None
<1> QED
  BY <1>3 DEF ShapeOf

\* complete() writes a register that no one has read, nor written before.
LEMMA CarriedComplete ==
  ASSUME Sound, DOMAIN prf = 0 .. PrfSize - 1, mode = "run", AllComputed,
         NEW seq \in Known, Complete(seq)
  PROVE  /\ Carried(0, 0) /\ Len(rob') = Len(rob) /\ Len(rob) \in Nat /\ DOMAIN prf' = DOMAIN prf
         /\ uops' = uops /\ archRat' = archRat
         /\ \A a \in Arch : prf'[archRat[a]] = prf[archRat[a]]
<1> DEFINE i == At(seq)
           p == rob[i].dest
           r == uops[i].result
<1>1. /\ i \in 1 .. Len(rob) /\ rob[i].state = "issued"
      /\ rob' = [rob EXCEPT ![i].state = "complete"]
      /\ prf' = IF uops[i].dec.writes_rd THEN [prf EXCEPT ![p] = r] ELSE prf
      /\ uops' = uops /\ archRat' = archRat
  BY DEF Complete, InFlight, Ren!Complete
<1>2. /\ Numbered /\ InStep /\ RP!TypeOK /\ RP!Shape /\ Len(rob) \in Nat /\ Len(uops) = Len(rob)
  <2>1. Numbered /\ InStep /\ RP!TypeOK /\ RP!Shape
    BY DEF Sound, InPlace, Live, Grounded
  <2> QED
    BY <2>1, UopsFacts
<1>3. p # None <=> uops[i].dec.writes_rd
  <2>1. rob[i].rd = ShapeOf(uops[i].dec).rd /\ uops[i].dec \in Decs
    BY <1>1, <1>2 DEF AllComputed, Computed, Numbered
  <2>2. p = None <=> rob[i].rd = None
    BY <1>1, <1>2, RenamingApplies DEF RP!Shape, RP!EntryShape, RP!None, None
  <2>3. ShapeOf(uops[i].dec).rd = None <=> ~uops[i].dec.writes_rd
    BY <2>1, WritesNamed
  <2> QED
    BY <2>1, <2>2, <2>3
<1>4. p # None => p \in 0 .. PrfSize - 1
  <2>1. rob[i] \in RP!Entry
    BY <1>1, <1>2 DEF RP!TypeOK
  <2> QED
    BY <2>1 DEF RP!Entry, RP!Phys, RP!None, None
<1>5. \A j \in 1 .. Len(rob) :
        /\ rob[j].state # "waiting" => ready[rob[j].src1] /\ ready[rob[j].src2]
        /\ rob[j].state # "complete" /\ rob[j].dest # None => ~ready[rob[j].dest]
  BY DEF Sound, RP!Settled, RP!None, None
<1>6. \A j \in 1 .. Len(rob) : j # i /\ p # None => rob[j].dest # p
  BY <1>1 DEF Sound, RP!OneOwner, RP!DestsDistinct, RP!None, None
<1>7. \A a \in Arch : p # None => archRat[a] # p
  BY <1>1, <1>4 DEF Sound, RP!OneOwner, RP!InArch, RP!DestIn, RP!Phys, RP!Arch, Arch
<1>8. /\ Len(rob') = Len(rob) /\ rob'[i].state = "complete"
      /\ \A j \in 1 .. Len(rob) : j # i => rob'[j] = rob[j]
      /\ \A j \in 1 .. Len(rob) : RP!Same(rob[j], rob'[j])
  BY <1>1, <1>2, RobMoved
<1>9. p # None => ~ready[p]
  BY <1>1, <1>5
<1> HIDE DEF p, r, i
<1>10. /\ p # None => prf'[p] = r
       /\ \A q : p = None \/ q # p => prf'[q] = prf[q]
       /\ DOMAIN prf' = DOMAIN prf
  BY <1>1, <1>3, <1>4
<1>11. ASSUME NEW j \in 1 .. Len(rob)
       PROVE  Carries(rob[j], uops[j], prf, rob'[j], uops'[j], prf')
  <2>1. SameUop(uops[j], uops'[j])
    BY <1>1 DEF SameUop
  <2>2. rob[j].state # "waiting" => prf'[rob[j].src1] = prf[rob[j].src1]
                                    /\ prf'[rob[j].src2] = prf[rob[j].src2]
    BY <1>5, <1>9, <1>10
  <2>3. CASE j = i
    <3>1. rob[j].state = "issued" /\ rob'[j].state = "complete" /\ rob[j].dest = p /\ uops[j].result = r
      BY <1>1, <1>8, <2>3 DEF i, p, r
    <3> QED
      BY <1>8, <1>10, <2>1, <2>2, <3>1 DEF Carries
  <2>4. CASE j # i
    <3>1. rob[j].dest # None => prf'[rob[j].dest] = prf[rob[j].dest]
      BY <1>6, <1>10, <2>4
    <3> QED
      BY <1>8, <2>1, <2>2, <2>4, <3>1 DEF Carries
  <2> QED
    BY <2>3, <2>4
<1>12. Carried(0, 0)
  <2>1. \A j \in 1 .. Len(rob) : j + 0 = j
    BY <1>2
  <2> QED
    BY <1>8, <1>11, <2>1 DEF Carried
<1> QED
  BY <1>1, <1>2, <1>7, <1>8, <1>10, <1>12

\* issue() writes to the entry that starts.
LEMMA CarriedStarts ==
  ASSUME Sound, Considers, NEW u, NEW lat, NEW Y, u \in UopOver(Y),
         Starts(u, lat), u.seq = uops[Considered].seq, u.dec = uops[Considered].dec,
         u.lsq = uops[Considered].lsq
  PROVE  /\ Carried(0, Considered) /\ Len(rob') = Len(rob) /\ Len(rob) \in Nat
         /\ mode = "run" /\ mode' = mode /\ prf' = prf
         /\ Considered \in 1 .. Len(rob)
         /\ rob[Considered].state = "waiting" /\ rob'[Considered].state = "issued"
         /\ RP!Same(rob[Considered], rob'[Considered])
         /\ SameUop(u, uops'[Considered]) /\ uops'[Considered].lsq = u.lsq
         /\ \A k \in 1 .. Len(rob) : k # Considered => rob'[k] = rob[k] /\ uops'[k] = uops[k]
<1> DEFINE i == Considered
<1>1. /\ Live /\ i \in 1 .. Len(rob) /\ i \in 1 .. Len(uops) /\ mode = "run"
  BY ConsideredFacts DEF Sound
<1>2. InStep /\ RP!TypeOK /\ Len(rob) \in Nat /\ \A k \in 1 .. Len(rob) : k \in 1 .. Len(uops)
  <2>1. InStep /\ RP!TypeOK
    BY DEF Sound, Grounded
  <2> QED
    BY <2>1, UopsFacts
<1>3. /\ rob[i].state = "waiting" /\ rob' = [rob EXCEPT ![i].state = "issued"] /\ mode' = mode
      /\ prf' = prf
  BY DEF Starts, Ren!Issue, Considers
<1>4. /\ uops'[i] = [u EXCEPT !.wb = cycle + lat]
      /\ \A k \in 1 .. Len(uops) : k # i => uops'[k] = uops[k]
  BY <1>1, <1>2, StartsUops
<1>5. SameUop(u, uops'[i]) /\ uops'[i].lsq = u.lsq
  BY <1>4 DEF UopOver, SameUop
<1>6. /\ Len(rob') = Len(rob) /\ rob'[i].state = "issued"
      /\ \A j \in 1 .. Len(rob) : j # i => rob'[j] = rob[j]
      /\ \A j \in 1 .. Len(rob) : RP!Same(rob[j], rob'[j])
  BY <1>1, <1>2, <1>3, RobMoved
<1>7. Carried(0, i)
  <2> HIDE DEF i
  <2> SUFFICES ASSUME NEW j \in 1 .. Len(rob), j # i
               PROVE  /\ j + 0 \in 1 .. Len(rob)
                      /\ Carries(rob[j + 0], uops[j + 0], prf, rob'[j], uops'[j], prf')
    BY <1>6 DEF Carried
  <2>1. j + 0 = j
    BY <1>2
  <2> QED
    BY <1>2, <1>3, <1>4, <1>6, <2>1, CarriesSame
<1> QED
  BY <1>1, <1>2, <1>3, <1>4, <1>5, <1>6, <1>7

\* commit() removes the head.
LEMMA CarriedCommit ==
  ASSUME Sound, CommitOne
  PROVE  /\ Len(rob) \in Nat /\ Len(rob) >= 1 /\ Len(uops) = Len(rob)
         /\ Head(uops) = uops[1] /\ Head(rob) = rob[1] /\ rob # <<>> /\ rob[1].state = "complete"
         /\ mode = "run" /\ offender = 0 /\ offender' = 0
         /\ rob[1].trap <=> uops[1].dec.kind = "TRAP"
         /\ Live' =>
              /\ Carried(1, 0) /\ Len(rob') = Len(rob) - 1 /\ mode' = "run"
              /\ uops[1].dec.kind # "TRAP"
              /\ \A i \in 1 .. Len(rob) - 1 :
                   i + 1 \in 1 .. Len(rob) /\ rob'[i] = rob[i + 1] /\ uops'[i] = uops[i + 1]
<1> DEFINE n == Len(rob)
<1>1. /\ mode = "run" /\ CanCommit /\ Ren!Commit /\ offender = 0 /\ offender' = 0
      /\ uops' = IF Head(uops).dec.kind = "TRAP" THEN <<>> ELSE Tail(uops)
      /\ prf' = prf
  BY DEF CommitOne, Turn, In, Ren!Commit, Ren!Running
<1>2. InStep /\ RP!TypeOK /\ Len(uops) = n
  BY <1>1 DEF Sound, Grounded, InStep
<1>3. /\ n \in Nat /\ n >= 1 /\ Head(rob) = rob[1] /\ Head(uops) = uops[1]
      /\ rob # <<>> /\ rob[1].state = "complete"
  <2>1. rob \in Seq(RP!Entry) /\ rob # <<>>
    BY <1>1, <1>2 DEF CanCommit, RP!TypeOK
  <2>2. PICK X : uops \in Seq(UopOver(X))
    BY <1>2 DEF InStep
  <2>3. n \in Nat /\ n >= 1 /\ Head(rob) = rob[1] /\ Head(uops) = uops[1]
    BY <1>2, <2>1, <2>2
  <2> QED
    BY <1>1, <2>1, <2>3 DEF CanCommit
<1>4. rob[1].trap <=> uops[1].dec.kind = "TRAP"
  BY <1>2, <1>3 DEF InStep, SameTraps
<1>5. ASSUME Live'
      PROVE  /\ Carried(1, 0) /\ Len(rob') = n - 1 /\ mode' = "run" /\ uops[1].dec.kind # "TRAP"
             /\ \A i \in 1 .. n - 1 : i + 1 \in 1 .. n /\ rob'[i] = rob[i + 1] /\ uops'[i] = uops[i + 1]
  <2>1. ~rob[1].trap
    BY <1>1, <1>3, <1>5 DEF Ren!Commit, Live
  <2>2. rob' = Tail(rob) /\ mode' = "run" /\ uops' = Tail(uops)
    BY <1>1, <1>3, <1>4, <2>1 DEF Ren!Commit
  <2>3. Len(rob') = n - 1 /\ \A i \in 1 .. n - 1 : i + 1 \in 1 .. n /\ rob'[i] = rob[i + 1] /\ uops'[i] = uops[i + 1]
    <3>1. rob \in Seq(RP!Entry)
      BY <1>2 DEF RP!TypeOK
    <3>2. PICK X : uops \in Seq(UopOver(X))
      BY <1>2 DEF InStep
    <3> DEFINE S == UopOver(X)
               T == RP!Entry
    <3>3. uops \in Seq(S) /\ rob \in Seq(T)
      BY <3>1, <3>2
    <3> HIDE DEF S, T
    <3> QED
      BY <1>2, <1>3, <2>2, <3>3
  <2>4. Carried(1, 0)
    BY <1>1, <2>3, CarriesSame DEF Carried
  <2> QED
    BY <1>4, <2>1, <2>2, <2>3, <2>4
<1> QED
  BY <1>1, <1>2, <1>3, <1>4, <1>5

-----------------------------------------------------------------------------
(* What an instruction computed, and where it leads. *)

\* Every entry but the one a step touches is as it was.
LEMMA ComputedCarried ==
  ASSUME NEW s, NEW k, Carried(s, k), AllComputed,
         k \in 1 .. Len(rob') => Computed(rob'[k], uops'[k], prf')
  PROVE  AllComputed'
<1>1. ASSUME NEW j \in 1 .. Len(rob'), j # k
      PROVE  Computed(rob'[j], uops'[j], prf')
  <2>1. /\ Computed(rob[j + s], uops[j + s], prf)
        /\ Carries(rob[j + s], uops[j + s], prf, rob'[j], uops'[j], prf')
    BY <1>1 DEF Carried, AllComputed
  <2> QED
    BY <2>1, CarriesFacts
<1> QED
  BY <1>1 DEF AllComputed

\* The instructions not touched lead where they did.
LEMMA AfterCarried ==
  ASSUME NEW k, Carried(0, k), archPc' = archPc
  PROVE  /\ \A i \in 0 .. Len(rob') : i # k \/ i = 0 => After(i)' = After(i)
         /\ \A i \in 1 .. Len(rob') : i # k => uops'[i].pc = uops[i].pc /\ i \in 1 .. Len(rob)
<1>1. ASSUME NEW i \in 1 .. Len(rob'), i # k
      PROVE  GoesTo(rob'[i], uops'[i]) = GoesTo(rob[i], uops[i]) /\ uops'[i].pc = uops[i].pc
             /\ i \in 1 .. Len(rob)
  <2>1. i + 0 = i
    OBVIOUS
  <2>2. Carries(rob[i], uops[i], prf, rob'[i], uops'[i], prf') /\ i \in 1 .. Len(rob)
    BY <1>1, <2>1 DEF Carried
  <2> QED
    BY <2>2, CarriesFacts
<1>2. \A i \in 0 .. Len(rob') : i = 0 \/ i \in 1 .. Len(rob')
  OBVIOUS
<1> QED
  BY <1>1, <1>2 DEF After

\* A step that starts nothing, unless it cuts off what a mistake led to.
LEMMA PathKept ==
  ASSUME Carried(0, 0), archPc' = archPc, OnPath, Len(rob') \in Nat,
         \A i \in 1 .. Len(rob') : offender' = 0 \/ i <= offender' => offender = 0 \/ i <= offender
  PROVE  OnPath'
<1> SUFFICES ASSUME NEW i \in 1 .. Len(rob'), offender' = 0 \/ i <= offender'
             PROVE  uops'[i].pc = After(i - 1)'
  BY DEF OnPath
<1>1. i \in 1 .. Len(rob) /\ uops'[i].pc = uops[i].pc
  BY AfterCarried
<1>2. i - 1 \in 0 .. Len(rob') /\ (i - 1 # 0 \/ i - 1 = 0)
  OBVIOUS
<1>3. After(i - 1)' = After(i - 1)
  BY <1>2, AfterCarried
<1> QED
  BY <1>1, <1>3 DEF OnPath

\* An entry that starts leads where it was predicted to, or is the oldest known
\* to go elsewhere.
LEMMA PathStarts ==
  ASSUME NEW k \in 1 .. Len(rob), Carried(0, k), archPc' = archPc, OnPath,
         Len(rob) \in Nat, Len(rob') = Len(rob), offender \in 0 .. Len(rob),
         rob[k].state = "waiting", rob'[k].state = "issued", uops'[k].pc = uops[k].pc,
         offender' = IF uops'[k].next # uops[k].pred /\ (offender = 0 \/ k < offender) THEN k
                     ELSE offender
  PROVE  /\ OnPath'
         /\ offender' = 0 => offender = 0 /\ \A i \in 0 .. Len(rob) : After(i)' = After(i)
<1> DEFINE misses == uops'[k].next # uops[k].pred
<1>1. offender' = IF misses /\ (offender = 0 \/ k < offender) THEN k ELSE offender
  OBVIOUS
<1>2. GoesTo(rob[k], uops[k]) = uops[k].pred /\ GoesTo(rob'[k], uops'[k]) = uops'[k].next
  BY DEF GoesTo
<1>3. After(k)' = uops'[k].next /\ After(k) = uops[k].pred
  BY <1>2 DEF After
<1> HIDE DEF misses
<1>4. ASSUME NEW i \in 0 .. Len(rob'), ~misses \/ i # k
      PROVE  After(i)' = After(i)
  BY <1>3, <1>4, AfterCarried DEF misses
<1>5. ASSUME NEW i \in 1 .. Len(rob'), offender' = 0 \/ i <= offender'
      PROVE  uops'[i].pc = After(i - 1)'
  <2>1. uops'[i].pc = uops[i].pc
    BY AfterCarried
  <2>2. i \in Nat /\ k \in Nat /\ k # 0 /\ i - 1 \in 0 .. Len(rob') /\ i \in 1 .. Len(rob)
    OBVIOUS
  <2>3. offender = 0 \/ i <= offender
    BY <1>1, <1>5, <2>2
  <2>4. ~misses \/ i - 1 # k
    BY <1>1, <1>5, <2>2
  <2> QED
    BY <1>4, <2>1, <2>2, <2>3, <2>4 DEF OnPath
<1>6. offender' = 0 => offender = 0 /\ ~misses
  BY <1>1
<1> QED
  BY <1>4, <1>5, <1>6 DEF OnPath

-----------------------------------------------------------------------------
(* The front end. *)

\* rename() and decode_stage() take the head of a queue.
LEMMA ChainTail ==
  ASSUME NEW T, NEW q \in Seq(T), q # <<>>, NEW from, Chained(q, from)
  PROVE  /\ Head(q).pc = from /\ Chained(Tail(q), Head(q).pred)
         /\ LeadsTo(Tail(q), Head(q).pred) = LeadsTo(q, from)
<1>1. Head(q) = q[1] /\ Len(q) \in Nat /\ Len(q) >= 1
  OBVIOUS
<1>2. Tail(q) \in Seq(T) /\ Len(Tail(q)) = Len(q) - 1 /\ \A i \in 1 .. Len(q) - 1 : Tail(q)[i] = q[i + 1]
  OBVIOUS
<1> DEFINE t == Tail(q)
<1>3. t # <<>> => t[1] = q[2] /\ 1 \in 1 .. Len(q) - 1
  <2> SUFFICES ASSUME t # <<>> PROVE t[1] = q[2] /\ 1 \in 1 .. Len(q) - 1
    OBVIOUS
  <2>1. Len(t) # 0
    BY <1>2
  <2> QED
    BY <1>1, <1>2, <2>1
<1>4. t # <<>> <=> Len(q) # 1
  <2>1. t \in Seq(T) /\ Len(t) = Len(q) - 1
    BY <1>2
  <2> HIDE DEF t
  <2>2. t = <<>> <=> Len(t) = 0
    BY <2>1, EmptySeq
  <2> QED
    BY <1>1, <2>1, <2>2
<1> HIDE DEF t
<1>5. Head(q).pc = from
  BY <1>1 DEF Chained
<1>6. t # <<>> => t[1].pc = Head(q).pred
  BY <1>1, <1>3 DEF Chained
<1>7. \A k \in 1 .. Len(t) - 1 : t[k + 1].pc = t[k].pred
  <2> SUFFICES ASSUME NEW k \in 1 .. Len(t) - 1 PROVE t[k + 1].pc = t[k].pred
    OBVIOUS
  <2>1. Len(t) = Len(q) - 1 /\ k + 1 \in 1 .. Len(q) - 1 /\ k \in 1 .. Len(q) - 1
    BY <1>1, <1>2 DEF t
  <2>2. t[k + 1] = q[(k + 1) + 1] /\ t[k] = q[k + 1]
    BY <1>2, <2>1 DEF t
  <2> QED
    BY <2>1, <2>2 DEF Chained
<1>8. LeadsTo(t, Head(q).pred) = LeadsTo(q, from)
  <2>1. CASE t = <<>>
    BY <1>1, <1>4, <2>1 DEF LeadsTo
  <2>2. CASE t # <<>>
    <3>1. Len(t) = Len(q) - 1 /\ Len(q) - 1 \in 1 .. Len(q) - 1
      BY <1>1, <1>2, <1>4, <2>2 DEF t
    <3>2. t[Len(t)] = q[(Len(q) - 1) + 1]
      BY <1>2, <3>1 DEF t
    <3>3. (Len(q) - 1) + 1 = Len(q)
      BY <1>1
    <3> QED
      BY <2>2, <3>2, <3>3 DEF LeadsTo
  <2> QED
    BY <2>1, <2>2
<1> QED
  BY <1>5, <1>6, <1>7, <1>8 DEF Chained, t

\* decode_stage() and fetch() add to the end of one.
LEMMA ChainAppend ==
  ASSUME NEW T, NEW q \in Seq(T), NEW e \in T, NEW from, Chained(q, from), e.pc = LeadsTo(q, from)
  PROVE  Chained(Append(q, e), from) /\ LeadsTo(Append(q, e), from) = e.pred
<1> DEFINE a == Append(q, e)
<1>1. /\ Len(q) \in Nat /\ a # <<>> /\ Len(a) = Len(q) + 1 /\ a[Len(q) + 1] = e
      /\ \A i \in 1 .. Len(q) : a[i] = q[i]
      /\ q = <<>> <=> Len(q) = 0
  OBVIOUS
<1> HIDE DEF a
<1>2. a[1].pc = from
  BY <1>1 DEF Chained, LeadsTo
<1>3. \A k \in 1 .. Len(a) - 1 : a[k + 1].pc = a[k].pred
  <2> SUFFICES ASSUME NEW k \in 1 .. Len(q) PROVE a[k + 1].pc = a[k].pred
    BY <1>1
  <2>1. CASE k = Len(q)
    <3>1. q # <<>> /\ a[k + 1] = e /\ a[k] = q[Len(q)]
      BY <1>1, <2>1
    <3> QED
      BY <3>1 DEF LeadsTo
  <2>2. CASE k # Len(q)
    <3>1. k + 1 \in 1 .. Len(q) /\ k \in 1 .. Len(q) - 1
      BY <1>1, <2>2
    <3>2. a[k + 1] = q[k + 1] /\ a[k] = q[k]
      BY <1>1, <3>1
    <3> QED
      BY <3>1, <3>2 DEF Chained
  <2> QED
    BY <2>1, <2>2
<1>4. LeadsTo(a, from) = e.pred
  BY <1>1 DEF LeadsTo
<1> QED
  BY <1>2, <1>3, <1>4 DEF Chained, a

\* The stages behind rename() leave the front end alone.
LEMMA FrontKept ==
  ASSUME FrontOnPath, UNCHANGED <<fetchQ, decodeQ, pc, stalled>>, Len(rob') = Len(rob),
         Len(rob) \in Nat,
         mode' = "run" /\ offender' = 0 =>
           mode = "run" /\ offender = 0 /\ \A i \in 0 .. Len(rob) : After(i)' = After(i)
  PROVE  FrontOnPath'
<1> SUFFICES ASSUME mode' = "run", offender' = 0
             PROVE  /\ Chained(decodeQ, After(Len(rob)))'
                    /\ Chained(fetchQ, LeadsTo(decodeQ, After(Len(rob))))'
                    /\ ~stalled' => pc' = LeadsTo(fetchQ, LeadsTo(decodeQ, After(Len(rob))))'
  BY DEF FrontOnPath
<1>1. \A n : n = Len(rob) => After(n)' = After(n)
  OBVIOUS
<1>2. After(Len(rob))' = After(Len(rob))
  BY <1>1 DEF After
<1> QED
  BY <1>2 DEF FrontOnPath, Chained, LeadsTo

\* decode_stage() and fetch() move instructions along the path, and a trap in
\* front makes decode drop the rest.
LEMMA FrontMoves ==
  ASSUME CarryWords, FrontOnPath, DecodeOne \/ DecodeTrap \/ FetchOne
  PROVE  FrontOnPath'
<1> DEFINE at == After(Len(rob))
<1>1. UNCHANGED <<rob, uops, mode, offender, archPc>> /\ mode = "run"
  BY DEF DecodeOne, DecodeTrap, FetchOne, Turn, Over, In, renaming, arch
<1>2. at' = at
  BY <1>1 DEF After
<1>3. CASE offender # 0
  BY <1>1, <1>3 DEF FrontOnPath
<1>4. CASE offender = 0
  <2>1. /\ Chained(decodeQ, at) /\ Chained(fetchQ, LeadsTo(decodeQ, at))
        /\ ~stalled => pc = LeadsTo(fetchQ, LeadsTo(decodeQ, at))
    BY <1>1, <1>4 DEF FrontOnPath
  <2> HIDE DEF at
  <2>2. PICK X : QueuesOver(X)
    BY DEF CarryWords
  <2> SUFFICES /\ Chained(decodeQ', at) /\ Chained(fetchQ', LeadsTo(decodeQ', at))
               /\ ~stalled' => pc' = LeadsTo(fetchQ', LeadsTo(decodeQ', at))
    BY <1>1, <1>2, <1>4 DEF FrontOnPath, at, Chained, LeadsTo
  <2>3. CASE DecodeOne \/ DecodeTrap
    <3> DEFINE h == Head(fetchQ)
               e == Decoded(h)
    <3>1. /\ fetchQ # <<>> /\ decodeQ' = Append(decodeQ, e)
          /\ \/ fetchQ' = Tail(fetchQ) /\ pc' = pc /\ stalled' = stalled
             \/ fetchQ' = <<>> /\ stalled' = TRUE
      BY <2>3 DEF DecodeOne, DecodeTrap, CanDecode
    <3>2. fetchQ \in Seq(FetchedAt(X)) /\ decodeQ \in Seq(DecodedAt(X)) /\ h \in FetchedAt(X)
      BY <2>2, <3>1 DEF QueuesOver
    <3>3. e.pc = h.pc /\ e.pred = h.pred /\ e \in DecodedAt(X)
      BY <3>2 DEF Decoded, FetchedAt, DecodedAt
    <3> HIDE DEF h, e
    <3>4. /\ h.pc = LeadsTo(decodeQ, at) /\ Chained(Tail(fetchQ), h.pred)
          /\ LeadsTo(Tail(fetchQ), h.pred) = LeadsTo(fetchQ, LeadsTo(decodeQ, at))
      BY <2>1, <3>1, <3>2, ChainTail DEF h
    <3>5. Chained(decodeQ', at) /\ LeadsTo(decodeQ', at) = h.pred
      BY <2>1, <3>1, <3>2, <3>3, <3>4, ChainAppend
    <3>6. CASE fetchQ' = Tail(fetchQ) /\ pc' = pc /\ stalled' = stalled
      BY <2>1, <3>4, <3>5, <3>6
    <3>7. CASE fetchQ' = <<>> /\ stalled' = TRUE
      BY <3>5, <3>7 DEF Chained
    <3> QED
      BY <3>1, <3>6, <3>7
  <2>4. CASE FetchOne
    <3> DEFINE w == WordAt(mem, pc)
    <3>1. PICK pr \in Predictions(Decode(w), pc) :
            /\ w \in Words /\ ~stalled
            /\ fetchQ' = Append(fetchQ, [pc |-> pc, raw |-> w, pred |-> pr.target])
            /\ decodeQ' = decodeQ /\ pc' = pr.target /\ stalled' = stalled
      BY <2>4 DEF FetchOne, CanFetch
    <3> DEFINE e == [pc |-> pc, raw |-> w, pred |-> pr.target]
    <3>2. e.pc = pc /\ e.pred = pr.target
      OBVIOUS
    <3>3. fetchQ \in Seq(FetchedAt(X) \cup {e})
      BY <2>2, SeqMonotonic DEF QueuesOver
    <3>4. fetchQ' = Append(fetchQ, e)
      BY <3>1
    <3> DEFINE T == FetchedAt(X) \cup {e}
    <3>5. fetchQ \in Seq(T) /\ e \in T
      BY <3>3
    <3> HIDE DEF e, w, T
    <3>6. Chained(fetchQ', LeadsTo(decodeQ, at)) /\ LeadsTo(fetchQ', LeadsTo(decodeQ, at)) = e.pred
      BY <2>1, <3>1, <3>2, <3>4, <3>5, ChainAppend
    <3> QED
      BY <2>1, <3>1, <3>2, <3>6
  <2> QED
    BY <2>3, <2>4
<1> QED
  BY <1>3, <1>4, RenamingApplies DEF FrontOnPath

\* rename() takes the next instruction of the path.
LEMMA PathRename ==
  ASSUME Sound, RenameOne, OnPath, FrontOnPath
  PROVE  OnPath' /\ FrontOnPath'
<1> DEFINE n == Len(rob)
           f == Head(decodeQ)
           at == After(n)
<1>1. /\ Carried(0, n + 1) /\ mode = "run" /\ offender = 0
      /\ n \in Nat /\ Len(rob') = n + 1
      /\ rob'[n + 1].state = "waiting"
      /\ uops'[n + 1].pc = f.pc /\ uops'[n + 1].pred = f.pred
  BY CarriedRename
<1>2. /\ decodeQ # <<>> /\ decodeQ' = Tail(decodeQ)
      /\ UNCHANGED <<mode, offender, pc, stalled, fetchQ, archPc>>
  BY DEF RenameOne, CanRename, Ren!Rename, Turn, arch
<1>3. PICK X : decodeQ \in Seq(DecodedAt(X))
  BY DEF Sound, Grounded, CarryWords, QueuesOver
<1>4. /\ Chained(decodeQ, at) /\ Chained(fetchQ, LeadsTo(decodeQ, at))
      /\ ~stalled => pc = LeadsTo(fetchQ, LeadsTo(decodeQ, at))
  BY <1>1 DEF FrontOnPath
<1>5. /\ f.pc = at /\ Chained(Tail(decodeQ), f.pred)
      /\ LeadsTo(Tail(decodeQ), f.pred) = LeadsTo(decodeQ, at)
  BY <1>2, <1>3, <1>4, ChainTail
<1>6. GoesTo(rob'[n + 1], uops'[n + 1]) = f.pred
  BY <1>1 DEF GoesTo
<1>7. \A m : m = Len(rob) + 1 => After(m)' = f.pred
  BY <1>1, <1>6 DEF After
<1>8. After(Len(rob))' = f.pred
  BY <1>1, <1>7 DEF After
<1>9. FrontOnPath'
  <2> HIDE DEF f, at
  <2> QED
    BY <1>2, <1>4, <1>5, <1>8 DEF FrontOnPath, Chained, LeadsTo
<1>10. ASSUME NEW i \in 1 .. n + 1
       PROVE  uops'[i].pc = After(i - 1)'
  <2>1. i - 1 \in 0 .. n + 1 /\ i - 1 # n + 1 /\ (i \in 1 .. n \/ i = n + 1)
    BY <1>1
  <2>2. After(i - 1)' = After(i - 1)
    BY <1>1, <1>2, <2>1, AfterCarried
  <2>3. CASE i = n + 1
    BY <1>1, <1>5, <2>1, <2>2, <2>3
  <2>4. CASE i \in 1 .. n
    <3>1. uops'[i].pc = uops[i].pc
      BY <1>1, <1>2, <2>4, AfterCarried
    <3> QED
      BY <1>1, <2>2, <2>4, <3>1 DEF OnPath
  <2> QED
    BY <2>1, <2>3, <2>4
<1> QED
  BY <1>1, <1>9, <1>10 DEF OnPath

\* recover() sends fetch where the branch went.
LEMMA FrontRestore ==
  ASSUME Sound, Restore
  PROVE  FrontOnPath'
<1>1. /\ mode = "recover" /\ fetchQ' = <<>> /\ decodeQ' = <<>>
      /\ pc' = uops[Len(rob)].next /\ rob' = rob
  BY DEF Restore, Ren!Restore, Refetch
<1>2. /\ Len(rob) \in Nat /\ Len(rob) # 0 /\ rob[Len(rob)].state = "issued"
      /\ uops'[Len(rob)] = uops[Len(rob)]
  <2>1. rob # <<>> /\ rob \in Seq(RP!Entry)
    BY <1>1 DEF Sound, Grounded, RP!Shape, RP!TypeOK
  <2>2. Len(rob) \in Nat /\ Len(rob) # 0
    BY <2>1, EmptySeq
  <2> QED
    BY <1>1, <2>2, CarriedRestore DEF Sound, Grounded, RP!Resolved
<1>3. GoesTo(rob[Len(rob)], uops[Len(rob)]) = pc'
  BY <1>1, <1>2 DEF GoesTo
<1>4. After(Len(rob))' = pc'
  BY <1>1, <1>2, <1>3 DEF After, GoesTo
<1> QED
  BY <1>1, <1>4 DEF FrontOnPath, Chained, LeadsTo

\* commit() leads where its instruction did.
LEMMA PathCommit ==
  ASSUME Sound, CommitOne, Live', OnPath, FrontOnPath
  PROVE  OnPath' /\ FrontOnPath'
<1> DEFINE n == Len(rob)
<1>1. /\ n \in Nat /\ n >= 1 /\ Head(uops) = uops[1] /\ rob[1].state = "complete"
      /\ mode = "run" /\ offender = 0 /\ offender' = 0 /\ mode' = "run"
      /\ Carried(1, 0) /\ Len(rob') = n - 1 /\ uops[1].dec.kind # "TRAP"
      /\ \A i \in 1 .. n - 1 : i + 1 \in 1 .. n /\ rob'[i] = rob[i + 1] /\ uops'[i] = uops[i + 1]
  BY CarriedCommit
<1>2. archPc' = uops[1].next /\ UNCHANGED <<fetchQ, decodeQ, pc, stalled>>
  BY <1>1 DEF CommitOne, fronts
<1>3. After(1) = archPc'
  BY <1>1, <1>2 DEF After, GoesTo
<1>4. ASSUME NEW i \in 0 .. n - 1 PROVE After(i)' = After(i + 1)
  <2>1. CASE i = 0
    BY <1>3, <2>1 DEF After
  <2>2. CASE i # 0
    <3>1. i \in 1 .. n - 1 /\ i + 1 # 0
      BY <1>1, <2>2
    <3> QED
      BY <1>1, <2>2, <3>1 DEF After
  <2> QED
    BY <2>1, <2>2
<1>5. ASSUME NEW i \in 1 .. n - 1 PROVE uops'[i].pc = After(i - 1)'
  <2>1. i - 1 \in 0 .. n - 1 /\ (i - 1) + 1 = i /\ i + 1 \in 1 .. n /\ (i + 1) - 1 = i
    BY <1>1
  <2>2. uops[i + 1].pc = After(i)
    BY <1>1, <2>1 DEF OnPath
  <2> QED
    BY <1>1, <1>4, <2>1, <2>2
<1>6. After(Len(rob))' = After(n)
  <2>1. n - 1 \in 0 .. n - 1 /\ (n - 1) + 1 = n
    BY <1>1
  <2>2. \A m : m = Len(rob) - 1 => After(m)' = After(n)
    BY <1>4, <2>1
  <2> QED
    BY <1>1, <2>2 DEF After
<1> QED
  BY <1>1, <1>2, <1>5, <1>6 DEF OnPath, FrontOnPath, Chained, LeadsTo

-----------------------------------------------------------------------------
(* The code. *)

\* No store changes an instruction of Code.
SparesCode(Code) == \A a \in Code : WordAt(mem', a) = WordAt(mem, a)

\* What an entry of a queue is good for.
Fetches(Code, f) == f.pc \in Code => f.raw = WordAt(mem, f.pc)
Decodes(Code, f) == f.pc \in Code => f.dec = Decode(WordAt(mem, f.pc))

\* An instruction that is what memory held is what it holds.
LEMMA CodedStep ==
  ASSUME NEW Code, Coded(Code), SparesCode(Code), NEW s, NEW k, Carried(s, k),
         k \in 1 .. Len(rob') => Decodes(Code, uops'[k]),
         \A j \in 1 .. Len(fetchQ') : Fetches(Code, fetchQ'[j]),
         \A j \in 1 .. Len(decodeQ') : Decodes(Code, decodeQ'[j])
  PROVE  Coded(Code)'
<1>1. \A f : f.pc \in Code => WordAt(mem', f.pc) = WordAt(mem, f.pc)
  BY DEF SparesCode
<1>2. ASSUME NEW i \in 1 .. Len(rob') PROVE Decodes(Code, uops'[i])
  <2>1. CASE i = k
    BY <2>1
  <2>2. CASE i # k
    <3>1. /\ i + s \in 1 .. Len(rob)
          /\ uops'[i].pc = uops[i + s].pc /\ uops'[i].dec = uops[i + s].dec
      BY <2>2 DEF Carried, Carries, SameUop
    <3>2. Decodes(Code, uops[i + s])
      BY <3>1 DEF Coded, Decodes
    <3> QED
      BY <3>1, <3>2 DEF Decodes
  <2> QED
    BY <2>1, <2>2
<1>3. \A i \in 1 .. Len(rob') :
        uops'[i].pc \in Code => uops'[i].dec = Decode(WordAt(mem', uops'[i].pc))
  BY <1>1, <1>2 DEF Decodes
<1>4. \A j \in 1 .. Len(fetchQ') :
        fetchQ'[j].pc \in Code => fetchQ'[j].raw = WordAt(mem', fetchQ'[j].pc)
  BY <1>1 DEF Fetches
<1>5. \A j \in 1 .. Len(decodeQ') :
        decodeQ'[j].pc \in Code => decodeQ'[j].dec = Decode(WordAt(mem', decodeQ'[j].pc))
  BY <1>1 DEF Decodes
<1> QED
  BY <1>3, <1>4, <1>5 DEF Coded

\* Nothing comes into the queues in front of rename(), though they may be cleared.
LEMMA CodedKept ==
  ASSUME NEW Code, Coded(Code), SparesCode(Code), NEW s, NEW k, Carried(s, k),
         k \in 1 .. Len(rob') => Decodes(Code, uops'[k]),
         (fetchQ' = fetchQ /\ decodeQ' = decodeQ) \/ (fetchQ' = <<>> /\ decodeQ' = <<>>)
  PROVE  Coded(Code)'
<1>1. \A j \in 1 .. Len(fetchQ') : Fetches(Code, fetchQ'[j])
  BY DEF Coded, Fetches
<1>2. \A j \in 1 .. Len(decodeQ') : Decodes(Code, decodeQ'[j])
  BY DEF Coded, Decodes
<1> QED
  BY <1>1, <1>2, CodedStep

\* rename() takes an instruction from the decode queue.
LEMMA CodedRename ==
  ASSUME NEW Code, Coded(Code), SparesCode(Code), Sound, RenameOne
  PROVE  Coded(Code)'
<1> DEFINE f == Head(decodeQ)
<1>1. /\ Carried(0, Len(rob) + 1)
      /\ uops'[Len(rob) + 1].pc = f.pc /\ uops'[Len(rob) + 1].dec = f.dec
  BY CarriedRename
<1>2. decodeQ # <<>> /\ decodeQ' = Tail(decodeQ) /\ fetchQ' = fetchQ
  BY DEF RenameOne, CanRename
<1>3. PICK X : decodeQ \in Seq(DecodedAt(X))
  BY DEF Sound, Grounded, CarryWords, QueuesOver
<1> DEFINE T == DecodedAt(X)
           q == decodeQ
<1>4. q \in Seq(T) /\ q # <<>> /\ decodeQ' = Tail(q)
  BY <1>2, <1>3
<1> HIDE DEF T
<1>5. /\ f = q[1] /\ 1 \in 1 .. Len(q)
      /\ Len(decodeQ') = Len(q) - 1 /\ Len(q) \in Nat
      /\ \A j \in 1 .. Len(q) - 1 : decodeQ'[j] = q[j + 1] /\ j + 1 \in 1 .. Len(q)
  BY <1>4
<1>6. Decodes(Code, uops'[Len(rob) + 1])
  BY <1>1, <1>5 DEF Coded, Decodes
<1>7. \A j \in 1 .. Len(decodeQ') : Decodes(Code, decodeQ'[j])
  BY <1>5 DEF Coded, Decodes
<1>8. \A j \in 1 .. Len(fetchQ') : Fetches(Code, fetchQ'[j])
  BY <1>2 DEF Coded, Fetches
<1> QED
  BY <1>1, <1>6, <1>7, <1>8, CodedStep

\* decode_stage() decodes what was fetched, fetch() reads memory.
LEMMA CodedMoves ==
  ASSUME NEW Code, Coded(Code), SparesCode(Code), Sound, DecodeOne \/ DecodeTrap \/ FetchOne
  PROVE  Coded(Code)'
<1>1. UNCHANGED <<rob, uops, prf>>
  BY DEF DecodeOne, DecodeTrap, FetchOne, Turn, Over, In, renaming
<1>2. Carried(0, 0) /\ ~(0 \in 1 .. Len(rob'))
  BY <1>1, CarriedQuiet
<1>3. PICK X : QueuesOver(X)
  BY DEF Sound, Grounded, CarryWords
<1>4. CASE DecodeOne \/ DecodeTrap
  <2> DEFINE T == DecodedAt(X)
             S == FetchedAt(X)
             h == Head(fetchQ)
             e == Decoded(h)
  <2>1. /\ fetchQ # <<>> /\ decodeQ' = Append(decodeQ, e)
        /\ fetchQ' = Tail(fetchQ) \/ fetchQ' = <<>>
    BY <1>4 DEF DecodeOne, DecodeTrap, CanDecode
  <2>2. fetchQ \in Seq(S) /\ decodeQ \in Seq(T) /\ e \in T /\ e.pc = h.pc /\ e.dec = Decode(h.raw)
    <3>1. fetchQ \in Seq(S) /\ decodeQ \in Seq(T) /\ h \in S
      BY <1>3, <2>1 DEF QueuesOver
    <3> QED
      BY <3>1 DEF Decoded, FetchedAt, DecodedAt
  <2> HIDE DEF T, S, h, e
  <2>3. /\ h = fetchQ[1] /\ Len(fetchQ) \in Nat /\ 1 \in 1 .. Len(fetchQ)
        /\ Len(Tail(fetchQ)) = Len(fetchQ) - 1
        /\ \A j \in 1 .. Len(fetchQ) - 1 : Tail(fetchQ)[j] = fetchQ[j + 1] /\ j + 1 \in 1 .. Len(fetchQ)
    BY <2>1, <2>2 DEF h
  <2>4. /\ Len(decodeQ') = Len(decodeQ) + 1 /\ Len(decodeQ) \in Nat /\ decodeQ'[Len(decodeQ) + 1] = e
        /\ \A j \in 1 .. Len(decodeQ) : decodeQ'[j] = decodeQ[j]
    BY <2>1, <2>2
  <2>5. Decodes(Code, e)
    BY <2>2, <2>3 DEF Coded, Decodes
  <2>6. \A j \in 1 .. Len(decodeQ') : Decodes(Code, decodeQ'[j])
    <3>1. \A j \in 1 .. Len(decodeQ') : j \in 1 .. Len(decodeQ) \/ j = Len(decodeQ) + 1
      BY <2>4
    <3> QED
      BY <2>4, <2>5, <3>1 DEF Coded, Decodes
  <2>7. \A j \in 1 .. Len(fetchQ') : Fetches(Code, fetchQ'[j])
    BY <2>1, <2>3 DEF Coded, Fetches
  <2> QED
    BY <1>2, <2>6, <2>7, CodedStep
<1>5. CASE FetchOne
  <2> DEFINE w == WordAt(mem, pc)
  <2>1. PICK pr \in Predictions(Decode(w), pc) :
          /\ w \in Words
          /\ fetchQ' = Append(fetchQ, [pc |-> pc, raw |-> w, pred |-> pr.target])
          /\ decodeQ' = decodeQ
    BY <1>5 DEF FetchOne
  <2> DEFINE e == [pc |-> pc, raw |-> w, pred |-> pr.target]
             T == FetchedAt(X) \cup {e}
  <2>2. e.pc = pc /\ e.raw = WordAt(mem, pc) /\ fetchQ' = Append(fetchQ, e)
    BY <2>1
  <2>3. fetchQ \in Seq(T) /\ e \in T
    BY <1>3, SeqMonotonic DEF QueuesOver
  <2> HIDE DEF e, w, T
  <2>4. /\ Len(fetchQ') = Len(fetchQ) + 1 /\ Len(fetchQ) \in Nat /\ fetchQ'[Len(fetchQ) + 1] = e
        /\ \A j \in 1 .. Len(fetchQ) : fetchQ'[j] = fetchQ[j]
    BY <2>2, <2>3
  <2>5. \A j \in 1 .. Len(fetchQ') : Fetches(Code, fetchQ'[j])
    <3>1. \A j \in 1 .. Len(fetchQ') : j \in 1 .. Len(fetchQ) \/ j = Len(fetchQ) + 1
      BY <2>4
    <3> QED
      BY <2>2, <2>4, <3>1 DEF Coded, Fetches
  <2>6. \A j \in 1 .. Len(decodeQ') : Decodes(Code, decodeQ'[j])
    BY <2>1 DEF Coded, Decodes
  <2> QED
    BY <1>2, <2>5, <2>6, CodedStep
<1> QED
  BY <1>4, <1>5


-----------------------------------------------------------------------------
(* What the memory queues know. *)

\* Where an access dispatched sits.
LEMMA SeatOf ==
  ASSUME Sound, Live, NEW j \in 1 .. Len(rob), uops[j].seq \notin Range(renameQ)
  PROVE  /\ IsRing(lq, LqSize) /\ IsRing(sq, SqSize) /\ LqSize \in Nat \ {0} /\ SqSize \in Nat \ {0}
         /\ uops[j].dec.is_store =>
              /\ uops[j].lsq \in 0 .. SqSize - 1 /\ sq.slots[uops[j].lsq].seq = uops[j].seq
              /\ <<uops[j].seq, uops[j].lsq>> \in Seats(sq)
         /\ uops[j].dec.is_load =>
              /\ uops[j].lsq \in 0 .. LqSize - 1 /\ lq.slots[uops[j].lsq].seq = uops[j].seq
              /\ <<uops[j].seq, uops[j].lsq>> \in Seats(lq)
<1>1. IsRing(lq, LqSize) /\ IsRing(sq, SqSize) /\ Seats(lq) = LoadSeats /\ Seats(sq) = StoreSeats
      /\ LqSize \in Nat \ {0} /\ SqSize \in Nat \ {0}
  BY PipelineAssumption DEF Sound, InPlace, Seated
<1>2. j \in 1 .. Len(uops)
  BY UopsFacts DEF Sound, Grounded
<1> DEFINE p == <<uops[j].seq, uops[j].lsq>>
<1>3. uops[j].dec.is_store => p \in Seats(sq)
  BY <1>1, <1>2 DEF StoreSeats
<1>4. uops[j].dec.is_load => p \in Seats(lq)
  BY <1>1, <1>2 DEF LoadSeats
<1>5. p[1] = uops[j].seq /\ p[2] = uops[j].lsq
  OBVIOUS
<1> HIDE DEF p
<1>6. uops[j].dec.is_store => p[2] \in 0 .. SqSize - 1 /\ sq.slots[p[2]].seq = p[1]
  BY <1>1, <1>3, SeatIndex
<1>7. uops[j].dec.is_load => p[2] \in 0 .. LqSize - 1 /\ lq.slots[p[2]].seq = p[1]
  BY <1>1, <1>4, SeatIndex
<1> QED
  BY <1>1, <1>3, <1>4, <1>5, <1>6, <1>7 DEF p

\* Every access but the one a step touches finds its slot as it was.
LEMMA ToldStep ==
  ASSUME Told, NEW s, NEW k, Carried(s, k),
         \A j \in 1 .. Len(rob') : j # k /\ uops'[j].seq \notin Range(renameQ') =>
           /\ uops'[j].seq \notin Range(renameQ) /\ uops'[j].lsq = uops[j + s].lsq
           /\ uops'[j].dec.is_store => sq'.slots[uops'[j].lsq] = sq.slots[uops'[j].lsq]
           /\ uops'[j].dec.is_load => lq'.slots[uops'[j].lsq].size = lq.slots[uops'[j].lsq].size,
         k \in 1 .. Len(rob') /\ uops'[k].seq \notin Range(renameQ') =>
           /\ uops'[k].dec.is_store => StoreTold(rob'[k], uops'[k], prf', sq'.slots[uops'[k].lsq])
           /\ uops'[k].dec.is_load => lq'.slots[uops'[k].lsq].size = SizeOf(uops'[k])
  PROVE  Told'
<1>1. ASSUME NEW j \in 1 .. Len(rob'), j # k, uops'[j].seq \notin Range(renameQ')
      PROVE  /\ uops'[j].dec.is_store => StoreTold(rob'[j], uops'[j], prf', sq'.slots[uops'[j].lsq])
             /\ uops'[j].dec.is_load => lq'.slots[uops'[j].lsq].size = SizeOf(uops'[j])
  <2>1. /\ j + s \in 1 .. Len(rob)
        /\ Carries(rob[j + s], uops[j + s], prf, rob'[j], uops'[j], prf')
    BY <1>1 DEF Carried
  <2>2. /\ uops'[j].dec = uops[j + s].dec /\ uops'[j].seq = uops[j + s].seq
        /\ SizeOf(uops'[j]) = SizeOf(uops[j + s])
        /\ \A slot : StoreTold(rob[j + s], uops[j + s], prf, slot)
                       => StoreTold(rob'[j], uops'[j], prf', slot)
    BY <2>1, CarriesFacts
  <2>3. /\ uops[j + s].dec.is_store => StoreTold(rob[j + s], uops[j + s], prf, sq.slots[uops[j + s].lsq])
        /\ uops[j + s].dec.is_load => lq.slots[uops[j + s].lsq].size = SizeOf(uops[j + s])
    BY <1>1, <2>1, <2>2 DEF Told
  <2> QED
    BY <1>1, <2>2, <2>3
<1> QED
  BY <1>1 DEF Told

\* No access changes hands.
LEMMA ToldKept ==
  ASSUME Told, Carried(0, 0), sq'.slots = sq.slots, lq'.slots = lq.slots,
         \A j \in 1 .. Len(rob') :
           /\ uops'[j].lsq = uops[j].lsq
           /\ uops'[j].seq \notin Range(renameQ') => uops'[j].seq \notin Range(renameQ)
  PROVE  Told'
<1>1. \A j \in 1 .. Len(rob') : j # 0 /\ j + 0 = j
  OBVIOUS
<1>2. ~(0 \in 1 .. Len(rob'))
  OBVIOUS
<1> QED
  BY <1>1, <1>2, ToldStep

\* What recover() keeps was dispatched long ago, and squash_after() moves no slot.
LEMMA ToldRestore ==
  ASSUME Sound, Restore, Told
  PROVE  Told'
<1> DEFINE n == Len(rob)
           b == uops[n].seq
<1>1. /\ mode = "recover" /\ rob' = rob
      /\ lq' = Q!SquashAfter(lq, b) /\ sq' = Q!SquashAfter(sq, b)
  BY DEF Restore, Ren!Restore
<1>2. /\ Carried(0, 0) /\ \A i \in 1 .. n : uops'[i] = uops[i]
  BY CarriedRestore
<1>3. /\ Numbered /\ Placed /\ Queued /\ Seated /\ InStep /\ RP!TypeOK
      /\ rob # <<>> /\ rob[n].state = "issued"
  BY <1>1 DEF Sound, InPlace, Live, Grounded, RP!Shape, RP!Resolved
<1>4. n \in 1 .. n /\ n \in Nat /\ \A i \in 1 .. n : i \in 1 .. Len(uops)
  <2>1. rob \in Seq(RP!Entry)
    BY <1>3 DEF RP!TypeOK
  <2>2. n \in Nat \ {0}
    BY <1>3, <2>1, EmptySeq
  <2> QED
    BY <1>3, <2>2, UopsFacts
<1>5. b \in Nat
  BY <1>3, <1>4 DEF Numbered
<1>6. sq'.slots = sq.slots /\ lq'.slots = lq.slots
  BY <1>1, <1>3, <1>5, RingSquash, PipelineAssumption DEF Seated
<1>7. uops[n].seq \notin Range(renameQ)
  BY <1>3, <1>4 DEF Placed, Waiting
<1>8. \A j \in 1 .. n : uops[j].seq \notin Range(renameQ)
  <2> SUFFICES ASSUME NEW j \in 1 .. n, uops[j].seq \in Range(renameQ) PROVE FALSE
    OBVIOUS
  <2>1. j = n \/ j < n
    BY <1>4
  <2> QED
    BY <1>3, <1>4, <1>7, <2>1 DEF Queued
<1> QED
  BY <1>1, <1>2, <1>6, <1>8, ToldKept

\* pop_head() moves no slot either.
LEMMA ToldCommit ==
  ASSUME Sound, CommitOne, Live', Told
  PROVE  Told'
<1> DEFINE n == Len(rob)
<1>1. /\ n \in Nat /\ n >= 1 /\ Carried(1, 0) /\ Len(rob') = n - 1 /\ mode = "run"
      /\ \A i \in 1 .. n - 1 : i + 1 \in 1 .. n /\ rob'[i] = rob[i + 1] /\ uops'[i] = uops[i + 1]
  BY CarriedCommit
<1>2. /\ lq' = IF Head(uops).dec.is_load THEN Q!PopHead(lq) ELSE lq
      /\ sq' = IF Head(uops).dec.is_store THEN Q!PopHead(sq) ELSE sq
      /\ renameQ' = renameQ
  BY DEF CommitOne
<1>3. IsRing(lq, LqSize) /\ IsRing(sq, SqSize) /\ LqSize \in Nat \ {0} /\ SqSize \in Nat \ {0}
  BY <1>1, PipelineAssumption DEF Sound, InPlace, Live, Seated
<1>4. ASSUME NEW cap \in Nat \ {0}, NEW q, IsRing(q, cap)
      PROVE  Q!PopHead(q).slots = q.slots
  <2>1. CASE q.count = 0
    BY <2>1 DEF Q!PopHead
  <2>2. CASE q.count # 0
    BY <1>4, <2>2, RingPop
  <2> QED
    BY <2>1, <2>2
<1>5. sq'.slots = sq.slots /\ lq'.slots = lq.slots
  BY <1>2, <1>3, <1>4
<1>6. \A j \in 1 .. Len(rob') : j # 0
  OBVIOUS
<1> QED
  BY <1>1, <1>2, <1>5, <1>6, ToldStep

\* An access gets a slot nobody sits in.
LEMMA ToldDispatch ==
  ASSUME Sound, DispatchOne, Told
  PROVE  Told'
<1> DEFINE h == Head(renameQ)
           k == At(h)
           d == uops[k].dec
           n == Len(rob)
<1>1. /\ Carried(0, 0) /\ mode = "run" /\ rob' = rob /\ prf' = prf
      /\ k \in 1 .. n /\ uops[k].seq = h
      /\ Range(renameQ') = Range(renameQ) \ {h} /\ h \in Range(renameQ)
      /\ \A j \in 1 .. n : j # k => uops'[j] = uops[j] /\ uops[j].seq # h
      /\ uops'[k].lsq = IF d.is_load THEN Q!Tailed(lq) ELSE IF d.is_store THEN Q!Tailed(sq) ELSE uops[k].lsq
  BY CarriedDispatch
<1>2. /\ lq' = IF d.is_load THEN Q!Alloc(lq, h, access_size(d.op)) ELSE lq
      /\ sq' = IF d.is_store THEN Q!Alloc(sq, h, access_size(d.op)) ELSE sq
      /\ d.is_load => ~Q!Full(lq)
      /\ d.is_store => ~Q!Full(sq)
  BY DEF DispatchOne, CanDispatch, UopOf, IsLoad
<1>3. /\ Numbered /\ Placed /\ Queued /\ Seated /\ InStep /\ RP!TypeOK /\ Live
      /\ LqSize \in Nat \ {0} /\ SqSize \in Nat \ {0}
      /\ Len(uops) = n
  BY <1>1, UopsFacts, PipelineAssumption DEF Sound, InPlace, Live, Grounded
<1>4. /\ rob[k].state = "waiting" /\ h \in Nat /\ d \in Decs
  BY <1>1, <1>3 DEF Placed, Waiting, Numbered
<1>5. uops'[k].dec = d /\ uops'[k].seq = h /\ k + 0 = k /\ SizeOf(uops'[k]) = access_size(d.op)
  BY <1>1, CarriesFacts DEF Carried, SizeOf
<1>6. ASSUME NEW j \in 1 .. n, uops[j].seq \notin Range(renameQ)
      PROVE  uops[j].seq < h
  <2>1. j # k /\ ~(k < j) /\ k \in 1 .. n
    BY <1>1, <1>3, <1>6 DEF Queued
  <2> HIDE DEF k
  <2>2. j < k
    BY <2>1
  <2> QED
    BY <1>1, <1>3, <2>2 DEF Numbered
<1>7. \A p \in LoadSeats \cup StoreSeats : p[1] < h
  BY <1>3, <1>6 DEF LoadSeats, StoreSeats
<1> HIDE DEF h, k, d, n
<1>8. d.is_load =>
        /\ Q!Tailed(lq) \in 0 .. LqSize - 1
        /\ lq'.slots[Q!Tailed(lq)] = Q!Fresh(h, access_size(d.op))
        /\ \A i \in 0 .. LqSize - 1 : i # Q!Tailed(lq) => lq'.slots[i] = lq.slots[i]
        /\ \A p \in Seats(lq) : p[2] # Q!Tailed(lq)
  BY <1>2, <1>3, <1>4, <1>7, RingAlloc DEF Seated
<1>9. d.is_store =>
        /\ Q!Tailed(sq) \in 0 .. SqSize - 1
        /\ sq'.slots[Q!Tailed(sq)] = Q!Fresh(h, access_size(d.op))
        /\ \A i \in 0 .. SqSize - 1 : i # Q!Tailed(sq) => sq'.slots[i] = sq.slots[i]
        /\ \A p \in Seats(sq) : p[2] # Q!Tailed(sq)
  BY <1>2, <1>3, <1>4, <1>7, RingAlloc DEF Seated
<1>10. ASSUME NEW j \in 1 .. Len(rob'), j # k, uops'[j].seq \notin Range(renameQ')
       PROVE  /\ uops'[j].seq \notin Range(renameQ) /\ uops'[j].lsq = uops[j + 0].lsq
              /\ uops'[j].dec.is_store => sq'.slots[uops'[j].lsq] = sq.slots[uops'[j].lsq]
              /\ uops'[j].dec.is_load => lq'.slots[uops'[j].lsq].size = lq.slots[uops'[j].lsq].size
  <2>1. j \in 1 .. n /\ uops'[j] = uops[j] /\ uops[j].seq \notin Range(renameQ) /\ j + 0 = j
    BY <1>1, <1>10 DEF n
  <2>2. /\ uops[j].dec.is_store =>
              /\ uops[j].lsq \in 0 .. SqSize - 1 /\ <<uops[j].seq, uops[j].lsq>> \in Seats(sq)
        /\ uops[j].dec.is_load =>
              /\ uops[j].lsq \in 0 .. LqSize - 1 /\ <<uops[j].seq, uops[j].lsq>> \in Seats(lq)
    BY <1>3, <2>1, SeatOf DEF n
  <2>3. uops[j].dec.is_store => sq'.slots[uops[j].lsq] = sq.slots[uops[j].lsq]
    BY <1>2, <1>9, <2>2
  <2>4. uops[j].dec.is_load => lq'.slots[uops[j].lsq] = lq.slots[uops[j].lsq]
    BY <1>2, <1>8, <2>2
  <2> QED
    BY <2>1, <2>3, <2>4
<1>11. d.is_store => StoreTold(rob'[k], uops'[k], prf', sq'.slots[uops'[k].lsq])
  <2>1. d.is_store => ~d.is_load
    BY <1>4, DecodedKind
  <2> QED
    BY <1>1, <1>4, <1>5, <1>9, <2>1 DEF StoreTold, Q!Fresh
<1>12. d.is_load => lq'.slots[uops'[k].lsq].size = SizeOf(uops'[k])
  BY <1>1, <1>5, <1>8 DEF Q!Fresh
<1>13. Carried(0, k)
  BY <1>1 DEF Carried
<1> QED
  BY <1>5, <1>10, <1>11, <1>12, <1>13, ToldStep

\* Whoever is renamed has yet to be dispatched.
LEMMA ToldRename ==
  ASSUME Sound, RenameOne, Told
  PROVE  Told'
<1> DEFINE n == Len(rob)
           f == Head(decodeQ)
<1>1. /\ Carried(0, n + 1) /\ n \in Nat /\ Len(rob') = n + 1 /\ nextSeq \in Range(renameQ')
      /\ Range(renameQ) \subseteq Range(renameQ')
      /\ \A i \in 1 .. n : rob'[i] = rob[i] /\ uops'[i] = uops[i]
      /\ uops'[n + 1].seq = nextSeq
  BY CarriedRename
<1>2. lq' = lq /\ sq' = sq
  BY DEF RenameOne
<1>3. \A j \in 1 .. Len(rob') : j # n + 1 => j \in 1 .. n /\ j + 0 = j
  BY <1>1
<1> HIDE DEF n
<1> QED
  BY <1>1, <1>2, <1>3, ToldStep

\* A load in issue() tells the queue its address; sizes stay.
LEMMA AddressedSizes ==
  ASSUME Sound, Considers, Wanted.is_load
  PROVE  /\ \A k \in 0 .. LqSize - 1 :
              Addressed(lq).slots[k].size = lq.slots[k].size /\ Addressed(lq).slots[k].seq = lq.slots[k].seq
         /\ Addressed(lq).slots[uops[Considered].lsq].addr = Address
         /\ Addressed(lq).slots[uops[Considered].lsq].addrReady = TRUE
         /\ uops[Considered].lsq \in 0 .. LqSize - 1
<1>1. uops[Considered].lsq \in 0 .. LqSize - 1 /\ Live
  BY ConsideredFacts DEF Sound
<1>2. IsRing(lq, LqSize) /\ LqSize \in Nat \ {0}
  BY <1>1, PipelineAssumption DEF Sound, InPlace, Seated
<1> DEFINE idx == uops[Considered].lsq
           r == Addressed(lq)
<1>3. idx \in 0 .. LqSize - 1 /\ r = Q!ResolveAddr(lq, idx, Address)
  BY <1>1 DEF Addressed
<1> HIDE DEF idx, r
<1>4. /\ r.slots[idx] = WithAddr(lq.slots[idx], Address)
      /\ \A k \in 0 .. LqSize - 1 : k # idx => r.slots[k] = lq.slots[k]
      /\ \E Y : lq.slots[idx] \in Entries(Y)
  BY <1>2, <1>3, RingAddr
<1>5. /\ r.slots[idx].size = lq.slots[idx].size /\ r.slots[idx].seq = lq.slots[idx].seq
      /\ r.slots[idx].addr = Address /\ r.slots[idx].addrReady = TRUE
  BY <1>4 DEF WithAddr, Entries
<1> QED
  BY <1>1, <1>4, <1>5 DEF idx, r

\* A load that is sent back, or starts.
LEMMA ToldLoad ==
  ASSUME Sound, Considers, Wanted.is_load, Told, lq' = Addressed(lq), sq' = sq,
         Len(rob') = Len(rob), Len(rob) \in Nat, NEW k, Carried(0, k), k \in 0 .. Len(rob),
         \A j \in 1 .. Len(rob) : uops'[j].seq = uops[j].seq /\ uops'[j].lsq = uops[j].lsq
                                    /\ uops'[j].dec = uops[j].dec,
         k # 0 => k = Considered
  PROVE  Told'
<1>1. /\ mode = "run" /\ Live /\ UNCHANGED renameQ /\ Wanted \in Decs /\ Considered \in 1 .. Len(rob)
      /\ uops[Considered].seq \notin Range(renameQ)
  BY ConsideredFacts DEF Sound
<1>2. \A i \in 0 .. LqSize - 1 : lq'.slots[i].size = lq.slots[i].size
  BY AddressedSizes
<1>3. ASSUME NEW j \in 1 .. Len(rob), uops[j].seq \notin Range(renameQ), uops[j].dec.is_load
      PROVE  lq'.slots[uops[j].lsq].size = lq.slots[uops[j].lsq].size
  <2>1. uops[j].lsq \in 0 .. LqSize - 1
    BY <1>1, <1>3, SeatOf
  <2> QED
    BY <1>2, <2>1
<1>4. \A j \in 1 .. Len(rob) : j + 0 = j
  OBVIOUS
<1>5. ASSUME k \in 1 .. Len(rob')
      PROVE  /\ ~uops'[k].dec.is_store
             /\ lq'.slots[uops'[k].lsq].size = SizeOf(uops'[k])
  <2>1. k = Considered /\ k \in 1 .. Len(rob)
    BY <1>5
  <2>2. uops'[k].dec = Wanted
    BY <2>1 DEF Wanted
  <2>3. ~Wanted.is_store
    BY <1>1, DecodedKind
  <2>4. lq.slots[uops[k].lsq].size = SizeOf(uops[k])
    BY <1>1, <2>1 DEF Told, Wanted
  <2>5. SizeOf(uops'[k]) = SizeOf(uops[k])
    BY <2>1 DEF SizeOf
  <2>6. lq'.slots[uops[k].lsq].size = lq.slots[uops[k].lsq].size
    BY <1>1, <1>3, <2>1 DEF Wanted
  <2> QED
    BY <2>1, <2>2, <2>3, <2>4, <2>5, <2>6
<1> QED
  BY <1>1, <1>3, <1>4, <1>5, ToldStep

\* A store that starts tells its own slot its address and its data.
LEMMA ToldOther ==
  ASSUME Sound, Considers, ~Wanted.is_load, Told, lq' = lq,
         sq' = IF Wanted.is_store
               THEN Q!ResolveData(Addressed(sq), uops[Considered].lsq,
                                  BytesOf(Val2, access_size(Wanted.op)))
               ELSE sq,
         Len(rob') = Len(rob), Len(rob) \in Nat, Carried(0, Considered), prf' = prf,
         rob'[Considered].state = "issued", RP!Same(rob[Considered], rob'[Considered]),
         rob[Considered].state = "waiting",
         \A j \in 1 .. Len(rob) : uops'[j].seq = uops[j].seq /\ uops'[j].lsq = uops[j].lsq
                                    /\ uops'[j].dec = uops[j].dec
  PROVE  Told'
<1> DEFINE k == Considered
           idx == uops[k].lsq
           b == BytesOf(Val2, access_size(Wanted.op))
           a == Address
           r == Addressed(sq)
<1>1. /\ mode = "run" /\ Live /\ UNCHANGED renameQ /\ k \in 1 .. Len(rob)
      /\ uops[k].seq \notin Range(renameQ) /\ Wanted = uops[k].dec
  BY ConsideredFacts DEF Sound, Wanted
<1>2. \A j \in 1 .. Len(rob) : j + 0 = j
  OBVIOUS
<1>3. /\ AddrOf(rob'[k], uops'[k], prf') = a /\ DataOf(rob'[k], uops'[k], prf') = b
      /\ SizeOf(uops'[k]) = SizeOf(uops[k])
  BY <1>1 DEF AddrOf, DataOf, SizeOf, Address, Val1, Val2, Wanted, RP!Same
<1>4. ASSUME Wanted.is_store
      PROVE  /\ StoreTold(rob'[k], uops'[k], prf', sq'.slots[uops'[k].lsq])
             /\ \A i \in 0 .. SqSize - 1 : i # idx => sq'.slots[i] = sq.slots[i]
             /\ sq.slots[idx].seq = uops[k].seq
  <2>1. /\ idx \in 0 .. SqSize - 1 /\ IsRing(sq, SqSize) /\ SqSize \in Nat \ {0}
        /\ sq.slots[idx].seq = uops[k].seq
    BY <1>1, <1>4, SeatOf
  <2>2. r = Q!ResolveAddr(sq, idx, a) /\ sq' = Q!ResolveData(r, idx, b)
    BY <1>4 DEF Addressed
  <2> HIDE DEF r, b, a, idx
  <2>3. /\ IsRing(r, SqSize) /\ r.slots[idx] = WithAddr(sq.slots[idx], a)
        /\ \A i \in 0 .. SqSize - 1 : i # idx => r.slots[i] = sq.slots[i]
        /\ \E Y : sq.slots[idx] \in Entries(Y)
    BY <2>1, <2>2, RingAddr
  <2>4. /\ sq'.slots[idx] = WithData(r.slots[idx], b)
        /\ \A i \in 0 .. SqSize - 1 : i # idx => sq'.slots[i] = r.slots[i]
        /\ \E Y : r.slots[idx] \in Entries(Y)
    BY <2>1, <2>2, <2>3, RingData
  <2>5. /\ r.slots[idx].size = sq.slots[idx].size
        /\ r.slots[idx].addr = a /\ r.slots[idx].addrReady = TRUE
    BY <2>3 DEF WithAddr, Entries
  <2>6. /\ sq'.slots[idx].size = r.slots[idx].size
        /\ sq'.slots[idx].addr = r.slots[idx].addr
        /\ sq'.slots[idx].addrReady = r.slots[idx].addrReady
        /\ sq'.slots[idx].data = b /\ sq'.slots[idx].dataReady = TRUE
    BY <2>4 DEF WithData, Entries
  <2>7. sq.slots[idx].size = SizeOf(uops[k])
    BY <1>1, <1>4 DEF Told, StoreTold, idx
  <2>8. uops'[k].lsq = idx
    BY <1>1 DEF idx
  <2>9. StoreTold(rob'[k], uops'[k], prf', sq'.slots[idx])
    BY <1>3, <2>5, <2>6, <2>7 DEF StoreTold
  <2> QED
    BY <2>1, <2>3, <2>4, <2>8, <2>9
<1>5. ASSUME NEW j \in 1 .. Len(rob), j # k, uops[j].seq \notin Range(renameQ), uops[j].dec.is_store
      PROVE  sq'.slots[uops[j].lsq] = sq.slots[uops[j].lsq]
  <2>1. uops[j].lsq \in 0 .. SqSize - 1 /\ sq.slots[uops[j].lsq].seq = uops[j].seq
    BY <1>1, <1>5, SeatOf
  <2>2. uops[j].seq # uops[k].seq
    <3>1. Numbered /\ InStep /\ RP!TypeOK
      BY <1>1 DEF Sound, InPlace, Grounded
    <3>2. j \in 1 .. Len(uops) /\ k \in 1 .. Len(uops)
      BY <1>1, <3>1, UopsFacts
    <3>3. At(uops[j].seq) = j /\ At(uops[k].seq) = k
      BY <3>1, <3>2, AtFacts
    <3> QED
      BY <1>5, <3>3
  <2>3. CASE Wanted.is_store
    BY <1>4, <2>1, <2>2, <2>3
  <2>4. CASE ~Wanted.is_store
    BY <2>4
  <2> QED
    BY <2>3, <2>4
<1>6. uops'[k].dec = Wanted
  BY <1>1
<1> HIDE DEF idx, b, a, r
<1>7. Carried(0, k)
  OBVIOUS
<1>8. \A j \in 1 .. Len(rob') : j # k /\ uops'[j].seq \notin Range(renameQ') =>
        /\ uops'[j].seq \notin Range(renameQ) /\ uops'[j].lsq = uops[j + 0].lsq
        /\ uops'[j].dec.is_store => sq'.slots[uops'[j].lsq] = sq.slots[uops'[j].lsq]
        /\ uops'[j].dec.is_load => lq'.slots[uops'[j].lsq].size = lq.slots[uops'[j].lsq].size
  <2> SUFFICES ASSUME NEW j \in 1 .. Len(rob'), j # k, uops'[j].seq \notin Range(renameQ')
               PROVE  /\ uops'[j].seq \notin Range(renameQ) /\ uops'[j].lsq = uops[j + 0].lsq
                      /\ uops'[j].dec.is_store => sq'.slots[uops'[j].lsq] = sq.slots[uops'[j].lsq]
                      /\ uops'[j].dec.is_load => lq'.slots[uops'[j].lsq].size = lq.slots[uops'[j].lsq].size
    OBVIOUS
  <2>1. j \in 1 .. Len(rob) /\ j + 0 = j /\ uops'[j].seq = uops[j].seq
        /\ uops'[j].lsq = uops[j].lsq /\ uops'[j].dec = uops[j].dec
    BY <1>2
  <2> HIDE DEF k
  <2> QED
    BY <1>1, <1>5, <2>1
<1>9. k \in 1 .. Len(rob') /\ uops'[k].seq \notin Range(renameQ') =>
        /\ uops'[k].dec.is_store => StoreTold(rob'[k], uops'[k], prf', sq'.slots[uops'[k].lsq])
        /\ uops'[k].dec.is_load => lq'.slots[uops'[k].lsq].size = SizeOf(uops'[k])
  BY <1>4, <1>6
<1> HIDE DEF k
<1> QED
  BY <1>7, <1>8, <1>9, ToldStep


-----------------------------------------------------------------------------
(* What loads read. *)

\* The entry a step makes or starts was no store that anybody has read from.
Fresh(k) == k \in 1 .. Len(rob) => ~Started(k) /\ uops'[k].dec = uops[k].dec

\* The accesses that had started are where they were.
LEMMA AccessCarried ==
  ASSUME NEW k, Carried(0, k), NEW j \in 1 .. Len(rob'), j # k
  PROVE  /\ j \in 1 .. Len(rob)
         /\ Started(j)' <=> Started(j)
         /\ uops'[j].dec = uops[j].dec /\ Size(j)' = Size(j)
         /\ uops'[j].result = uops[j].result
         /\ Started(j) => Addr(j)' = Addr(j) /\ Stored(j)' = Stored(j)
<1>1. j + 0 = j
  OBVIOUS
<1>2. j \in 1 .. Len(rob) /\ Carries(rob[j], uops[j], prf, rob'[j], uops'[j], prf')
  BY <1>1 DEF Carried
<1>3. /\ rob'[j].state = "waiting" <=> rob[j].state = "waiting"
      /\ SizeOf(uops'[j]) = SizeOf(uops[j]) /\ uops'[j].dec = uops[j].dec
      /\ uops'[j].result = uops[j].result
      /\ rob[j].state # "waiting" =>
           /\ AddrOf(rob'[j], uops'[j], prf') = AddrOf(rob[j], uops[j], prf)
           /\ DataOf(rob'[j], uops'[j], prf') = DataOf(rob[j], uops[j], prf)
  BY <1>2, CarriesFacts
<1>4. Started(j)' <=> rob'[j].state # "waiting"
  BY DEF Started
<1>5. Size(j)' = SizeOf(uops'[j]) /\ Addr(j)' = AddrOf(rob'[j], uops'[j], prf')
      /\ Stored(j)' = DataOf(rob'[j], uops'[j], prf')
  BY DEF Size, Addr, Stored, SizeOf, AddrOf, DataOf
<1> QED
  BY <1>2, <1>3, <1>4, <1>5 DEF Started, Size, Addr, Stored

\* So are the bytes they leave to whoever comes next.
LEMMA HoldsCarried ==
  ASSUME NEW k, Carried(0, k), Fresh(k), mem' = mem, Len(rob) \in Nat, Len(rob') \in Nat,
         NEW i \in 1 .. Len(rob'), NEW a, NEW b, Holds(i, a, b)
  PROVE  Holds(i, a, b)'
<1>1. ASSUME NEW j \in 1 .. i - 1
      PROVE  /\ j \in 1 .. Len(rob') /\ j \in 1 .. Len(rob)
             /\ uops'[j].dec = uops[j].dec
             /\ Started(j) => j # k
             /\ j = k => ~Started(j)
  <2>1. j \in 1 .. Len(rob')
    OBVIOUS
  <2>2. CASE j # k
    BY <2>1, <2>2, AccessCarried
  <2>3. CASE j = k
    <3>1. i # k
      BY <2>3
    <3>2. i \in 1 .. Len(rob) /\ i + 0 = i
      BY <3>1 DEF Carried
    <3>3. j \in 1 .. Len(rob)
      BY <3>2
    <3> QED
      BY <2>1, <2>3, <3>3 DEF Fresh
  <2> QED
    BY <2>2, <2>3
<1>2. ASSUME NEW j \in 1 .. i - 1, Spares(j, a)
      PROVE  Spares(j, a)'
  <2>1. CASE ~uops[j].dec.is_store
    BY <1>1, <2>1 DEF Spares
  <2>2. CASE uops[j].dec.is_store
    <3>1. Started(j) /\ ~Touches(j, a) /\ j # k
      BY <1>1, <1>2, <2>2 DEF Spares
    <3>2. Started(j)' /\ Addr(j)' = Addr(j) /\ Size(j)' = Size(j)
      BY <1>1, <3>1, AccessCarried
    <3> QED
      BY <3>1, <3>2 DEF Spares, Touches
  <2> QED
    BY <2>1, <2>2
<1>3. CASE HoldsAll(i, a, b)
  <2>1. HoldsAll(i, a, b)'
    BY <1>2, <1>3 DEF HoldsAll
  <2> QED
    BY <2>1 DEF Holds
<1>4. ASSUME NEW j \in 1 .. i - 1, HoldsFrom(i, j, a, b)
      PROVE  Holds(i, a, b)'
  <2>1. uops[j].dec.is_store /\ Started(j) /\ Touches(j, a) /\ b = Stored(j)[a - Addr(j)]
    BY <1>4 DEF HoldsFrom
  <2>2. /\ Started(j)' /\ Addr(j)' = Addr(j) /\ Size(j)' = Size(j) /\ Stored(j)' = Stored(j)
        /\ uops'[j].dec = uops[j].dec
    BY <1>1, <2>1, AccessCarried
  <2>3. \A l \in j + 1 .. i - 1 : Spares(l, a)'
    <3>1. \A l \in j + 1 .. i - 1 : l \in 1 .. i - 1
      OBVIOUS
    <3> QED
      BY <1>2, <1>4, <3>1 DEF HoldsFrom
  <2>4. HoldsFrom(i, j, a, b)'
    BY <2>1, <2>2, <2>3 DEF HoldsFrom, Touches
  <2> QED
    BY <2>4 DEF Holds
<1> QED
  BY <1>3, <1>4 DEF Holds

\* What was inside still is.
LEMMA InsideCarried ==
  ASSUME NEW k, Carried(0, k), Fresh(k), Len(rob) \in Nat, Len(rob') \in Nat,
         NEW i \in 1 .. Len(rob'), i \in 1 .. Len(rob), AllInside(i)'
  PROVE  AllInside(i)
<1> SUFFICES ASSUME NEW j \in 1 .. i, Started(j), uops[j].dec.is_load \/ uops[j].dec.is_store
             PROVE  Inside(j)
  BY DEF AllInside
<1>1. j \in 1 .. Len(rob') /\ j \in 1 .. Len(rob)
  OBVIOUS
<1>2. j # k
  BY <1>1 DEF Fresh
<1>3. /\ Started(j)' /\ uops'[j].dec = uops[j].dec
      /\ Addr(j)' = Addr(j) /\ Size(j)' = Size(j)
  BY <1>1, <1>2, AccessCarried
<1>4. Inside(j)'
  BY <1>3 DEF AllInside
<1> QED
  BY <1>3, <1>4 DEF Inside, Mod

\* What the loads not touched have read is right still.
LEMMA LoadsCarried ==
  ASSUME NEW k, Carried(0, k), Fresh(k), mem' = mem, Len(rob) \in Nat, Len(rob') \in Nat,
         LoadsRead,
         k \in 1 .. Len(rob') /\ uops'[k].dec.is_load /\ rob'[k].state # "waiting" /\ AllInside(k)'
           => \E bytes : ReadBytes(k, bytes)'
  PROVE  LoadsRead'
<1> SUFFICES ASSUME NEW i \in 1 .. Len(rob'), uops'[i].dec.is_load, Started(i)', AllInside(i)'
             PROVE  \E bytes : ReadBytes(i, bytes)'
  BY DEF LoadsRead
<1>1. CASE i = k
  BY <1>1 DEF Started
<1>2. CASE i # k
  <2>1. /\ i \in 1 .. Len(rob) /\ Started(i) /\ uops'[i].dec = uops[i].dec /\ Size(i)' = Size(i)
        /\ uops'[i].result = uops[i].result /\ Addr(i)' = Addr(i)
    BY <1>2, AccessCarried
  <2>2. AllInside(i)
    BY <2>1, InsideCarried
  <2>3. PICK bytes : ReadBytes(i, bytes)
    BY <2>1, <2>2 DEF LoadsRead
  <2>4. ASSUME NEW o \in 0 .. Size(i) - 1
        PROVE  Holds(i, Addr(i) + o, bytes[o])'
    <3>1. Holds(i, Addr(i) + o, bytes[o])
      BY <2>3 DEF ReadBytes
    <3>2. \A w : w = Addr(i) + o => Holds(i, w, bytes[o])'
      BY <3>1, HoldsCarried
    <3>3. \A w : w = Addr(i)' + o => Holds(i, w, bytes[o])'
      BY <2>1, <3>2
    <3> QED
      BY <3>3
  <2> QED
    BY <2>1, <2>3, <2>4 DEF ReadBytes
<1> QED
  BY <1>1, <1>2

-----------------------------------------------------------------------------
(* What the search among the older stores finds. *)

\* The search, by positions of the queue.
LEMMA SearchOutcome ==
  ASSUME NEW q, q.count \in Nat, NEW ld, Q!SearchOlderStores(q, ld).kind # "REPLAY"
  PROVE  LET found == Q!SearchOlderStores(q, ld)
         IN  \/ /\ found.kind = "NO_MATCH"
                /\ \A k \in 0 .. q.count - 1 :
                     Q!Nth(q, k).seq < ld.seq => ~Q!MayConflict(Q!Nth(q, k), ld)
             \/ /\ found.kind = "FORWARD"
                /\ \E k \in 0 .. q.count - 1 :
                     /\ Q!Nth(q, k).seq < ld.seq /\ Q!Settles(Q!Nth(q, k), ld)
                     /\ found.data = Q!Extract(Q!Nth(q, k), ld)
                     /\ \A l \in k + 1 .. q.count - 1 :
                          Q!Nth(q, l).seq < ld.seq => ~Q!MayConflict(Q!Nth(q, l), ld)
<1> DEFINE conflicts == {k \in 0 .. q.count - 1 :
                           Q!Nth(q, k).seq < ld.seq /\ Q!MayConflict(Q!Nth(q, k), ld)}
           youngest == CHOOSE k \in conflicts : \A j \in conflicts : j <= k
           found == Q!SearchOlderStores(q, ld)
<1>1. found = IF ~ld.addrReady THEN Q!Replay
              ELSE IF conflicts = {} THEN Q!NoMatch
              ELSE IF Q!Settles(Q!Nth(q, youngest), ld) THEN Q!Forward(Q!Nth(q, youngest), ld)
              ELSE Q!Replay
  BY DEF Q!SearchOlderStores
<1>2. \A st : Q!Forward(st, ld).kind = "FORWARD" /\ Q!Forward(st, ld).data = Q!Extract(st, ld)
  BY DEF Q!Forward
<1>3. Q!Replay.kind = "REPLAY" /\ Q!NoMatch.kind = "NO_MATCH"
  BY DEF Q!Replay, Q!NoMatch
<1>4. found.kind # "REPLAY"
  OBVIOUS
<1>5. CASE conflicts = {}
  <2>1. \A k \in 0 .. q.count - 1 :
          Q!Nth(q, k).seq < ld.seq => ~Q!MayConflict(Q!Nth(q, k), ld)
    BY <1>5
  <2> HIDE DEF conflicts, youngest, found
  <2>2. found.kind = "NO_MATCH"
    BY <1>1, <1>3, <1>4, <1>5
  <2> QED
    BY <2>1, <2>2 DEF found
<1>6. CASE conflicts # {}
  <2>1. conflicts \in SUBSET (0 .. q.count)
    OBVIOUS
  <2> HIDE DEF conflicts
  <2>2. \E x \in conflicts : \A y \in conflicts : y <= x
    BY <1>6, <2>1, GreatestElement, Zenon
  <2>3. youngest \in conflicts /\ \A j \in conflicts : j <= youngest
    BY <2>2
  <2> HIDE DEF youngest, found
  <2>4. Q!Settles(Q!Nth(q, youngest), ld) /\ found = Q!Forward(Q!Nth(q, youngest), ld)
    BY <1>1, <1>3, <1>4, <1>6
  <2>5. /\ youngest \in 0 .. q.count - 1 /\ Q!Nth(q, youngest).seq < ld.seq
    BY <2>3 DEF conflicts
  <2>6. ASSUME NEW l \in youngest + 1 .. q.count - 1, Q!Nth(q, l).seq < ld.seq
        PROVE  ~Q!MayConflict(Q!Nth(q, l), ld)
    <3>1. l \in 0 .. q.count - 1 /\ ~(l <= youngest)
      BY <2>5
    <3>2. l \notin conflicts
      BY <2>3, <3>1
    <3> QED
      BY <2>6, <3>1, <3>2 DEF conflicts
  <2>7. found.kind = "FORWARD" /\ found.data = Q!Extract(Q!Nth(q, youngest), ld)
    BY <1>2, <2>4
  <2> QED
    BY <2>4, <2>5, <2>6, <2>7 DEF found
<1> QED
  BY <1>5, <1>6

\* A store not yet dispatched is younger than the accesses that have been.
LEMMA OlderSeated ==
  ASSUME Sound, Live, NEW i \in 1 .. Len(rob), uops[i].seq \notin Range(renameQ),
         NEW j \in 1 .. i
  PROVE  j \in 1 .. Len(rob) /\ uops[j].seq \notin Range(renameQ)
<1>1. Queued /\ InStep /\ RP!TypeOK
  BY DEF Sound, InPlace, Grounded
<1>2. Len(rob) \in Nat /\ \A l \in 1 .. Len(rob) : l \in 1 .. Len(uops)
  BY <1>1, UopsFacts
<1>3. j \in 1 .. Len(rob) /\ (j = i \/ j < i)
  BY <1>2
<1> QED
  BY <1>1, <1>2, <1>3 DEF Queued

\* The position of a store in its queue.
LEMMA StoreSeat ==
  ASSUME Sound, Live, NEW j \in 1 .. Len(rob), uops[j].seq \notin Range(renameQ),
         uops[j].dec.is_store
  PROVE  \E k \in 0 .. sq.count - 1 :
           Q!Nth(sq, k) = sq.slots[uops[j].lsq] /\ Q!Nth(sq, k).seq = uops[j].seq
<1>1. <<uops[j].seq, uops[j].lsq>> \in Seats(sq) /\ IsRing(sq, SqSize) /\ SqSize \in Nat \ {0}
  BY SeatOf
<1>2. PICK k \in 0 .. sq.count - 1 : <<uops[j].seq, uops[j].lsq>> = <<Q!Nth(sq, k).seq, Slot(sq, k)>>
  BY <1>1 DEF Seats
<1>3. uops[j].seq = Q!Nth(sq, k).seq /\ uops[j].lsq = Slot(sq, k)
  BY <1>2
<1> QED
  BY <1>3 DEF Q!Nth, Slot

\* The store at a position of the queue.
LEMMA StoreAt ==
  ASSUME Sound, mode = "run", NEW k \in 0 .. sq.count - 1
  PROVE  \E j \in 1 .. Len(rob) :
           /\ uops[j].dec.is_store /\ uops[j].seq \notin Range(renameQ)
           /\ Q!Nth(sq, k) = sq.slots[uops[j].lsq] /\ Q!Nth(sq, k).seq = uops[j].seq
<1>1. Seated /\ InStep /\ RP!TypeOK
  BY DEF Sound, InPlace, Live, Grounded
<1>2. Len(uops) = Len(rob)
  BY <1>1, UopsFacts
<1>3. <<Q!Nth(sq, k).seq, Slot(sq, k)>> \in StoreSeats
  BY <1>1 DEF Seated, Seats
<1>4. PICK j \in 1 .. Len(uops) :
        /\ uops[j].dec.is_store /\ uops[j].seq \notin Range(renameQ)
        /\ <<Q!Nth(sq, k).seq, Slot(sq, k)>> = <<uops[j].seq, uops[j].lsq>>
  BY <1>3 DEF StoreSeats
<1>5. Q!Nth(sq, k).seq = uops[j].seq /\ Slot(sq, k) = uops[j].lsq
  BY <1>4
<1> QED
  BY <1>2, <1>4, <1>5 DEF Q!Nth, Slot

\* The search, by instructions: the youngest older store in the way settles it.
SlotOf(j) == sq.slots[uops[j].lsq]

LEMMA SearchMeans ==
  ASSUME Sound, mode = "run", NEW i \in 1 .. Len(rob), uops[i].seq \notin Range(renameQ),
         NEW ld, ld.seq = uops[i].seq, NEW found, found = Q!SearchOlderStores(sq, ld),
         found.kind # "REPLAY"
  PROVE  \/ /\ found.kind = "NO_MATCH"
            /\ \A j \in 1 .. i - 1 : uops[j].dec.is_store => ~Q!MayConflict(SlotOf(j), ld)
         \/ /\ found.kind = "FORWARD"
            /\ \E j \in 1 .. i - 1 :
                 /\ uops[j].dec.is_store /\ Q!Settles(SlotOf(j), ld)
                 /\ found.data = Q!Extract(SlotOf(j), ld)
                 /\ \A l \in j + 1 .. i - 1 : uops[l].dec.is_store => ~Q!MayConflict(SlotOf(l), ld)
<1>1. /\ Live /\ Numbered /\ InStep /\ RP!TypeOK /\ Seated /\ SqSize \in Nat \ {0}
  BY PipelineAssumption DEF Sound, InPlace, Live, Grounded
<1>2. Len(rob) \in Nat /\ Len(uops) = Len(rob)
  BY <1>1, UopsFacts
<1>3. IsRing(sq, SqSize) /\ sq.count \in Nat
  <2>1. IsRing(sq, SqSize)
    BY <1>1 DEF Seated
  <2>2. PICK X : sq \in Rings(SqSize, X)
    BY <2>1 DEF IsRing
  <2> QED
    BY <1>1, <2>1, <2>2, RingFields
<1>4. \A j, l \in 1 .. Len(rob) : j < l <=> uops[j].seq < uops[l].seq
  <2> SUFFICES ASSUME NEW j \in 1 .. Len(rob), NEW l \in 1 .. Len(rob)
               PROVE  j < l <=> uops[j].seq < uops[l].seq
    OBVIOUS
  <2>1. uops[j].seq \in Nat /\ uops[l].seq \in Nat
    BY <1>1, <1>2 DEF Numbered
  <2>2. j < l => uops[j].seq < uops[l].seq
    BY <1>1, <1>2 DEF Numbered
  <2>3. l < j => uops[l].seq < uops[j].seq
    BY <1>1, <1>2 DEF Numbered
  <2>4. j < l \/ l < j \/ j = l
    OBVIOUS
  <2> QED
    BY <2>1, <2>2, <2>3, <2>4
<1>5. ASSUME NEW j \in 1 .. i - 1, uops[j].dec.is_store
      PROVE  \E k \in 0 .. sq.count - 1 :
               Q!Nth(sq, k) = SlotOf(j) /\ Q!Nth(sq, k).seq = uops[j].seq /\ Q!Nth(sq, k).seq < ld.seq
  <2>1. j \in 1 .. i /\ j < i
    OBVIOUS
  <2>2. j \in 1 .. Len(rob) /\ uops[j].seq \notin Range(renameQ)
    BY <1>1, <2>1, OlderSeated
  <2>3. uops[j].seq < ld.seq
    BY <1>4, <2>1, <2>2
  <2>4. PICK k \in 0 .. sq.count - 1 :
          Q!Nth(sq, k) = sq.slots[uops[j].lsq] /\ Q!Nth(sq, k).seq = uops[j].seq
    BY <1>1, <1>5, <2>2, StoreSeat
  <2> QED
    BY <2>3, <2>4 DEF SlotOf
<1>6. \/ /\ found.kind = "NO_MATCH"
         /\ \A k \in 0 .. sq.count - 1 :
              Q!Nth(sq, k).seq < ld.seq => ~Q!MayConflict(Q!Nth(sq, k), ld)
      \/ /\ found.kind = "FORWARD"
         /\ \E k \in 0 .. sq.count - 1 :
              /\ Q!Nth(sq, k).seq < ld.seq /\ Q!Settles(Q!Nth(sq, k), ld)
              /\ found.data = Q!Extract(Q!Nth(sq, k), ld)
              /\ \A l \in k + 1 .. sq.count - 1 :
                   Q!Nth(sq, l).seq < ld.seq => ~Q!MayConflict(Q!Nth(sq, l), ld)
  BY <1>3, SearchOutcome
<1>7. CASE /\ found.kind = "NO_MATCH"
           /\ \A k \in 0 .. sq.count - 1 :
                Q!Nth(sq, k).seq < ld.seq => ~Q!MayConflict(Q!Nth(sq, k), ld)
  <2>1. ASSUME NEW j \in 1 .. i - 1, uops[j].dec.is_store
        PROVE  ~Q!MayConflict(SlotOf(j), ld)
    BY <1>5, <1>7, <2>1
  <2> QED
    BY <1>7, <2>1
<1>8. ASSUME NEW k \in 0 .. sq.count - 1, found.kind = "FORWARD",
             Q!Nth(sq, k).seq < ld.seq, Q!Settles(Q!Nth(sq, k), ld),
             found.data = Q!Extract(Q!Nth(sq, k), ld),
             \A l \in k + 1 .. sq.count - 1 :
               Q!Nth(sq, l).seq < ld.seq => ~Q!MayConflict(Q!Nth(sq, l), ld)
      PROVE  \E j \in 1 .. i - 1 :
                 /\ uops[j].dec.is_store /\ Q!Settles(SlotOf(j), ld)
                 /\ found.data = Q!Extract(SlotOf(j), ld)
                 /\ \A l \in j + 1 .. i - 1 : uops[l].dec.is_store => ~Q!MayConflict(SlotOf(l), ld)
  <2>1. PICK j \in 1 .. Len(rob) :
          /\ uops[j].dec.is_store /\ uops[j].seq \notin Range(renameQ)
          /\ Q!Nth(sq, k) = sq.slots[uops[j].lsq] /\ Q!Nth(sq, k).seq = uops[j].seq
    BY StoreAt
  <2>2. uops[j].seq < uops[i].seq
    BY <1>8, <2>1
  <2>3. j \in 1 .. i - 1
    <3>1. j < i
      BY <1>4, <2>2
    <3> QED
      BY <3>1
  <2>4. ASSUME NEW l \in j + 1 .. i - 1, uops[l].dec.is_store
        PROVE  ~Q!MayConflict(SlotOf(l), ld)
    <3>1. l \in 1 .. i - 1 /\ l \in 1 .. Len(rob) /\ j < l
      BY <1>2
    <3>2. PICK m \in 0 .. sq.count - 1 :
            Q!Nth(sq, m) = SlotOf(l) /\ Q!Nth(sq, m).seq = uops[l].seq /\ Q!Nth(sq, m).seq < ld.seq
      BY <1>5, <2>4, <3>1
    <3>3. Q!Nth(sq, k).seq < Q!Nth(sq, m).seq /\ Q!Nth(sq, k).seq \in Nat /\ Q!Nth(sq, m).seq \in Nat
      <4>1. uops[j].seq < uops[l].seq
        BY <1>4, <3>1
      <4>2. uops[j].seq \in Nat /\ uops[l].seq \in Nat
        BY <1>1, <1>2, <3>1 DEF Numbered
      <4> QED
        BY <2>1, <3>2, <4>1, <4>2
    <3>4. ~(m < k) /\ m # k
      <4>1. m < k => Q!Nth(sq, m).seq < Q!Nth(sq, k).seq
        BY <1>3 DEF IsRing, Seniority
      <4> DEFINE a == Q!Nth(sq, k).seq
                 b == Q!Nth(sq, m).seq
      <4>2. a < b /\ a \in Nat /\ b \in Nat /\ (m < k => b < a) /\ (m = k => a = b)
        BY <3>3, <4>1
      <4> HIDE DEF a, b
      <4> QED
        BY <4>2
    <3>5. m \in k + 1 .. sq.count - 1
      BY <1>3, <3>4
    <3> QED
      BY <1>8, <3>2, <3>5
  <2> QED
    BY <1>8, <2>1, <2>3, <2>4 DEF SlotOf
<1> QED
  BY <1>6, <1>7, <1>8

\* An access is one, two or four bytes wide.
LEMMA AccessSizes == \A i : Size(i) \in {1, 2, 4}
BY DEF Size, SizeOf, access_size

\* What a store dispatched has told its slot, read back.
LEMMA ToldSlot ==
  ASSUME Told, NEW j \in 1 .. Len(rob), uops[j].seq \notin Range(renameQ), uops[j].dec.is_store
  PROVE  /\ SlotOf(j).size = Size(j)
         /\ ~Started(j) => ~SlotOf(j).addrReady
         /\ Started(j) => SlotOf(j).addrReady /\ SlotOf(j).addr = Addr(j) /\ SlotOf(j).data = Stored(j)
<1>1. StoreTold(rob[j], uops[j], prf, SlotOf(j))
  BY DEF Told, SlotOf
<1> QED
  BY <1>1 DEF StoreTold, Started, Size, Addr, Stored

\* A load that is not sent back finds the bytes program order gives it.
Fills(i, a, bytes) ==
  /\ bytes = [o \in 0 .. Size(i) - 1 |-> bytes[o]]
  /\ \A o \in 0 .. Size(i) - 1 : Holds(i, a + o, bytes[o])

LEMMA LoadFinds ==
  ASSUME Sound, Told, mode = "run", Mod \in Nat \ {0},
         NEW i \in 1 .. Len(rob), uops[i].seq \notin Range(renameQ), NEW a \in 0 .. Mod - Size(i),
         NEW ld, ld.seq = uops[i].seq, ld.addr = a, ld.size = Size(i),
         \A j \in 1 .. i - 1 : Started(j) /\ uops[j].dec.is_store => Inside(j),
         NEW found, found = Q!SearchOlderStores(sq, ld), found.kind # "REPLAY",
         NEW bytes, bytes = IF found.kind = "FORWARD" THEN found.data ELSE LoadBytes(mem, a, Size(i))
  PROVE  Fills(i, a, bytes)
<1> SUFFICES /\ bytes = [o \in 0 .. Size(i) - 1 |-> bytes[o]]
             /\ \A o \in 0 .. Size(i) - 1 : Holds(i, a + o, bytes[o])
  BY DEF Fills
<1>1. Live /\ Size(i) \in {1, 2, 4} /\ a \in Int
  BY AccessSizes DEF Live
<1>2. \A j \in 1 .. i - 1 : j \in 1 .. i
  OBVIOUS
<1>3. ASSUME NEW j \in 1 .. i - 1, uops[j].dec.is_store
      PROVE  /\ SlotOf(j).size = Size(j)
             /\ ~Started(j) => ~SlotOf(j).addrReady
             /\ Started(j) => /\ SlotOf(j).addrReady /\ SlotOf(j).addr = Addr(j)
                              /\ SlotOf(j).data = Stored(j) /\ Addr(j) \in Int /\ Size(j) \in {1, 2, 4}
  <2>1. j \in 1 .. Len(rob) /\ uops[j].seq \notin Range(renameQ)
    BY <1>1, <1>2, OlderSeated
  <2>2. /\ SlotOf(j).size = Size(j)
        /\ ~Started(j) => ~SlotOf(j).addrReady
        /\ Started(j) => SlotOf(j).addrReady /\ SlotOf(j).addr = Addr(j) /\ SlotOf(j).data = Stored(j)
    BY <1>3, <2>1, ToldSlot
  <2>3. Size(j) \in {1, 2, 4}
    BY AccessSizes
  <2>4. Started(j) => Addr(j) \in Int
    BY <1>3, <2>3 DEF Inside
  <2> QED
    BY <2>2, <2>3, <2>4
<1>4. ASSUME NEW j \in 1 .. i - 1, uops[j].dec.is_store => ~Q!MayConflict(SlotOf(j), ld),
             NEW o \in 0 .. Size(i) - 1
      PROVE  Spares(j, a + o)
  <2> SUFFICES ASSUME uops[j].dec.is_store PROVE Started(j) /\ ~Touches(j, a + o)
    BY DEF Spares
  <2>1. SlotOf(j).addrReady /\ Q!Disjoint(SlotOf(j), ld)
    BY <1>4 DEF Q!MayConflict
  <2>2. Started(j)
    BY <1>3, <2>1
  <2>3. SlotOf(j).addr = Addr(j) /\ SlotOf(j).size = Size(j) /\ Addr(j) \in Int /\ Size(j) \in {1, 2, 4}
    BY <1>3, <2>2
  <2>4. Addr(j) + Size(j) <= a \/ Addr(j) >= a + Size(i)
    BY <2>1, <2>3 DEF Q!Disjoint
  <2> QED
    BY <1>1, <2>2, <2>3, <2>4 DEF Touches
<1>5. \/ /\ found.kind = "NO_MATCH"
         /\ \A j \in 1 .. i - 1 : uops[j].dec.is_store => ~Q!MayConflict(SlotOf(j), ld)
      \/ /\ found.kind = "FORWARD"
         /\ \E j \in 1 .. i - 1 :
              /\ uops[j].dec.is_store /\ Q!Settles(SlotOf(j), ld)
              /\ found.data = Q!Extract(SlotOf(j), ld)
              /\ \A l \in j + 1 .. i - 1 : uops[l].dec.is_store => ~Q!MayConflict(SlotOf(l), ld)
  BY SearchMeans
<1>6. CASE /\ found.kind = "NO_MATCH"
           /\ \A j \in 1 .. i - 1 : uops[j].dec.is_store => ~Q!MayConflict(SlotOf(j), ld)
  <2>1. bytes = [o \in 0 .. Size(i) - 1 |-> load_u8(mem, Wrap(a + o))]
    BY <1>6 DEF LoadBytes
  <2>2. ASSUME NEW o \in 0 .. Size(i) - 1
        PROVE  Holds(i, a + o, bytes[o])
    <3>1. a + o \in 0 .. Mod - 1
      BY <1>1
    <3>2. Wrap(a + o) = a + o
      <4> DEFINE x == a + o
      <4>1. x \in 0 .. Mod - 1
        BY <3>1
      <4> HIDE DEF x
      <4>2. x % Mod = x
        BY <4>1, ModInside
      <4> QED
        BY <4>2 DEF Wrap, x
    <3>3. bytes[o] = load_u8(mem, a + o)
      BY <2>1, <3>2
    <3>4. \A j \in 1 .. i - 1 : Spares(j, a + o)
      BY <1>4, <1>6
    <3> QED
      BY <3>3, <3>4 DEF Holds, HoldsAll
  <2> QED
    BY <2>1, <2>2
<1>7. ASSUME NEW j \in 1 .. i - 1, found.kind = "FORWARD",
             uops[j].dec.is_store, Q!Settles(SlotOf(j), ld), found.data = Q!Extract(SlotOf(j), ld),
             \A l \in j + 1 .. i - 1 : uops[l].dec.is_store => ~Q!MayConflict(SlotOf(l), ld)
      PROVE  /\ bytes = [o \in 0 .. Size(i) - 1 |-> bytes[o]]
             /\ \A o \in 0 .. Size(i) - 1 : Holds(i, a + o, bytes[o])
  <2>1. SlotOf(j).addrReady /\ Q!Covers(SlotOf(j), ld)
    BY <1>7 DEF Q!Settles
  <2>2. Started(j)
    BY <1>3, <1>7, <2>1
  <2>3. /\ SlotOf(j).addr = Addr(j) /\ SlotOf(j).size = Size(j) /\ SlotOf(j).data = Stored(j)
        /\ Addr(j) \in Int /\ Size(j) \in {1, 2, 4}
    BY <1>3, <1>7, <2>2
  <2>4. bytes = [o \in 0 .. Size(i) - 1 |-> Stored(j)[a - Addr(j) + o]]
    BY <1>7, <2>3 DEF Q!Extract
  <2>5. Addr(j) <= a /\ a + Size(i) <= Addr(j) + Size(j)
    BY <1>1, <2>1, <2>3 DEF Q!Covers
  <2>6. ASSUME NEW o \in 0 .. Size(i) - 1
        PROVE  Holds(i, a + o, bytes[o])
    <3>1. Addr(j) <= a + o /\ a + o < Addr(j) + Size(j) /\ a - Addr(j) + o = (a + o) - Addr(j)
      <4> DEFINE x == Addr(j)
                 m == Size(j)
                 n == Size(i)
      <4>1. x \in Int /\ m \in Int /\ n \in Int /\ a \in Int /\ o \in 0 .. n - 1
        BY <1>1, <2>3
      <4>2. x <= a /\ a + n <= x + m
        BY <2>5
      <4> HIDE DEF x, m, n
      <4>3. x <= a + o /\ a + o < x + m /\ a - x + o = (a + o) - x
        BY <4>1, <4>2
      <4> QED
        BY <4>3 DEF x, m
    <3>2. bytes[o] = Stored(j)[(a + o) - Addr(j)]
      BY <2>4, <3>1
    <3>3. \A l \in j + 1 .. i - 1 : Spares(l, a + o)
      <4> SUFFICES ASSUME NEW l \in j + 1 .. i - 1 PROVE Spares(l, a + o)
        OBVIOUS
      <4>1. l \in 1 .. i - 1
        OBVIOUS
      <4> QED
        BY <1>4, <1>7, <4>1
    <3>4. HoldsFrom(i, j, a + o, bytes[o])
      BY <1>7, <2>2, <3>1, <3>2, <3>3 DEF HoldsFrom, Touches
    <3> QED
      BY <3>4 DEF Holds
  <2> QED
    BY <2>4, <2>6
<1> QED
  BY <1>5, <1>6, <1>7

-----------------------------------------------------------------------------
(* issue() starts instruction k. *)

Launches(k) ==
  /\ k = Considered /\ k \in 1 .. Len(rob) /\ Considers
  /\ Carried(0, k) /\ Len(rob') = Len(rob) /\ Len(rob) \in Nat
  /\ mode = "run" /\ mode' = "run" /\ prf' = prf
  /\ UNCHANGED <<mem, archPc, outcome, fetchQ, decodeQ, renameQ, pc, stalled>>
  /\ rob[k].state = "waiting" /\ rob'[k].state = "issued" /\ RP!Same(rob[k], rob'[k])
  /\ \A j \in 1 .. Len(rob) :
       uops'[j].seq = uops[j].seq /\ uops'[j].lsq = uops[j].lsq /\ uops'[j].dec = uops[j].dec
  /\ uops'[k].pc = uops[k].pc /\ uops'[k].pred = uops[k].pred
  /\ offender' = IF uops'[k].next # uops[k].pred /\ (offender = 0 \/ k < offender) THEN k
                 ELSE offender

\* Whatever issue() starts, starts so.
LEMMA StartsLaunches ==
  ASSUME Sound, Considers, NEW u, NEW lat, NEW Y, u \in UopOver(Y),
         Starts(u, lat), u.seq = uops[Considered].seq, u.dec = uops[Considered].dec,
         u.lsq = uops[Considered].lsq, u.pc = uops[Considered].pc, u.pred = uops[Considered].pred
  PROVE  /\ Launches(Considered)
         /\ uops'[Considered].next = u.next /\ uops'[Considered].result = u.result
<1> DEFINE k == Considered
<1>1. /\ Carried(0, k) /\ Len(rob') = Len(rob) /\ Len(rob) \in Nat
      /\ mode = "run" /\ mode' = mode /\ prf' = prf /\ k \in 1 .. Len(rob)
      /\ rob[k].state = "waiting" /\ rob'[k].state = "issued" /\ RP!Same(rob[k], rob'[k])
      /\ SameUop(u, uops'[k]) /\ uops'[k].lsq = u.lsq
      /\ \A j \in 1 .. Len(rob) : j # k => rob'[j] = rob[j] /\ uops'[j] = uops[j]
  BY CarriedStarts
<1>2. UNCHANGED <<mem, archPc, outcome, fetchQ, decodeQ, renameQ, pc, stalled>>
  BY DEF Considers, fronts, arch
<1>3. offender' = IF u.next # u.pred /\ (offender = 0 \/ k < offender) THEN k ELSE offender
  BY DEF Starts, Ren!Issue, Mispredicts
<1> HIDE DEF k
<1>4. /\ uops'[k].next = u.next /\ uops'[k].result = u.result /\ uops'[k].pred = u.pred
      /\ uops'[k].pc = u.pc /\ uops'[k].seq = u.seq /\ uops'[k].dec = u.dec
  BY <1>1 DEF SameUop
<1>5. /\ u.seq = uops[k].seq /\ u.dec = uops[k].dec
      /\ u.lsq = uops[k].lsq /\ u.pc = uops[k].pc /\ u.pred = uops[k].pred
  BY DEF k
<1>6. \A j \in 1 .. Len(rob) :
        uops'[j].seq = uops[j].seq /\ uops'[j].lsq = uops[j].lsq /\ uops'[j].dec = uops[j].dec
  BY <1>1, <1>4, <1>5
<1>7. offender' = IF uops'[k].next # uops[k].pred /\ (offender = 0 \/ k < offender) THEN k
                  ELSE offender
  BY <1>3, <1>4, <1>5
<1>8. Launches(k)
  BY <1>1, <1>2, <1>4, <1>5, <1>6, <1>7 DEF Launches, k
<1> QED
  BY <1>4, <1>8 DEF k

\* A load keeps the fall-through for its next pc.
LEMMA IssueLoadStep ==
  ASSUME Sound, IssueLoad,
         NEW bytes, bytes = IF Found.kind = "FORWARD" THEN Found.data
                            ELSE LoadBytes(mem, Address, access_size(Wanted.op))
  PROVE  /\ Launches(Considered) /\ Wanted.is_load /\ Found.kind # "REPLAY"
         /\ lq' = Addressed(lq) /\ sq' = sq
         /\ uops'[Considered].next = uops[Considered].next
         /\ uops'[Considered].result = extend_load(Wanted.op, ValueOf(bytes))
<1> DEFINE v == extend_load(Wanted.op, ValueOf(bytes))
           u == [uops[Considered] EXCEPT !.result = v]
           lat == IF Found.kind = "FORWARD" THEN 1 ELSE latency_of(Wanted)
<1>1. /\ Considers /\ Wanted.is_load /\ Found.kind # "REPLAY"
      /\ lq' = Addressed(lq) /\ sq' = sq /\ Starts(u, lat)
  BY DEF IssueLoad
<1>2. Considered \in 1 .. Len(uops)
  BY <1>1, ConsideredFacts DEF Sound
<1>3. PICK X : uops \in Seq(UopOver(X))
  BY DEF Sound, Grounded, InStep
<1> HIDE DEF v, lat
<1> DEFINE w == uops[Considered]
<1>4. u = [w EXCEPT !.result = v] /\ w \in UopOver(X)
  BY <1>2, <1>3
<1> HIDE DEF u, w
<1>5. /\ u \in UopOver(X \cup {v})
      /\ u.seq = w.seq /\ u.dec = w.dec /\ u.lsq = w.lsq /\ u.pc = w.pc /\ u.pred = w.pred
      /\ u.next = w.next /\ u.result = v
  BY <1>4 DEF UopOver
<1>6. /\ Launches(Considered)
      /\ uops'[Considered].next = u.next /\ uops'[Considered].result = u.result
  BY <1>1, <1>5, StartsLaunches DEF w
<1> QED
  BY <1>1, <1>5, <1>6 DEF v, w

\* Everything else computes its result and where it goes.
LEMMA IssueOtherStep ==
  ASSUME Sound, IssueOther
  PROVE  /\ Launches(Considered) /\ ~Wanted.is_load /\ lq' = lq
         /\ sq' = IF Wanted.is_store
                  THEN Q!ResolveData(Addressed(sq), uops[Considered].lsq,
                                     BytesOf(Val2, access_size(Wanted.op)))
                  ELSE sq
         /\ uops'[Considered].next = NextPc(Wanted, uops[Considered].pc, Val1, Val2)
         /\ uops'[Considered].result = Result(Wanted, uops[Considered].pc, Val1, Val2)
<1> DEFINE d == Wanted
           w == uops[Considered]
           v == Result(d, w.pc, Val1, Val2)
           n == NextPc(d, w.pc, Val1, Val2)
           u == [w EXCEPT !.result = v, !.next = n]
           b == BytesOf(Val2, access_size(d.op))
<1>1. /\ Considers /\ ~d.is_load /\ lq' = lq /\ Starts(u, latency_of(d))
      /\ sq' = IF d.is_store THEN Q!ResolveData(Addressed(sq), w.lsq, b) ELSE sq
  BY DEF IssueOther
<1>2. Considered \in 1 .. Len(uops)
  BY <1>1, ConsideredFacts DEF Sound
<1>3. PICK X : uops \in Seq(UopOver(X))
  BY DEF Sound, Grounded, InStep
<1> HIDE DEF v, n
<1>4. w \in UopOver(X)
  BY <1>2, <1>3
<1> HIDE DEF w
<1>5. /\ u \in UopOver(X \cup {v, n})
      /\ u.seq = w.seq /\ u.dec = w.dec /\ u.lsq = w.lsq /\ u.pc = w.pc /\ u.pred = w.pred
      /\ u.next = n /\ u.result = v
  BY <1>4 DEF UopOver
<1> HIDE DEF u
<1>6. /\ Launches(Considered)
      /\ uops'[Considered].next = u.next /\ uops'[Considered].result = u.result
  BY <1>1, <1>5, StartsLaunches DEF w
<1> QED
  BY <1>1, <1>5, <1>6 DEF v, w, n

\* What starts was waiting.
LEMMA LaunchFresh ==
  ASSUME NEW k, Launches(k)
  PROVE  /\ Fresh(k) /\ k \in 1 .. Len(rob') /\ uops'[k].dec = Wanted /\ uops[k].dec = Wanted
         /\ Addr(k)' = Address /\ Size(k)' = Size(k) /\ Size(k) = access_size(Wanted.op)
         /\ Started(k)' /\ ~Started(k)
<1>1. uops'[k].dec = Wanted /\ uops[k].dec = Wanted /\ ~Started(k) /\ k \in 1 .. Len(rob')
  BY DEF Launches, Wanted, Started
<1>2. AddrOf(rob'[k], uops'[k], prf') = Address /\ SizeOf(uops'[k]) = SizeOf(uops[k])
  BY <1>1 DEF Launches, AddrOf, SizeOf, Address, Val1, RP!Same
<1>3. Addr(k)' = Address /\ Size(k)' = Size(k) /\ Size(k) = access_size(Wanted.op)
  BY <1>1, <1>2 DEF Addr, Size, AddrOf, SizeOf
<1>4. Started(k)'
  BY DEF Launches, Started
<1> QED
  BY <1>1, <1>3, <1>4 DEF Fresh

\* A load that starts reads what it is to read.
LEMMA LoadsIssueLoad ==
  ASSUME Sound, Told, LoadsRead, Mod \in Nat \ {0}, IssueLoad
  PROVE  LoadsRead'
<1>0. PICK k : k = Considered
  OBVIOUS
<1> DEFINE bytes == IF Found.kind = "FORWARD" THEN Found.data
                    ELSE LoadBytes(mem, Address, access_size(Wanted.op))
           ld == Addressed(lq).slots[uops[k].lsq]
<1>1. /\ Launches(k) /\ Wanted.is_load /\ Found.kind # "REPLAY"
      /\ uops'[k].result = extend_load(Wanted.op, ValueOf(bytes))
  BY <1>0, IssueLoadStep
<1>2. /\ Fresh(k) /\ k \in 1 .. Len(rob') /\ uops'[k].dec = Wanted /\ uops[k].dec = Wanted
      /\ Addr(k)' = Address /\ Size(k)' = Size(k) /\ Size(k) = access_size(Wanted.op)
      /\ Started(k)' /\ ~Started(k)
  BY <1>1, LaunchFresh
<1>3. /\ Carried(0, k) /\ mem' = mem /\ Len(rob) \in Nat /\ Len(rob') \in Nat /\ mode = "run"
      /\ Len(rob') = Len(rob) /\ k \in 1 .. Len(rob) /\ Considers
  BY <1>1 DEF Launches
<1>4. Live /\ uops[k].seq \notin Range(renameQ)
  BY <1>0, <1>3, ConsideredFacts DEF Sound
<1>5. ld.seq = uops[k].seq /\ ld.addr = Address /\ ld.size = Size(k)
  <2>1. /\ uops[k].lsq \in 0 .. LqSize - 1 /\ lq.slots[uops[k].lsq].seq = uops[k].seq
    BY <1>1, <1>2, <1>3, <1>4, SeatOf
  <2>2. lq.slots[uops[k].lsq].size = Size(k)
    BY <1>1, <1>2, <1>3, <1>4 DEF Told, Size
  <2>3. /\ \A m \in 0 .. LqSize - 1 :
              Addressed(lq).slots[m].size = lq.slots[m].size /\ Addressed(lq).slots[m].seq = lq.slots[m].seq
        /\ ld.addr = Address
    BY <1>0, <1>1, <1>3, AddressedSizes
  <2> QED
    BY <2>1, <2>2, <2>3
<1>6. Found = Q!SearchOlderStores(sq, ld)
  BY <1>0 DEF Found
<1>7. bytes = IF Found.kind = "FORWARD" THEN Found.data ELSE LoadBytes(mem, Address, Size(k))
  BY <1>2
<1> HIDE DEF bytes, ld
<1>8. ASSUME AllInside(k)' PROVE \E bs : ReadBytes(k, bs)'
  <2>1. Address \in 0 .. Mod - Size(k)
    <3>1. Inside(k)'
      BY <1>1, <1>2, <1>3, <1>8 DEF AllInside
    <3>2. Addr(k)' \in 0 .. Mod - Size(k)'
      BY <3>1 DEF Inside, Mod
    <3> QED
      BY <1>2, <3>2
  <2>2. ASSUME NEW j \in 1 .. k - 1, Started(j), uops[j].dec.is_store
        PROVE  Inside(j)
    <3>1. j \in 1 .. Len(rob') /\ j # k /\ j \in 1 .. k
      BY <1>3
    <3>2. Started(j)' /\ uops'[j].dec = uops[j].dec /\ Addr(j)' = Addr(j) /\ Size(j)' = Size(j)
      BY <1>3, <2>2, <3>1, AccessCarried
    <3>3. Inside(j)'
      BY <1>8, <2>2, <3>1, <3>2 DEF AllInside
    <3> QED
      BY <3>2, <3>3 DEF Inside, Mod
  <2> PICK a, bs, s, found : a = Address /\ bs = bytes /\ s = ld /\ found = Found
    OBVIOUS
  <2>3. /\ bs = [o \in 0 .. Size(k) - 1 |-> bs[o]]
        /\ \A o \in 0 .. Size(k) - 1 : Holds(k, a + o, bs[o])
    <3>1. /\ s.seq = uops[k].seq /\ s.addr = a /\ s.size = Size(k)
          /\ found = Q!SearchOlderStores(sq, s) /\ found.kind # "REPLAY"
          /\ bs = IF found.kind = "FORWARD" THEN found.data ELSE LoadBytes(mem, a, Size(k))
          /\ a \in 0 .. Mod - Size(k)
      BY <1>1, <1>5, <1>6, <1>7, <2>1
    <3>2. \A j \in 1 .. k - 1 : Started(j) /\ uops[j].dec.is_store => Inside(j)
      BY <2>2
    <3>3. Told /\ mode = "run" /\ Mod \in Nat \ {0} /\ k \in 1 .. Len(rob)
      BY <1>3
    <3>4. Fills(k, a, bs)
      BY <1>4, <3>1, <3>2, <3>3, LoadFinds
    <3> QED
      BY <3>4 DEF Fills
  <2>4. ASSUME NEW o \in 0 .. Size(k) - 1
        PROVE  Holds(k, Addr(k) + o, bs[o])'
    <3>1. Holds(k, a + o, bs[o])
      BY <2>3
    <3>2. \A w : w = a + o => Holds(k, w, bs[o])'
      BY <1>2, <1>3, <3>1, HoldsCarried
    <3>3. \A w : w = Addr(k)' + o => Holds(k, w, bs[o])'
      BY <1>2, <3>2
    <3> QED
      BY <3>3
  <2>5. ReadBytes(k, bs)'
    BY <1>1, <1>2, <2>3, <2>4 DEF ReadBytes
  <2> QED
    BY <2>5
<1> QED
  BY <1>3, <1>2, <1>8, LoadsCarried

\* Nothing else that starts is a load.
LEMMA LoadsIssueOther ==
  ASSUME Sound, LoadsRead, IssueOther
  PROVE  LoadsRead'
<1>0. PICK k : k = Considered
  OBVIOUS
<1>1. Launches(k) /\ ~Wanted.is_load
  BY <1>0, IssueOtherStep
<1>2. Fresh(k) /\ uops'[k].dec = Wanted
  BY <1>1, LaunchFresh
<1>3. Carried(0, k) /\ mem' = mem /\ Len(rob) \in Nat /\ Len(rob') \in Nat
  BY <1>1 DEF Launches
<1> QED
  BY <1>1, <1>2, <1>3, LoadsCarried

-----------------------------------------------------------------------------
(* A store reaches memory. *)

\* A byte read back after a store that does not wrap.
ReadBack(m, addr, size, bytes, a) ==
  IF addr <= a /\ a < addr + size THEN bytes[a - addr] ELSE load_u8(m, a)

Fits(addr, size, bytes) ==
  size \in {1, 2, 4} /\ addr \in 0 .. Mod - size /\ DOMAIN bytes = 0 .. size - 1

LEMMA StoreThenLoad ==
  ASSUME Mod \in Nat \ {0}, NEW addr, NEW size, NEW bytes, Fits(addr, size, bytes),
         NEW m, NEW a \in 0 .. Mod - 1
  PROVE  load_u8(StoreBytes(m, addr, bytes), a) = ReadBack(m, addr, size, bytes, a)
<1> DEFINE new == StoreBytes(m, addr, bytes)
           D == DOMAIN m \cup {Wrap(addr + k) : k \in DOMAIN bytes}
           at(x) == LET k == Wrap(x - addr) IN IF k \in DOMAIN bytes THEN bytes[k] ELSE m[x]
<1>0. size \in {1, 2, 4} /\ addr \in 0 .. Mod - size /\ DOMAIN bytes = 0 .. size - 1
  BY DEF Fits
<1> USE <1>0
<1>1. new = [x \in D |-> at(x)]
  BY DEF StoreBytes
<1>2. ASSUME NEW k \in 0 .. size - 1
      PROVE  Wrap(addr + k) = addr + k
  <2>1. addr + k \in 0 .. Mod - 1
    OBVIOUS
  <2> DEFINE x == addr + k
  <2>2. x \in 0 .. Mod - 1
    BY <2>1
  <2> HIDE DEF x
  <2>3. x % Mod = x
    BY <2>2, ModInside
  <2> QED
    BY <2>3 DEF x, Wrap
<1>3. a \in D <=> a \in DOMAIN m \/ (addr <= a /\ a < addr + size)
  <2>1. addr <= a /\ a < addr + size => a - addr \in 0 .. size - 1 /\ addr + (a - addr) = a
    OBVIOUS
  <2>2. ASSUME addr <= a, a < addr + size PROVE a \in D
    <3>1. Wrap(addr + (a - addr)) = a /\ a - addr \in DOMAIN bytes
      BY <1>2, <2>1, <2>2
    <3> QED
      BY <3>1
  <2>3. ASSUME NEW k \in DOMAIN bytes, a = Wrap(addr + k)
        PROVE  addr <= a /\ a < addr + size
    <3>1. a = addr + k /\ k \in 0 .. size - 1
      BY <1>2, <2>3
    <3> QED
      BY <3>1
  <2> QED
    BY <2>2, <2>3
<1>4. Wrap(a - addr) \in 0 .. size - 1 <=> addr <= a /\ a < addr + size
  <2> DEFINE x == a - addr
  <2>1. CASE addr <= a
    <3>1. x \in 0 .. Mod - 1
      BY <2>1
    <3> HIDE DEF x
    <3>2. x % Mod = x
      BY <3>1, ModInside
    <3> QED
      BY <2>1, <3>2 DEF x, Wrap
  <2>2. CASE a < addr
    <3>1. x \in -Mod .. -1 /\ x + Mod \notin 0 .. size - 1
      BY <2>2
    <3> HIDE DEF x
    <3>2. x % Mod = x + Mod
      BY <3>1, ModBefore
    <3> QED
      BY <2>2, <3>1, <3>2 DEF x, Wrap
  <2> QED
    BY <2>1, <2>2
<1>5. addr <= a /\ a < addr + size => Wrap(a - addr) = a - addr
  <2> DEFINE x == a - addr
  <2> SUFFICES ASSUME addr <= a, a < addr + size PROVE Wrap(x) = x
    OBVIOUS
  <2>1. x \in 0 .. Mod - 1
    OBVIOUS
  <2> HIDE DEF x
  <2>2. x % Mod = x
    BY <2>1, ModInside
  <2> QED
    BY <2>2 DEF Wrap
<1>6. at(a) = IF addr <= a /\ a < addr + size THEN bytes[a - addr] ELSE m[a]
  BY <1>4, <1>5
<1> HIDE DEF D, at
<1>7. DOMAIN new = D /\ (a \in D => new[a] = at(a))
  BY <1>1
<1> HIDE DEF new
<1> QED
  BY <1>3, <1>6, <1>7 DEF load_u8, new, ReadBack

\* The oldest store has the first seat.
LEMMA HeadStore ==
  ASSUME Sound, CommitOne, Told, uops[1].dec.is_store
  PROVE  Q!Nth(sq, 0).addr = Addr(1) /\ Q!Nth(sq, 0).data = Stored(1)
<1>1. /\ Len(rob) \in Nat /\ Len(rob) >= 1 /\ rob[1].state = "complete" /\ mode = "run" /\ Live
  BY CarriedCommit DEF Live
<1>2. /\ Numbered /\ Placed /\ Seated /\ InStep /\ RP!TypeOK /\ SqSize \in Nat \ {0}
      /\ Len(uops) = Len(rob) /\ 1 \in 1 .. Len(rob)
  BY <1>1, CarriedCommit, PipelineAssumption DEF Sound, InPlace, Grounded
<1>3. uops[1].seq \notin Range(renameQ)
  BY <1>1, <1>2 DEF Placed, Waiting
<1>4. PICK k \in 0 .. sq.count - 1 :
        Q!Nth(sq, k) = SlotOf(1) /\ Q!Nth(sq, k).seq = uops[1].seq
  BY <1>1, <1>2, <1>3, StoreSeat DEF SlotOf
<1>5. sq.count \in Nat /\ IsRing(sq, SqSize)
  <2>1. IsRing(sq, SqSize)
    BY <1>2 DEF Seated
  <2>2. PICK X : sq \in Rings(SqSize, X)
    BY <2>1 DEF IsRing
  <2> QED
    BY <1>2, <2>1, <2>2, RingFields
<1>6. 0 \in 0 .. sq.count - 1
  BY <1>5
<1>7. PICK j \in 1 .. Len(rob) : Q!Nth(sq, 0).seq = uops[j].seq
  BY <1>1, <1>6, StoreAt
<1>8. uops[j].seq \in Nat /\ uops[1].seq \in Nat /\ (1 < j => uops[1].seq < uops[j].seq)
  BY <1>2, <1>7 DEF Numbered
<1>9. 0 < k => Q!Nth(sq, 0).seq < Q!Nth(sq, k).seq
  BY <1>5, <1>6 DEF IsRing, Seniority
<1>10. k = 0
  <2>1. j = 1 \/ 1 < j
    OBVIOUS
  <2> DEFINE x == uops[1].seq
             y == uops[j].seq
  <2>2. x \in Nat /\ y \in Nat /\ (1 < j => x < y) /\ (0 < k => y < x) /\ (j = 1 => x = y)
    BY <1>4, <1>7, <1>8, <1>9
  <2> HIDE DEF x, y
  <2> QED
    BY <2>1, <2>2
<1>11. SlotOf(1).addr = Addr(1) /\ SlotOf(1).data = Stored(1)
  BY <1>1, <1>2, <1>3, ToldSlot DEF Started
<1> QED
  BY <1>4, <1>10, <1>11

\* What commit() puts in memory.
Wrote(i, a) == IF Touches(i, a) THEN Stored(i)[a - Addr(i)] ELSE load_u8(mem, a)

\* Memory after commit(), byte by byte.
LEMMA CommitMemory ==
  ASSUME Sound, CommitOne, Told, Mod \in Nat \ {0}, uops[1].dec.is_store => Inside(1)
  PROVE  /\ ~uops[1].dec.is_store => mem' = mem
         /\ uops[1].dec.is_store =>
              /\ mem' = StoreBytes(mem, Addr(1), Stored(1))
              /\ \A a \in 0 .. Mod - 1 : load_u8(mem', a) = Wrote(1, a)
<1>1. Head(uops) = uops[1]
  BY CarriedCommit
<1>2. mem' = IF uops[1].dec.is_store THEN StoreBytes(mem, Q!Nth(sq, 0).addr, Q!Nth(sq, 0).data) ELSE mem
  BY <1>1 DEF CommitOne
<1>3. ASSUME uops[1].dec.is_store
      PROVE  /\ mem' = StoreBytes(mem, Addr(1), Stored(1))
             /\ \A a \in 0 .. Mod - 1 : load_u8(mem', a) = Wrote(1, a)
  <2>1. mem' = StoreBytes(mem, Addr(1), Stored(1))
    BY <1>2, <1>3, HeadStore
  <2>2. Addr(1) \in 0 .. Mod - Size(1) /\ Size(1) \in {1, 2, 4}
    BY <1>3, AccessSizes DEF Inside
  <2>3. DOMAIN Stored(1) = 0 .. Size(1) - 1
    BY DEF Stored, DataOf, BytesOf, Size
  <2> SUFFICES ASSUME NEW a \in 0 .. Mod - 1
               PROVE  load_u8(StoreBytes(mem, Addr(1), Stored(1)), a) = Wrote(1, a)
    BY <2>1
  <2>4. load_u8(StoreBytes(mem, Addr(1), Stored(1)), a) = ReadBack(mem, Addr(1), Size(1), Stored(1), a)
    <3> PICK x, s, bytes, m : x = Addr(1) /\ s = Size(1) /\ bytes = Stored(1) /\ m = mem
      OBVIOUS
    <3>1. Fits(x, s, bytes)
      BY <2>2, <2>3 DEF Fits
    <3>2. load_u8(StoreBytes(m, x, bytes), a) = ReadBack(m, x, s, bytes, a)
      BY <3>1, StoreThenLoad
    <3> QED
      BY <3>2
  <2> QED
    BY <2>4 DEF Wrote, Touches, ReadBack
<1> QED
  BY <1>2, <1>3

\* What the loads behind the head have read is right still: the head's bytes
\* are memory's now.
LEMMA LoadsCommit ==
  ASSUME Sound, CommitOne, Live', Told, LoadsRead, Mod \in Nat \ {0},
         uops[1].dec.is_load \/ uops[1].dec.is_store => Inside(1)
  PROVE  LoadsRead'
<1> DEFINE n == Len(rob)
<1>1. /\ n \in Nat /\ n >= 1 /\ rob[1].state = "complete" /\ Len(rob') = n - 1
      /\ \A i \in 1 .. n - 1 : i + 1 \in 1 .. n /\ rob'[i] = rob[i + 1] /\ uops'[i] = uops[i + 1]
  BY CarriedCommit
<1>2. prf' = prf
  BY DEF CommitOne
<1>3. ASSUME NEW i \in 1 .. n - 1
      PROVE  /\ Addr(i)' = Addr(i + 1) /\ Size(i)' = Size(i + 1) /\ Stored(i)' = Stored(i + 1)
             /\ Started(i)' <=> Started(i + 1)
             /\ uops'[i] = uops[i + 1]
             /\ \A a : Touches(i, a)' <=> Touches(i + 1, a)
             /\ \A a : Spares(i, a)' <=> Spares(i + 1, a)
  <2>1. rob'[i] = rob[i + 1] /\ uops'[i] = uops[i + 1]
    BY <1>1
  <2>2. Addr(i)' = Addr(i + 1) /\ Size(i)' = Size(i + 1) /\ Stored(i)' = Stored(i + 1)
        /\ (Started(i)' <=> Started(i + 1))
    BY <1>2, <2>1 DEF Addr, Size, Stored, AddrOf, SizeOf, DataOf, Started
  <2>3. \A a : Touches(i, a)' <=> Touches(i + 1, a)
    BY <2>2 DEF Touches
  <2>4. \A a : Spares(i, a)' <=> Spares(i + 1, a)
    BY <2>1, <2>2, <2>3 DEF Spares
  <2> QED
    BY <2>1, <2>2, <2>3, <2>4
<1>4. /\ ~uops[1].dec.is_store => mem' = mem
      /\ uops[1].dec.is_store => \A a \in 0 .. Mod - 1 : load_u8(mem', a) = Wrote(1, a)
  BY CommitMemory
<1> SUFFICES ASSUME NEW i \in 1 .. n - 1, uops'[i].dec.is_load, Started(i)', AllInside(i)'
             PROVE  \E bytes : ReadBytes(i, bytes)'
  BY <1>1 DEF LoadsRead
<1>5. AllInside(i + 1)
  <2> SUFFICES ASSUME NEW j \in 1 .. i + 1, Started(j), uops[j].dec.is_load \/ uops[j].dec.is_store
               PROVE  Inside(j)
    BY DEF AllInside
  <2>1. CASE j = 1
    BY <2>1
  <2>2. CASE j # 1
    <3>1. PICK l \in 1 .. i : j = l + 1
      <4>1. j - 1 \in 1 .. i /\ j = (j - 1) + 1
        BY <1>1, <2>2
      <4> QED
        BY <4>1
    <3>2. l \in 1 .. n - 1
      BY <1>1
    <3>3. Started(l)' /\ (uops'[l].dec.is_load \/ uops'[l].dec.is_store)
      BY <1>3, <3>1, <3>2
    <3>4. Inside(l)'
      BY <3>3 DEF AllInside
    <3>5. Addr(l)' = Addr(j) /\ Size(l)' = Size(j)
      BY <1>3, <3>1, <3>2
    <3> QED
      BY <3>4, <3>5 DEF Inside, Mod
  <2> QED
    BY <2>1, <2>2
<1>6. i + 1 \in 1 .. n /\ uops[i + 1].dec.is_load /\ Started(i + 1)
  BY <1>1, <1>3
<1>7. PICK bytes : ReadBytes(i + 1, bytes)
  BY <1>5, <1>6 DEF LoadsRead
<1>8. Addr(i + 1) \in 0 .. Mod - Size(i + 1) /\ Size(i + 1) \in {1, 2, 4}
  <2>1. i + 1 \in 1 .. i + 1
    BY <1>1
  <2> QED
    BY <1>5, <1>6, <2>1, AccessSizes DEF AllInside, Inside
<1>9. ASSUME NEW a \in 0 .. Mod - 1, NEW b, Holds(i + 1, a, b)
      PROVE  Holds(i, a, b)'
  <2>1. CASE HoldsAll(i + 1, a, b)
    <3>1. b = load_u8(mem, a) /\ Spares(1, a)
      BY <1>1, <2>1 DEF HoldsAll
    <3>2. load_u8(mem', a) = load_u8(mem, a)
      BY <1>4, <3>1 DEF Spares, Wrote
    <3>3. \A l \in 1 .. i - 1 : Spares(l, a)'
      <4> SUFFICES ASSUME NEW l \in 1 .. i - 1 PROVE Spares(l, a)'
        OBVIOUS
      <4>1. l \in 1 .. n - 1 /\ l + 1 \in 1 .. (i + 1) - 1
        <5>1. n \in Nat
          BY <1>1
        <5> HIDE DEF n
        <5> QED
          BY <5>1
      <4> QED
        BY <1>3, <2>1, <4>1 DEF HoldsAll
    <3>4. HoldsAll(i, a, b)'
      BY <3>1, <3>2, <3>3 DEF HoldsAll
    <3> QED
      BY <3>4 DEF Holds
  <2>2. ASSUME NEW j \in 1 .. (i + 1) - 1, HoldsFrom(i + 1, j, a, b)
        PROVE  Holds(i, a, b)'
    <3>1. uops[j].dec.is_store /\ Started(j) /\ Touches(j, a) /\ b = Stored(j)[a - Addr(j)]
      BY <2>2 DEF HoldsFrom
    <3>2. \A l \in j .. i - 1 : Spares(l, a)'
      <4> SUFFICES ASSUME NEW l \in j .. i - 1 PROVE Spares(l, a)'
        OBVIOUS
      <4>1. l \in 1 .. n - 1 /\ l + 1 \in j + 1 .. (i + 1) - 1
        BY <1>1
      <4> QED
        BY <1>3, <2>2, <4>1 DEF HoldsFrom
    <3>3. CASE j = 1
      <4>1. b = load_u8(mem', a)
        BY <1>4, <3>1, <3>3 DEF Wrote
      <4>2. HoldsAll(i, a, b)'
        BY <3>2, <3>3, <4>1 DEF HoldsAll
      <4> QED
        BY <4>2 DEF Holds
    <3>4. CASE j # 1
      <4>1. PICK l \in 1 .. i - 1 : j = l + 1
        <5>1. j - 1 \in 1 .. i - 1 /\ j = (j - 1) + 1
          BY <1>1, <3>4
        <5> QED
          BY <5>1
      <4>2. l \in 1 .. n - 1
        BY <1>1
      <4>3. /\ uops'[l].dec.is_store /\ Started(l)' /\ Touches(l, a)'
            /\ b = Stored(l)'[a - Addr(l)']
        BY <1>3, <3>1, <4>1, <4>2
      <4>4. \A k \in l + 1 .. i - 1 : Spares(k, a)'
        BY <3>2, <4>1
      <4>5. HoldsFrom(i, l, a, b)'
        BY <4>3, <4>4 DEF HoldsFrom
      <4> QED
        BY <4>5 DEF Holds
    <3> QED
      BY <3>3, <3>4
  <2> QED
    BY <1>9, <2>1, <2>2 DEF Holds
<1>10. ASSUME NEW o \in 0 .. Size(i + 1) - 1
       PROVE  Holds(i, Addr(i) + o, bytes[o])'
  <2>1. Addr(i + 1) + o \in 0 .. Mod - 1
    <3> DEFINE x == Addr(i + 1)
               s == Size(i + 1)
    <3>1. x \in 0 .. Mod - s /\ s \in {1, 2, 4} /\ o \in 0 .. s - 1
      BY <1>8
    <3> HIDE DEF x, s
    <3>2. x + o \in 0 .. Mod - 1
      BY <3>1
    <3> QED
      BY <3>2 DEF x
  <2>2. Holds(i + 1, Addr(i + 1) + o, bytes[o])
    BY <1>7 DEF ReadBytes
  <2>3. \A w : w = Addr(i + 1) + o => Holds(i, w, bytes[o])'
    BY <1>9, <2>1, <2>2
  <2>4. \A w : w = Addr(i)' + o => Holds(i, w, bytes[o])'
    BY <1>3, <2>3
  <2> QED
    BY <2>4
<1>11. ReadBytes(i, bytes)'
  BY <1>3, <1>7, <1>10 DEF ReadBytes
<1> QED
  BY <1>11

-----------------------------------------------------------------------------
(* The invariant, action by action. *)

\* A step that leaves alone what the invariant is about.
Quiet ==
  UNCHANGED <<rob, uops, prf, renameQ, lq, sq, mem, archPc, offender, mode, outcome,
              fetchQ, decodeQ, pc, stalled>>

\* Most of a step that touches no entry, or completes one.
LEMMA FlowingKept ==
  ASSUME NEW Code, Flowing(Code), SparesCode(Code), Carried(0, 0), Told',
         UNCHANGED <<mem, archPc, offender, mode, fetchQ, decodeQ, pc, stalled>>,
         Len(rob') = Len(rob), Len(rob) \in Nat
  PROVE  Flowing(Code)'
<1>1. ~(0 \in 1 .. Len(rob')) /\ ~(0 \in 1 .. Len(rob)) /\ Len(rob') \in Nat
  OBVIOUS
<1>2. AllComputed'
  BY <1>1, ComputedCarried DEF Flowing
<1>3. OnPath'
  BY <1>1, PathKept DEF Flowing
<1>4. \A i \in 0 .. Len(rob) : After(i)' = After(i)
  BY <1>1, AfterCarried
<1>5. FrontOnPath'
  BY <1>4, FrontKept DEF Flowing
<1>6. Coded(Code)'
  <2>1. 0 \in 1 .. Len(rob') => Decodes(Code, uops'[0])
    BY <1>1
  <2>2. fetchQ' = fetchQ /\ decodeQ' = decodeQ /\ Coded(Code)
    BY DEF Flowing
  <2> QED
    BY <2>1, <2>2, CodedKept
<1>7. LoadsRead'
  BY <1>1, LoadsCarried DEF Flowing, Fresh
<1> QED
  BY <1>2, <1>3, <1>5, <1>6, <1>7 DEF Flowing

\* Stages that only pass the turn on.
LEMMA FlowingQuiet ==
  ASSUME NEW Code, Sound, Flowing(Code), SparesCode(Code), Quiet
  PROVE  Flowing(Code)'
<1>1. Carried(0, 0)
  BY CarriedQuiet DEF Quiet
<1>2. Told'
  BY <1>1, ToldKept DEF Quiet, Flowing
<1>3. Len(rob) \in Nat
  BY DEF Sound, Grounded, RP!TypeOK
<1> QED
  BY <1>1, <1>2, <1>3, FlowingKept DEF Quiet

\* decode_stage() and fetch().
LEMMA FlowingMoves ==
  ASSUME NEW Code, Sound, Flowing(Code), SparesCode(Code), DecodeOne \/ DecodeTrap \/ FetchOne
  PROVE  Flowing(Code)'
<1>1. UNCHANGED <<rob, uops, prf, renameQ, lq, sq, mem, archPc, offender, mode>>
  BY DEF DecodeOne, DecodeTrap, FetchOne, Turn, Over, In, renaming, arch
<1>2. Carried(0, 0)
  BY <1>1, CarriedQuiet
<1>3. Told'
  BY <1>1, <1>2, ToldKept DEF Flowing
<1>4. Len(rob) \in Nat /\ Len(rob') \in Nat /\ ~(0 \in 1 .. Len(rob')) /\ ~(0 \in 1 .. Len(rob))
  BY <1>1 DEF Sound, Grounded, RP!TypeOK
<1>5. AllComputed'
  BY <1>2, <1>4, ComputedCarried DEF Flowing
<1>6. OnPath'
  BY <1>1, <1>2, <1>4, PathKept DEF Flowing
<1>7. FrontOnPath'
  BY FrontMoves DEF Flowing, Sound, Grounded
<1>8. Coded(Code)'
  BY CodedMoves DEF Flowing
<1>9. LoadsRead'
  BY <1>1, <1>2, <1>4, LoadsCarried DEF Flowing, Fresh
<1> QED
  BY <1>3, <1>5, <1>6, <1>7, <1>8, <1>9 DEF Flowing

\* A load sent back has told the queue its address.
LEMMA FlowingReplay ==
  ASSUME NEW Code, Sound, Flowing(Code), SparesCode(Code), ReplayLoad
  PROVE  Flowing(Code)'
<1>1. /\ Considers /\ Wanted.is_load /\ lq' = Addressed(lq) /\ sq' = sq
      /\ UNCHANGED <<rob, uops, prf, mem, archPc, offender, mode, fetchQ, decodeQ, pc, stalled>>
  BY DEF ReplayLoad, Considers, renaming, fronts, arch
<1>2. Carried(0, 0)
  BY <1>1, CarriedQuiet
<1>3. Len(rob) \in Nat
  BY DEF Sound, Grounded, RP!TypeOK
<1>4. Len(rob') = Len(rob) /\ 0 \in 0 .. Len(rob)
  BY <1>1, <1>3
<1>5. \A j \in 1 .. Len(rob) : uops'[j].seq = uops[j].seq /\ uops'[j].lsq = uops[j].lsq
                                 /\ uops'[j].dec = uops[j].dec
  BY <1>1
<1>6. Told'
  BY <1>1, <1>2, <1>3, <1>4, <1>5, ToldLoad DEF Flowing
<1> QED
  BY <1>1, <1>2, <1>3, <1>4, <1>6, FlowingKept

\* writeback().
LEMMA FlowingComplete ==
  ASSUME NEW Code, Sound, Live, Flowing(Code), SparesCode(Code), DOMAIN prf = 0 .. PrfSize - 1,
         WritebackFast \/ WritebackSlow
  PROVE  /\ Flowing(Code)' /\ DOMAIN prf' = DOMAIN prf
         /\ archRat' = archRat /\ \A a \in Arch : prf'[archRat[a]] = prf[archRat[a]]
<1>1. PICK seq \in Known : Complete(seq)
  <2>1. Listed
    BY DEF Sound, InPlace
  <2>2. CASE WritebackFast
    <3>1. wbFast # <<>> /\ Complete(Head(wbFast))
      BY <2>2 DEF WritebackFast, FastNext
    <3>2. Head(wbFast) \in Range(wbFast)
      BY <2>1, <3>1, TailOrder DEF Listed
    <3> QED
      BY <2>1, <3>1, <3>2 DEF Listed
  <2>3. CASE WritebackSlow
    <3>1. wbSlow # <<>> /\ Complete(Head(wbSlow))
      BY <2>3 DEF WritebackSlow, SlowNext
    <3>2. Head(wbSlow) \in Range(wbSlow)
      BY <2>1, <3>1, TailOrder DEF Listed
    <3> QED
      BY <2>1, <3>1, <3>2 DEF Listed
  <2> QED
    BY <2>2, <2>3
<1>2. /\ mode = "run"
      /\ UNCHANGED <<uops, renameQ, lq, sq, mem, archPc, offender, mode, fetchQ, decodeQ, pc, stalled>>
  BY <1>1 DEF WritebackFast, WritebackSlow, In, Complete, Ren!Complete, fronts, arch
<1>3. AllComputed
  BY DEF Flowing
<1>4. /\ Carried(0, 0) /\ Len(rob') = Len(rob) /\ Len(rob) \in Nat /\ DOMAIN prf' = DOMAIN prf
      /\ archRat' = archRat /\ \A a \in Arch : prf'[archRat[a]] = prf[archRat[a]]
  BY <1>1, <1>2, <1>3, CarriedComplete
<1>5. Told'
  BY <1>2, <1>4, ToldKept DEF Flowing
<1> QED
  BY <1>2, <1>4, <1>5, FlowingKept

\* recover().
LEMMA FlowingRecover ==
  ASSUME NEW Code, Sound, Flowing(Code), SparesCode(Code), Recover
  PROVE  Flowing(Code)'
<1>1. /\ offender # 0 /\ offender' = 0 /\ rob' = SubSeq(rob, 1, offender) /\ mode' = "recover"
      /\ UNCHANGED <<uops, prf, renameQ, lq, sq, mem, archPc, fetchQ, decodeQ>>
  BY DEF Recover, Ren!Recover, fronts, arch
<1>2. Carried(0, 0)
  BY CarriedRecover
<1>3. Len(rob) \in Nat /\ Len(rob') = offender /\ Len(rob') \in Nat
      /\ ~(0 \in 1 .. Len(rob')) /\ ~(0 \in 1 .. Len(rob))
  <2>1. rob \in Seq(RP!Entry) /\ offender \in 0 .. Len(rob)
    BY DEF Sound, Grounded, RP!TypeOK
  <2> QED
    BY <1>1, <2>1
<1>4. AllComputed'
  BY <1>2, <1>3, ComputedCarried DEF Flowing
<1>5. OnPath'
  <2>1. archPc' = archPc /\ OnPath
    BY <1>1 DEF Flowing
  <2>2. \A i \in 1 .. Len(rob') : i <= offender
    BY <1>3
  <2> QED
    BY <1>2, <1>3, <2>1, <2>2, PathKept
<1>6. FrontOnPath'
  BY <1>1 DEF FrontOnPath
<1>7. Coded(Code)'
  <2>1. 0 \in 1 .. Len(rob') => Decodes(Code, uops'[0])
    BY <1>3
  <2>2. fetchQ' = fetchQ /\ decodeQ' = decodeQ /\ Coded(Code)
    BY <1>1 DEF Flowing
  <2> QED
    BY <1>2, <2>1, <2>2, CodedKept
<1>8. Told'
  BY <1>1, <1>2, ToldKept DEF Flowing
<1>9. LoadsRead'
  BY <1>1, <1>2, <1>3, LoadsCarried DEF Flowing, Fresh
<1> QED
  BY <1>4, <1>5, <1>6, <1>7, <1>8, <1>9 DEF Flowing

\* Its end.
LEMMA FlowingRestore ==
  ASSUME NEW Code, Sound, Flowing(Code), SparesCode(Code), Restore
  PROVE  Flowing(Code)'
<1>1. /\ rob' = rob /\ fetchQ' = <<>> /\ decodeQ' = <<>> /\ UNCHANGED <<mem, archPc, offender>>
  BY DEF Restore, Ren!Restore, arch
<1>2. Carried(0, 0)
  BY CarriedRestore
<1>3. Len(rob) \in Nat /\ Len(rob') \in Nat /\ ~(0 \in 1 .. Len(rob')) /\ ~(0 \in 1 .. Len(rob))
  BY <1>1 DEF Sound, Grounded, RP!TypeOK
<1>4. AllComputed'
  BY <1>2, <1>3, ComputedCarried DEF Flowing
<1>5. OnPath'
  BY <1>1, <1>2, <1>3, PathKept DEF Flowing
<1>6. FrontOnPath'
  BY FrontRestore
<1>7. Coded(Code)'
  BY <1>1, <1>2, <1>3, CodedKept DEF Flowing
<1>8. Told'
  BY ToldRestore DEF Flowing
<1>9. LoadsRead'
  BY <1>1, <1>2, <1>3, LoadsCarried DEF Flowing, Fresh
<1> QED
  BY <1>4, <1>5, <1>6, <1>7, <1>8, <1>9 DEF Flowing

\* dispatch().
LEMMA FlowingDispatch ==
  ASSUME NEW Code, Sound, Flowing(Code), SparesCode(Code), DispatchOne
  PROVE  Flowing(Code)'
<1>1. Carried(0, 0) /\ rob' = rob
  BY CarriedDispatch
<1>2. UNCHANGED <<mem, archPc, offender, mode, fetchQ, decodeQ, pc, stalled>>
  BY DEF DispatchOne, renaming, fronts, arch
<1>3. Told'
  BY ToldDispatch DEF Flowing
<1>4. Len(rob) \in Nat
  BY DEF Sound, Grounded, RP!TypeOK
<1> QED
  BY <1>1, <1>2, <1>3, <1>4, FlowingKept

\* A load falls through.
LEMMA LoadFallsThrough ==
  ASSUME NEW d \in Decs, d.is_load, NEW at, NEW a, NEW b
  PROVE  NextPc(d, at, a, b) = link_address(at)
<1>1. PICK w \in Words : d = Decode(w)
  BY DEF Decs
<1>2. d.op \in LoadOps
  BY <1>1 DEF Decode
<1>3. ~branch_taken(d.op, a, b) /\ d.op # "JALR" /\ d.op # "JAL"
  BY <1>2 DEF LoadOps, branch_taken
<1> QED
  BY <1>3 DEF NextPc

\* issue(), but for what the access tells its queue and what loads read.
LEMMA FlowingLaunch ==
  ASSUME NEW Code, Sound, Flowing(Code), SparesCode(Code), NEW k, Launches(k), Told', LoadsRead',
         Computed(rob'[k], uops'[k], prf')
  PROVE  Flowing(Code)'
<1>1. /\ k \in 1 .. Len(rob) /\ Carried(0, k) /\ Len(rob') = Len(rob) /\ Len(rob) \in Nat
      /\ mode = "run" /\ archPc' = archPc /\ fetchQ' = fetchQ /\ decodeQ' = decodeQ
      /\ pc' = pc /\ stalled' = stalled
      /\ rob[k].state = "waiting" /\ rob'[k].state = "issued"
      /\ uops'[k].pc = uops[k].pc /\ uops'[k].dec = uops[k].dec
      /\ offender' = IF uops'[k].next # uops[k].pred /\ (offender = 0 \/ k < offender) THEN k
                     ELSE offender
  BY DEF Launches
<1>2. offender \in 0 .. Len(rob)
  BY DEF Sound, Grounded, RP!TypeOK
<1>3. AllComputed'
  BY <1>1, ComputedCarried DEF Flowing
<1>4. /\ OnPath'
      /\ offender' = 0 => offender = 0 /\ \A i \in 0 .. Len(rob) : After(i)' = After(i)
  BY <1>1, <1>2, PathStarts DEF Flowing
<1>5. FrontOnPath'
  BY <1>1, <1>4, FrontKept DEF Flowing
<1>6. Coded(Code)'
  <2>1. Decodes(Code, uops'[k])
    BY <1>1 DEF Flowing, Coded, Decodes
  <2> QED
    BY <1>1, <2>1, CodedKept DEF Flowing
<1> QED
  BY <1>3, <1>4, <1>5, <1>6 DEF Flowing

\* issue() starts a load.
LEMMA FlowingIssueLoad ==
  ASSUME NEW Code, Sound, Flowing(Code), SparesCode(Code), Mod \in Nat \ {0}, IssueLoad
  PROVE  Flowing(Code)'
<1>0. PICK k : k = Considered
  OBVIOUS
<1>1. /\ Launches(k) /\ Wanted.is_load /\ lq' = Addressed(lq) /\ sq' = sq
      /\ uops'[k].next = uops[k].next
  <2> DEFINE bytes == IF Found.kind = "FORWARD" THEN Found.data
                      ELSE LoadBytes(mem, Address, access_size(Wanted.op))
  <2>1. PICK b : b = bytes
    OBVIOUS
  <2> QED
    BY <1>0, <2>1, IssueLoadStep
<1>2. /\ k \in 1 .. Len(rob) /\ Carried(0, k) /\ Considers /\ Len(rob') = Len(rob)
      /\ Len(rob) \in Nat
      /\ \A j \in 1 .. Len(rob) : uops'[j].seq = uops[j].seq /\ uops'[j].lsq = uops[j].lsq
                                    /\ uops'[j].dec = uops[j].dec
  BY <1>1 DEF Launches
<1>3. Told'
  <2>1. k \in 0 .. Len(rob)
    BY <1>2
  <2> QED
    BY <1>0, <1>1, <1>2, <2>1, ToldLoad DEF Flowing
<1>4. LoadsRead'
  BY LoadsIssueLoad DEF Flowing
<1>5. Computed(rob'[k], uops'[k], prf')
  <2>1. /\ rob[k].state = "waiting" /\ rob'[k].state = "issued" /\ RP!Same(rob[k], rob'[k])
        /\ uops'[k].pc = uops[k].pc
    BY <1>1 DEF Launches
  <2>2. Computed(rob[k], uops[k], prf)
    BY <1>2 DEF Flowing, AllComputed
  <2>3. uops'[k].dec = uops[k].dec /\ uops'[k].dec = Wanted
    BY <1>1, LaunchFresh
  <2>4. Wanted \in Decs
    BY <1>2, ConsideredFacts DEF Sound
  <2>5. uops'[k].next = link_address(uops'[k].pc)
    BY <1>1, <2>1, <2>2 DEF Computed
  <2>6. uops'[k].next = NextPc(uops'[k].dec, uops'[k].pc, prf'[rob'[k].src1], prf'[rob'[k].src2])
    BY <1>1, <2>3, <2>4, <2>5, LoadFallsThrough
  <2>7. /\ rob'[k].rd = ShapeOf(uops'[k].dec).rd /\ rob'[k].rs1 = uops'[k].dec.rs1
        /\ rob'[k].rs2 = uops'[k].dec.rs2
    BY <2>1, <2>2, <2>3 DEF Computed, RP!Same
  <2> QED
    BY <1>1, <2>1, <2>3, <2>6, <2>7 DEF Computed
<1> QED
  BY <1>1, <1>3, <1>4, <1>5, FlowingLaunch

\* issue() starts anything else.
LEMMA FlowingIssueOther ==
  ASSUME NEW Code, Sound, Flowing(Code), SparesCode(Code), IssueOther
  PROVE  Flowing(Code)'
<1>0. PICK k : k = Considered
  OBVIOUS
<1>1. /\ Launches(k) /\ ~Wanted.is_load /\ lq' = lq
      /\ uops'[k].next = NextPc(Wanted, uops[k].pc, Val1, Val2)
      /\ uops'[k].result = Result(Wanted, uops[k].pc, Val1, Val2)
  BY <1>0, IssueOtherStep
<1>2. /\ k \in 1 .. Len(rob) /\ Carried(0, k) /\ Considers /\ Len(rob') = Len(rob)
      /\ Len(rob) \in Nat /\ prf' = prf
      /\ rob[k].state = "waiting" /\ rob'[k].state = "issued" /\ RP!Same(rob[k], rob'[k])
      /\ uops'[k].pc = uops[k].pc
      /\ \A j \in 1 .. Len(rob) : uops'[j].seq = uops[j].seq /\ uops'[j].lsq = uops[j].lsq
                                    /\ uops'[j].dec = uops[j].dec
  BY <1>1 DEF Launches
<1>3. Told'
  <2>1. Carried(0, Considered) /\ rob'[Considered].state = "issued"
        /\ RP!Same(rob[Considered], rob'[Considered]) /\ rob[Considered].state = "waiting"
    BY <1>0, <1>2
  <2>2. sq' = IF Wanted.is_store
              THEN Q!ResolveData(Addressed(sq), uops[Considered].lsq,
                                 BytesOf(Val2, access_size(Wanted.op)))
              ELSE sq
    BY IssueOtherStep
  <2> QED
    BY <1>1, <1>2, <2>1, <2>2, ToldOther DEF Flowing
<1>4. LoadsRead'
  BY LoadsIssueOther DEF Flowing
<1>5. Computed(rob'[k], uops'[k], prf')
  <2>1. Computed(rob[k], uops[k], prf)
    BY <1>2 DEF Flowing, AllComputed
  <2>2. uops'[k].dec = uops[k].dec /\ uops'[k].dec = Wanted
    BY <1>1, LaunchFresh
  <2>3. Val1 = prf'[rob'[k].src1] /\ Val2 = prf'[rob'[k].src2]
    BY <1>0, <1>2 DEF Val1, Val2, RP!Same
  <2>4. /\ uops'[k].next = NextPc(uops'[k].dec, uops'[k].pc, prf'[rob'[k].src1], prf'[rob'[k].src2])
        /\ uops'[k].result = Result(uops'[k].dec, uops'[k].pc, prf'[rob'[k].src1], prf'[rob'[k].src2])
    BY <1>1, <1>2, <2>2, <2>3
  <2>5. /\ rob'[k].rd = ShapeOf(uops'[k].dec).rd /\ rob'[k].rs1 = uops'[k].dec.rs1
        /\ rob'[k].rs2 = uops'[k].dec.rs2
    BY <1>2, <2>1, <2>2 DEF Computed, RP!Same
  <2> QED
    BY <1>2, <2>4, <2>5 DEF Computed
<1> QED
  BY <1>1, <1>3, <1>4, <1>5, FlowingLaunch

\* rename().
LEMMA FlowingRename ==
  ASSUME NEW Code, Sound, Flowing(Code), SparesCode(Code), RenameOne
  PROVE  Flowing(Code)'
<1>0. PICK k : k = Len(rob) + 1
  OBVIOUS
<1> DEFINE f == Head(decodeQ)
<1>1. /\ Carried(0, k) /\ mode = "run" /\ Len(rob) \in Nat /\ Len(rob') = k
      /\ rob'[k].state = "waiting" /\ rob'[k].rd = ShapeOf(uops'[k].dec).rd
      /\ rob'[k].rs1 = uops'[k].dec.rs1 /\ rob'[k].rs2 = uops'[k].dec.rs2
      /\ uops'[k].pc = f.pc /\ uops'[k].next = link_address(f.pc)
  BY <1>0, CarriedRename
<1>2. mem' = mem
  BY DEF RenameOne, arch
<1>3. AllComputed'
  <2>1. Computed(rob'[k], uops'[k], prf')
    BY <1>1 DEF Computed
  <2> QED
    BY <1>1, <2>1, ComputedCarried DEF Flowing
<1>4. OnPath' /\ FrontOnPath'
  BY PathRename DEF Flowing
<1>5. Coded(Code)'
  BY CodedRename DEF Flowing
<1>6. Told'
  BY ToldRename DEF Flowing
<1>7. LoadsRead'
  <2>1. Fresh(k) /\ Len(rob') \in Nat
    BY <1>0, <1>1 DEF Fresh
  <2>2. ~(k \in 1 .. Len(rob') /\ uops'[k].dec.is_load /\ rob'[k].state # "waiting")
    BY <1>1
  <2> QED
    BY <1>1, <1>2, <2>1, <2>2, LoadsCarried DEF Flowing
<1> QED
  BY <1>3, <1>4, <1>5, <1>6, <1>7 DEF Flowing

\* commit().
LEMMA FlowingCommit ==
  ASSUME NEW Code, Sound, Flowing(Code), SparesCode(Code), Mod \in Nat \ {0}, CommitOne, Live',
         uops[1].dec.is_load \/ uops[1].dec.is_store => Inside(1)
  PROVE  Flowing(Code)'
<1>1. Carried(1, 0) /\ ~(0 \in 1 .. Len(rob'))
  BY CarriedCommit
<1>2. fetchQ' = fetchQ /\ decodeQ' = decodeQ
  BY DEF CommitOne, fronts
<1>3. AllComputed'
  BY <1>1, ComputedCarried DEF Flowing
<1>4. OnPath' /\ FrontOnPath'
  BY PathCommit DEF Flowing
<1>5. Coded(Code)'
  <2>1. 0 \in 1 .. Len(rob') => Decodes(Code, uops'[0])
    BY <1>1
  <2> QED
    BY <1>1, <1>2, <2>1, CodedKept DEF Flowing
<1>6. Told'
  BY ToldCommit DEF Flowing
<1>7. LoadsRead'
  BY LoadsCommit DEF Flowing
<1> QED
  BY <1>3, <1>4, <1>5, <1>6, <1>7 DEF Flowing

-----------------------------------------------------------------------------
(* The instruction that commits. *)

\* The next instruction of the program, if it is a load or a store, stays in
\* the address space.
AccessesInside ==
  outcome = "running" =>
    LET d == Decode(WordAt(mem, archPc))
    IN  d.is_load \/ d.is_store =>
          Wrap(prf[archRat[d.rs1]] + d.imm) \in 0 .. Mod - access_size(d.op)

\* The head of the reorder buffer is the program's next instruction, and it has
\* computed what the program computes.
LEMMA HeadIsNext ==
  ASSUME NEW Code, Sound, Correct(Code), archPc \in Code, CommitOne,
         NEW d, d = Decode(WordAt(mem, archPc)),
         NEW a, a = prf[archRat[d.rs1]], NEW b, b = prf[archRat[d.rs2]]
  PROVE  /\ outcome = "running" /\ Flowing(Code) /\ d \in Decs /\ d.rs1 \in Arch /\ d.rs2 \in Arch
         /\ Head(uops) = uops[1] /\ uops[1].dec = d /\ uops[1].pc = archPc
         /\ uops[1].next = NextPc(d, archPc, a, b)
         /\ ~d.is_load => uops[1].result = Result(d, archPc, a, b)
         /\ Addr(1) = Wrap(a + d.imm) /\ Size(1) = access_size(d.op)
         /\ Stored(1) = BytesOf(b, access_size(d.op))
         /\ Head(rob) = rob[1] /\ rob[1] \in RP!Entry
         /\ rob[1].dest # None <=> d.writes_rd
         /\ d.writes_rd => rob[1].rd = d.rd /\ d.rd \in Arch /\ prf[rob[1].dest] = uops[1].result
         /\ rob[1].trap <=> d.kind = "TRAP"
<1>1. /\ Len(rob) \in Nat /\ Len(rob) >= 1 /\ Len(uops) = Len(rob)
      /\ Head(uops) = uops[1] /\ Head(rob) = rob[1] /\ rob # <<>> /\ rob[1].state = "complete"
      /\ mode = "run" /\ offender = 0
      /\ rob[1].trap <=> uops[1].dec.kind = "TRAP"
  BY CarriedCommit
<1>2. Live /\ 1 \in 1 .. Len(rob) /\ 1 \in 1 .. Len(uops)
  BY <1>1 DEF Live
<1>3. outcome = "running" /\ Flowing(Code)
  BY <1>2 DEF Correct
<1>4. uops[1].pc = archPc
  BY <1>1, <1>2, <1>3 DEF Flowing, OnPath, After
<1>5. uops[1].dec = d
  BY <1>2, <1>3, <1>4 DEF Flowing, Coded
<1>6. d \in Decs
  BY <1>2, <1>5 DEF Sound, InPlace, Numbered
<1>7. rob[1] \in RP!Entry /\ RP!EntryShape(rob[1])
  BY <1>2 DEF Sound, Grounded, RP!TypeOK, RP!Shape
<1>8. Computed(rob[1], uops[1], prf)
  BY <1>2, <1>3 DEF Flowing, AllComputed
<1>9. rob[1].rs1 = d.rs1 /\ rob[1].rs2 = d.rs2 /\ rob[1].rd = ShapeOf(d).rd
  BY <1>5, <1>8 DEF Computed
<1>10. rob[1].src1 = archRat[d.rs1] /\ rob[1].src2 = archRat[d.rs2]
  <2>1. RP!MapsTo(1 - 1, rob[1].rs1, rob[1].src1) /\ RP!MapsTo(1 - 1, rob[1].rs2, rob[1].src2)
    BY <1>2 DEF Sound, RP!SourcesAreProgramOrder
  <2> QED
    BY <1>9, <2>1 DEF RP!MapsTo
<1>11. /\ uops[1].next = NextPc(d, archPc, a, b)
       /\ ~d.is_load => uops[1].result = Result(d, archPc, a, b)
       /\ rob[1].dest # None => prf[rob[1].dest] = uops[1].result
  BY <1>1, <1>4, <1>5, <1>8, <1>10 DEF Computed
<1>12. /\ Addr(1) = Wrap(a + d.imm) /\ Size(1) = access_size(d.op)
       /\ Stored(1) = BytesOf(b, access_size(d.op))
  BY <1>5, <1>10 DEF Addr, Size, Stored, AddrOf, SizeOf, DataOf
<1>13. d.rs1 \in Arch /\ d.rs2 \in Arch /\ (rob[1].rd # None => rob[1].rd \in Arch)
  BY <1>7, <1>9 DEF RP!Entry, RP!Arch, Arch, RP!None, None
<1>14. rob[1].rd = None <=> ~d.writes_rd
  BY <1>6, <1>9, WritesNamed
<1>15. rob[1].dest # None <=> d.writes_rd
  BY <1>7, <1>14 DEF RP!EntryShape, RP!None, None
<1>16. d.writes_rd => rob[1].rd = d.rd /\ d.rd \in Arch
  BY <1>9, <1>13, <1>14 DEF ShapeOf
<1> QED
  BY <1>1, <1>3, <1>4, <1>5, <1>6, <1>7, <1>11, <1>12, <1>13, <1>15, <1>16

\* A load at the head has read memory.
LEMMA HeadLoads ==
  ASSUME Sound, LoadsRead, CommitOne, Mod \in Nat \ {0}, uops[1].dec.is_load, Inside(1)
  PROVE  uops[1].result = extend_load(uops[1].dec.op, ValueOf(LoadBytes(mem, Addr(1), Size(1))))
<1>1. Len(rob) \in Nat /\ Len(rob) >= 1 /\ rob[1].state = "complete"
  BY CarriedCommit
<1>2. 1 \in 1 .. Len(rob) /\ Started(1) /\ AllInside(1)
  BY <1>1 DEF Started, AllInside
<1>3. PICK bytes : ReadBytes(1, bytes)
  BY <1>2 DEF LoadsRead
<1> DEFINE x == Addr(1)
           s == Size(1)
<1>4. x \in 0 .. Mod - s /\ s \in {1, 2, 4}
  BY AccessSizes DEF Inside
<1>5. ASSUME NEW k \in 0 .. s - 1 PROVE bytes[k] = load_u8(mem, Wrap(x + k))
  <2>1. Holds(1, x + k, bytes[k])
    BY <1>3, <1>5 DEF ReadBytes
  <2>2. \A j \in 1 .. 1 - 1 : FALSE
    OBVIOUS
  <2>3. HoldsAll(1, x + k, bytes[k])
    BY <2>1, <2>2 DEF Holds
  <2>4. Wrap(x + k) = x + k
    <3> HIDE DEF x, s
    <3> DEFINE y == x + k
    <3>1. y \in 0 .. Mod - 1
      BY <1>4, <1>5
    <3> HIDE DEF y
    <3>2. y % Mod = y
      BY <3>1, ModInside
    <3> QED
      BY <3>2 DEF Wrap, y
  <2> QED
    BY <2>3, <2>4 DEF HoldsAll
<1> HIDE DEF x, s
<1>6. bytes = [k \in 0 .. s - 1 |-> bytes[k]]
  BY <1>3 DEF ReadBytes, s
<1>7. bytes = LoadBytes(mem, x, s)
  <2>1. LoadBytes(mem, x, s) = [k \in 0 .. s - 1 |-> load_u8(mem, Wrap(x + k))]
    BY DEF LoadBytes
  <2>2. [k \in 0 .. s - 1 |-> bytes[k]] = [k \in 0 .. s - 1 |-> load_u8(mem, Wrap(x + k))]
    BY <1>5
  <2> QED
    BY <1>6, <2>1, <2>2
<1>8. uops[1].result = extend_load(uops[1].dec.op, ValueOf(bytes))
  BY <1>3 DEF ReadBytes
<1> QED
  BY <1>7, <1>8 DEF x, s

\* Its access stays in the address space.
LEMMA HeadInside ==
  ASSUME NEW Code, Sound, Correct(Code), archPc \in Code, AccessesInside, CommitOne,
         uops[1].dec.is_load \/ uops[1].dec.is_store
  PROVE  Inside(1)
<1>1. PICK d : d = Decode(WordAt(mem, archPc))
  OBVIOUS
<1>2. PICK a, b : a = prf[archRat[d.rs1]] /\ b = prf[archRat[d.rs2]]
  OBVIOUS
<1>3. /\ outcome = "running" /\ uops[1].dec = d
      /\ Addr(1) = Wrap(a + d.imm) /\ Size(1) = access_size(d.op)
  BY <1>1, <1>2, HeadIsNext
<1>4. Wrap(a + d.imm) \in 0 .. Mod - access_size(d.op)
  BY <1>1, <1>2, <1>3 DEF AccessesInside
<1> QED
  BY <1>3, <1>4 DEF Inside

-----------------------------------------------------------------------------
(* The pace. *)

\* The loops other than commit()'s retire nothing.
LEMMA StagesPass ==
  ASSUME [Next]_vars, ~CommitOne, ~Tick, slots \in Nat
  PROVE  /\ UNCHANGED <<cycle, retired, program>> /\ slots' \in Nat
         /\ stage' = "commit" => stage = "commit" /\ slots' = slots
<1>1. CASE Rest \/ Drain \/ Reclaim \/ Recover \/ TurnAway \/ ReplayLoad \/ UNCHANGED vars
  BY <1>1 DEF Rest, Drain, Reclaim, Recover, TurnAway, ReplayLoad, Considers, vars, arch
<1>2. CASE \/ CommitEnd \/ WritebackEnd \/ Execute \/ IssueEnd \/ DispatchEnd \/ RenameEnd
           \/ DecodeTrap \/ DecodeEnd \/ FetchEnd
  BY <1>2 DEF CommitEnd, WritebackEnd, Execute, IssueEnd, DispatchEnd, RenameEnd, DecodeTrap,
              DecodeEnd, FetchEnd, Over, arch
<1>3. CASE WritebackFast
  <2>1. /\ stage = "writeback" /\ stage' = stage /\ cycle' = cycle /\ retired' = retired
        /\ program' = program
        /\ slots' = IF Writes(Head(wbFast)) THEN slots + 1 ELSE slots
    BY <1>3 DEF WritebackFast, In, Complete, arch
  <2> QED
    BY <2>1
<1>4. CASE WritebackSlow
  BY <1>4 DEF WritebackSlow, In, Complete, arch
<1>5. CASE IssueLoad
  BY <1>5 DEF IssueLoad, Considers, In, Starts, arch
<1>6. CASE IssueOther
  BY <1>6 DEF IssueOther, Considers, In, Starts, arch
<1>7. CASE DispatchOne \/ RenameOne \/ DecodeOne
  BY <1>7 DEF DispatchOne, RenameOne, DecodeOne, Turn, In, arch
<1>8. CASE FetchOne
  <2>1. PICK t \in BOOLEAN :
          /\ stage = "fetch" /\ stage' = stage /\ cycle' = cycle /\ retired' = retired
          /\ program' = program
          /\ slots' = IF t THEN Width ELSE slots + 1
    <3>1. PICK pr \in Predictions(Decode(WordAt(mem, pc)), pc) :
            /\ stage = "fetch" /\ stage' = stage /\ cycle' = cycle /\ retired' = retired
            /\ program' = program
            /\ slots' = IF pr.taken THEN Width ELSE slots + 1
      BY <1>8 DEF FetchOne, In, arch
    <3> QED
      BY <3>1
  <2> QED
    BY <2>1, PipelineAssumption
<1>9. CASE Restore
  BY <1>9 DEF Restore, arch
<1> QED
  BY <1>1, <1>2, <1>3, <1>4, <1>5, <1>6, <1>7, <1>8, <1>9 DEF Next

\* A turn of commit()'s loop uses up one of the cycle's Width retirements.
LEMMA PacedNext ==
  ASSUME Paced, [Next]_vars
  PROVE  /\ Paced'
         /\ CommitOne => retired < Width * MaxCycles
<1>1. Width \in Nat \ {0} /\ MaxCycles \in Nat
  BY PipelineAssumption
<1>2. /\ slots \in Nat /\ cycle \in Nat /\ cycle <= MaxCycles /\ retired \in Nat
      /\ retired <= Width * cycle
      /\ stage = "commit" => cycle >= 1 /\ retired <= Width * (cycle - 1) + slots
  BY DEF Paced
<1>3. CASE CommitOne
  <2>1. /\ stage = "commit" /\ slots < Width /\ slots' = slots + 1 /\ retired' = retired + 1
        /\ cycle' = cycle /\ stage' = stage
    BY <1>3 DEF CommitOne, Turn, In
  <2>2. PICK c \in Nat : c = cycle - 1
    BY <1>2, <2>1
  <2>3. Width * (c + 1) = Width * c + Width
    BY <1>1
  <2> DEFINE x == Width * c
  <2>4. x \in Nat /\ Width * cycle = x + Width /\ retired <= x + slots
    BY <1>1, <1>2, <2>1, <2>2, <2>3
  <2>5. Width * cycle <= Width * MaxCycles
    <3>1. PICK e \in Nat : MaxCycles = cycle + e
      <4>1. MaxCycles - cycle \in Nat /\ MaxCycles = cycle + (MaxCycles - cycle)
        BY <1>1, <1>2
      <4> QED
        BY <4>1
    <3>2. Width * (cycle + e) = Width * cycle + Width * e
      BY <1>1, <1>2
    <3>3. Width * e \in Nat /\ Width * cycle \in Nat
      BY <1>1, <1>2
    <3> QED
      BY <3>1, <3>2, <3>3
  <2>6. x + slots + 1 <= x + Width /\ retired + 1 <= x + (slots + 1) /\ x + Width \in Nat
    <3> HIDE DEF x
    <3> QED
      BY <1>1, <1>2, <2>1, <2>4
  <2>7. Width * (cycle' - 1) = x
    BY <2>1, <2>2
  <2>8. Paced'
    <3>1. retired' <= Width * cycle'
      <4> HIDE DEF x
      <4> QED
        BY <1>2, <2>1, <2>4, <2>6
    <3>2. retired' <= Width * (cycle' - 1) + slots'
      <4> HIDE DEF x
      <4> QED
        BY <1>2, <2>1, <2>6, <2>7
    <3> QED
      BY <1>2, <2>1, <3>1, <3>2 DEF Paced
  <2>9. retired < Width * MaxCycles
    <3> DEFINE y == Width * cycle
               z == Width * MaxCycles
    <3>1. y \in Nat /\ z \in Nat /\ y <= z /\ y = x + Width
      BY <1>1, <1>2, <2>4, <2>5
    <3> HIDE DEF x, y, z
    <3>2. retired < y
      BY <1>1, <1>2, <2>1, <2>4, <3>1
    <3>3. retired < z
      BY <1>2, <3>1, <3>2
    <3> QED
      BY <3>3 DEF z
  <2> QED
    BY <2>8, <2>9
<1>4. CASE Tick
  <2>1. /\ cycle < MaxCycles /\ cycle' = cycle + 1 /\ stage' = "commit" /\ slots' = 0
        /\ retired' = retired /\ stage # "commit"
    BY <1>4 DEF Tick, arch
  <2>2. Width * (cycle + 1) = Width * cycle + Width /\ Width * cycle \in Nat
    BY <1>1, <1>2
  <2>3. cycle' - 1 = cycle /\ cycle' \in Nat /\ cycle' >= 1 /\ cycle' <= MaxCycles
    BY <1>1, <1>2, <2>1
  <2>4. retired' <= Width * cycle' /\ retired' <= Width * (cycle' - 1) + slots'
    <3> DEFINE y == Width * cycle
    <3>1. y \in Nat /\ Width * cycle' = y + Width /\ Width * (cycle' - 1) = y /\ retired <= y
      BY <1>2, <2>1, <2>2, <2>3
    <3> DEFINE y2 == Width * cycle'
               y3 == Width * (cycle' - 1)
    <3>2. y2 = y + Width /\ y3 = y
      BY <3>1
    <3> HIDE DEF y, y2, y3
    <3>3. retired' <= y2 /\ retired' <= y3 + slots'
      BY <1>1, <1>2, <2>1, <3>1, <3>2
    <3> QED
      BY <3>3 DEF y2, y3
  <2>5. Paced'
    BY <1>2, <2>1, <2>3, <2>4 DEF Paced
  <2>6. ~CommitOne
    BY <2>1 DEF CommitOne, Turn, In
  <2> QED
    BY <2>5, <2>6
<1>5. CASE ~CommitOne /\ ~Tick
  <2>1. /\ cycle' = cycle /\ retired' = retired /\ slots' \in Nat
        /\ stage' = "commit" => stage = "commit" /\ slots' = slots
    BY <1>2, <1>5, StagesPass
  <2>2. Paced'
    BY <1>2, <2>1 DEF Paced
  <2> QED
    BY <1>5, <2>2
<1> QED
  BY <1>3, <1>4, <1>5

-----------------------------------------------------------------------------
(* The invariant, put together. *)

\* The stages that pass the turn on, and squash by squash.
LEMMA PassingQuiet ==
  ASSUME \/ Tick \/ Rest \/ CommitEnd \/ WritebackEnd \/ Execute \/ IssueEnd \/ DispatchEnd
         \/ RenameEnd \/ DecodeEnd \/ FetchEnd \/ Reclaim \/ TurnAway \/ UNCHANGED vars
  PROVE  Quiet
<1>1. CASE Tick \/ Rest \/ UNCHANGED vars
  BY <1>1 DEF Tick, Rest, vars, renaming, fronts, arch, Quiet
<1>2. CASE \/ CommitEnd \/ WritebackEnd \/ Execute \/ IssueEnd \/ DispatchEnd
           \/ RenameEnd \/ DecodeEnd \/ FetchEnd
  BY <1>2 DEF CommitEnd, WritebackEnd, Execute, IssueEnd, DispatchEnd, RenameEnd, DecodeEnd,
              FetchEnd, Over, In, renaming, fronts, arch, Quiet
<1>3. CASE Reclaim
  BY <1>3 DEF Reclaim, Ren!Reclaim, fronts, arch, Quiet
<1>4. CASE TurnAway
  BY <1>4 DEF TurnAway, Considers, renaming, fronts, arch, Quiet
<1> QED
  BY <1>1, <1>2, <1>3, <1>4

\* A step that writes no result leaves the registers' values alone; only
\* commit() ends the run.
LEMMA ValuesStay ==
  ASSUME [Next]_vars, ~WritebackFast, ~WritebackSlow
  PROVE  prf' = prf /\ (CommitOne \/ outcome' = outcome)
<1>1. CASE \/ Tick \/ Rest \/ CommitEnd \/ WritebackEnd \/ Execute \/ IssueEnd \/ DispatchEnd
           \/ RenameEnd \/ DecodeEnd \/ FetchEnd \/ Reclaim \/ TurnAway \/ UNCHANGED vars
  BY <1>1, PassingQuiet DEF Quiet
<1>2. CASE CommitOne \/ Drain \/ Recover \/ Restore
  BY <1>2 DEF CommitOne, Drain, Recover, Restore, arch
<1>3. CASE ReplayLoad \/ IssueLoad \/ IssueOther
  BY <1>3 DEF ReplayLoad, IssueLoad, IssueOther, Considers, arch
<1>4. CASE DispatchOne \/ RenameOne \/ DecodeOne \/ DecodeTrap \/ FetchOne
  BY <1>4 DEF DispatchOne, RenameOne, DecodeOne, DecodeTrap, FetchOne, arch
<1> QED
  BY <1>1, <1>2, <1>3, <1>4 DEF Next

\* What the theorem assumes of the program, at a step.
Fair(Code) ==
  Mod \in Nat \ {0} /\ archPc \in Code /\ AccessesInside /\ SparesCode(Code)

\* Whatever is in flight stays on course.
LEMMA NextFlowing ==
  ASSUME NEW Code, Sound, Correct(Code), Fair(Code), [Next]_vars, Live'
  PROVE  Flowing(Code)' /\ outcome' = "running"
<1>1. Live /\ Flowing(Code) /\ outcome = "running"
  BY LiveBefore DEF Correct
<1>2. SparesCode(Code) /\ Mod \in Nat \ {0} /\ DOMAIN prf = 0 .. PrfSize - 1
  BY DEF Fair, Correct
<1>3. CASE \/ Tick \/ Rest \/ CommitEnd \/ WritebackEnd \/ Execute \/ IssueEnd \/ DispatchEnd
           \/ RenameEnd \/ DecodeEnd \/ FetchEnd \/ Reclaim \/ TurnAway \/ UNCHANGED vars
  <2>1. Quiet
    BY <1>3, PassingQuiet
  <2> QED
    BY <1>1, <1>2, <2>1, FlowingQuiet DEF Quiet
<1>4. CASE CommitOne
  <2>1. uops[1].dec.is_load \/ uops[1].dec.is_store => Inside(1)
    BY <1>4, HeadInside DEF Fair
  <2>2. uops[1].dec.kind # "TRAP" /\ Head(uops) = uops[1]
    BY <1>4, CarriedCommit
  <2>3. outcome' = outcome
    BY <1>4, <2>2 DEF CommitOne
  <2> QED
    BY <1>1, <1>2, <1>4, <2>1, <2>3, FlowingCommit
<1>5. CASE Drain
  BY <1>5 DEF Drain, Ren!Drained, Live
<1>6. CASE WritebackFast \/ WritebackSlow
  <2>1. outcome' = outcome
    BY <1>6 DEF WritebackFast, WritebackSlow, Complete, arch
  <2> QED
    BY <1>1, <1>2, <1>6, <2>1, FlowingComplete
<1>7. CASE ReplayLoad \/ IssueLoad \/ IssueOther \/ DispatchOne
  <2>1. outcome' = outcome
    BY <1>7 DEF ReplayLoad, IssueLoad, IssueOther, Considers, DispatchOne, arch
  <2> QED
    BY <1>1, <1>2, <1>7, <2>1, FlowingReplay, FlowingIssueLoad, FlowingIssueOther, FlowingDispatch
<1>8. CASE Recover \/ Restore \/ RenameOne
  <2>1. outcome' = outcome
    BY <1>8 DEF Recover, Restore, RenameOne, arch
  <2> QED
    BY <1>1, <1>2, <1>8, <2>1, FlowingRecover, FlowingRestore, FlowingRename
<1>9. CASE DecodeOne \/ DecodeTrap \/ FetchOne
  <2>1. outcome' = outcome
    BY <1>9 DEF DecodeOne, DecodeTrap, FetchOne, arch
  <2> QED
    BY <1>1, <1>2, <1>9, <2>1, FlowingMoves
<1> QED
  BY <1>3, <1>4, <1>5, <1>6, <1>7, <1>8, <1>9 DEF Next

\* The invariant is inductive.
LEMMA NextCorrect ==
  ASSUME NEW Code, Sound, Correct(Code), Fair(Code), [Next]_vars
  PROVE  Correct(Code)'
<1>1. Paced'
  BY PacedNext DEF Correct
<1>2. DOMAIN prf' = 0 .. PrfSize - 1
  <2>1. CASE WritebackFast \/ WritebackSlow
    <3>1. Live
      BY <2>1 DEF WritebackFast, WritebackSlow, In, Live
    <3> QED
      BY <2>1, <3>1, FlowingComplete DEF Correct, Fair
  <2>2. CASE ~(WritebackFast \/ WritebackSlow)
    BY <2>2, ValuesStay DEF Correct
  <2> QED
    BY <2>1, <2>2
<1> QED
  BY <1>1, <1>2, NextFlowing DEF Correct

\* It holds at first.
LEMMA InitCorrect == \A Code : Init => Correct(Code)
<1> SUFFICES ASSUME NEW Code, Init PROVE Correct(Code)
  OBVIOUS
<1>1. /\ rob = <<>> /\ mode = "run" /\ fetchQ = <<>> /\ decodeQ = <<>> /\ pc = 0 /\ archPc = 0
      /\ outcome = "running" /\ slots = 0 /\ cycle = 0 /\ retired = 0 /\ stage = "idle"
      /\ prf = [p \in 0 .. PrfSize - 1 |-> 0]
  BY DEF Init, Ren!Init
<1>2. Len(rob) = 0 /\ Len(fetchQ) = 0 /\ Len(decodeQ) = 0
  BY <1>1
<1>3. \A i \in 1 .. 0 : FALSE
  OBVIOUS
<1>4. Paced
  BY <1>1, PipelineAssumption DEF Paced
<1>5. AllComputed /\ OnPath /\ Told /\ LoadsRead
  BY <1>2, <1>3 DEF AllComputed, OnPath, Told, LoadsRead
<1>6. FrontOnPath
  BY <1>1, <1>2 DEF FrontOnPath, Chained, LeadsTo, After
<1>7. Coded(Code)
  BY <1>2, <1>3 DEF Coded
<1> QED
  BY <1>1, <1>4, <1>5, <1>6, <1>7 DEF Correct, Flowing

-----------------------------------------------------------------------------
(* Refinement: committing is executing. *)

\* The registers a program sees.
Regs == [r \in Arch |-> prf[archRat[r]]]

\* What the in-order machine does, of the pipeline's own terms.
LEMMA ReferenceExecutes ==
  ASSUME NEW d, d = Decode(WordAt(mem, archPc)),
         NEW a, a = Regs[d.rs1], NEW b, b = Regs[d.rs2], NEW x, x = Wrap(a + d.imm),
         outcome = "running", retired < Width * MaxCycles, retired' = retired + 1,
         program' = program, outcome' = outcome, exit_code' = exit_code, d.kind # "TRAP",
         Regs' = IF ~d.writes_rd THEN Regs
                 ELSE [Regs EXCEPT ![d.rd] =
                         IF d.is_load
                         THEN extend_load(d.op, ValueOf(LoadBytes(mem, x, access_size(d.op))))
                         ELSE Result(d, archPc, a, b)],
         mem' = IF d.is_store THEN StoreBytes(mem, x, BytesOf(b, access_size(d.op))) ELSE mem,
         archPc' = NextPc(d, archPc, a, b)
  PROVE  Reference!Execute
<1>1. Reference!Fetched = d
  BY SameDecode, SameWords DEF Reference!Fetched
<1>2. Reference!Loaded(d, x) = extend_load(d.op, ValueOf(LoadBytes(mem, x, access_size(d.op))))
  BY SameBytes, SameValue DEF Reference!Loaded
<1>3. /\ Reference!Wrap(a + d.imm) = x
      /\ Reference!StoreBytes(mem, x, Reference!BytesOf(b, Reference!access_size(d.op)))
           = StoreBytes(mem, x, BytesOf(b, access_size(d.op)))
      /\ Reference!NextPc(d, archPc, a, b) = NextPc(d, archPc, a, b)
      /\ Reference!Result(d, archPc, a, b) = Result(d, archPc, a, b)
  BY SameWrap, SameBytes, SameOutcome
<1>4. Reference!Stepping(d)
  BY <1>1 DEF Reference!Stepping
<1> DEFINE regs == Regs
           addr(e) == Reference!Wrap(regs[e.rs1] + e.imm)
           Body(e) ==
             /\ Reference!Stepping(e) /\ e.kind # "TRAP"
             /\ regs' = IF ~e.writes_rd THEN regs
                        ELSE [regs EXCEPT ![e.rd] =
                                IF e.is_load THEN Reference!Loaded(e, addr(e))
                                ELSE Reference!Result(e, archPc, regs[e.rs1], regs[e.rs2])]
             /\ mem' = IF e.is_store
                       THEN Reference!StoreBytes(mem, addr(e),
                              Reference!BytesOf(regs[e.rs2], Reference!access_size(e.op)))
                       ELSE mem
             /\ archPc' = Reference!NextPc(e, archPc, regs[e.rs1], regs[e.rs2])
             /\ UNCHANGED <<outcome, exit_code>>
<1>5. regs[d.rs1] = a /\ regs[d.rs2] = b /\ addr(d) = x
  BY <1>3
<1> HIDE DEF regs, addr
<1>6. Body(d)
  <2>1. regs' = IF ~d.writes_rd THEN regs
                ELSE [regs EXCEPT ![d.rd] =
                        IF d.is_load THEN Reference!Loaded(d, x) ELSE Reference!Result(d, archPc, a, b)]
    BY <1>2, <1>3 DEF regs
  <2> QED
    BY <1>3, <1>4, <1>5, <2>1
<1> HIDE DEF Body
<1>7. \E e \in {Reference!Fetched} : Body(e)
  BY <1>1, <1>6
<1> QED
  BY <1>7 DEF Body, addr, regs, Regs, Reference!Execute

\* Nor is anything left out at the end.
LEMMA ReferenceEnds ==
  ASSUME NEW d, d = Decode(WordAt(mem, archPc)),
         outcome = "running", retired < Width * MaxCycles, retired' = retired + 1,
         program' = program, mem' = mem, Regs' = Regs, archPc' = archPc, d.kind = "TRAP",
         outcome' = IF Exits(d) THEN "halted" ELSE "trapped",
         exit_code' = IF Exits(d) THEN prf[archRat[RegA0]] ELSE exit_code
  PROVE  Reference!Halt \/ Reference!Trap
<1>1. Reference!Fetched = d
  BY SameDecode, SameWords DEF Reference!Fetched
<1>2. Reference!Stepping(d)
  BY <1>1 DEF Reference!Stepping
<1>3. RegA0 \in Arch /\ RegA7 \in Arch
  BY PipelineAssumption
<1>4. Reference!Exits(d) <=> Exits(d)
  BY <1>3 DEF Reference!Exits, Exits
<1>5. UNCHANGED <<mem, Regs, archPc>>
  OBVIOUS
<1>6. CASE Exits(d)
  <2>1. outcome' = "halted" /\ exit_code' = [r \in Arch |-> prf[archRat[r]]][RegA0]
    BY <1>3, <1>6
  <2> QED
    BY <1>1, <1>2, <1>4, <1>5, <1>6, <2>1 DEF Regs, Reference!Halt
<1>7. CASE ~Exits(d)
  BY <1>1, <1>2, <1>4, <1>5, <1>7 DEF Regs, Reference!Trap
<1> QED
  BY <1>6, <1>7

\* commit() is a step of the in-order machine.
LEMMA CommitExecutes ==
  ASSUME NumArch >= 32, NEW Code, Sound, Correct(Code), Fair(Code), [Next]_vars, CommitOne
  PROVE  Reference!Next
<1>1. PICK d : d = Decode(WordAt(mem, archPc))
  OBVIOUS
<1>2. PICK a, b : a = prf[archRat[d.rs1]] /\ b = prf[archRat[d.rs2]]
  OBVIOUS
<1>3. PICK x : x = Wrap(a + d.imm)
  OBVIOUS
<1>4. /\ outcome = "running" /\ Flowing(Code) /\ d \in Decs /\ d.rs1 \in Arch /\ d.rs2 \in Arch
      /\ Head(uops) = uops[1] /\ uops[1].dec = d /\ uops[1].pc = archPc
      /\ uops[1].next = NextPc(d, archPc, a, b)
      /\ ~d.is_load => uops[1].result = Result(d, archPc, a, b)
      /\ Addr(1) = x /\ Size(1) = access_size(d.op)
      /\ Stored(1) = BytesOf(b, access_size(d.op))
      /\ Head(rob) = rob[1] /\ rob[1] \in RP!Entry
      /\ rob[1].dest # None <=> d.writes_rd
      /\ d.writes_rd => rob[1].rd = d.rd /\ d.rd \in Arch /\ prf[rob[1].dest] = uops[1].result
  BY <1>1, <1>2, <1>3, HeadIsNext DEF Fair
<1>5. /\ program' = program /\ retired' = retired + 1 /\ prf' = prf
      /\ outcome' = IF d.kind # "TRAP" THEN outcome ELSE IF Exits(d) THEN "halted" ELSE "trapped"
      /\ exit_code' = IF Exits(d) THEN prf[archRat[RegA0]] ELSE exit_code
      /\ archPc' = IF d.kind = "TRAP" THEN archPc ELSE uops[1].next
      /\ archRat' = IF rob[1].dest # None THEN [archRat EXCEPT ![rob[1].rd] = rob[1].dest] ELSE archRat
  BY <1>4 DEF CommitOne, Turn, Ren!Commit, Ren!None, None
<1>6. retired < Width * MaxCycles
  BY PacedNext DEF Correct
<1>7. a = Regs[d.rs1] /\ b = Regs[d.rs2]
  BY <1>2, <1>4 DEF Regs
<1>8. d.is_load \/ d.is_store => Inside(1)
  BY <1>4, HeadInside DEF Fair
<1>9. mem' = IF d.is_store THEN StoreBytes(mem, x, BytesOf(b, access_size(d.op))) ELSE mem
  BY <1>4, <1>8, CommitMemory DEF Fair, Flowing
<1>10. d.is_load => uops[1].result
                      = extend_load(d.op, ValueOf(LoadBytes(mem, x, access_size(d.op))))
  BY <1>4, <1>8, HeadLoads DEF Fair, Flowing
<1>11. archRat \in [Arch -> RP!Phys]
  BY DEF Sound, Grounded, RP!TypeOK, RP!Arch, Arch
<1>12. Regs' = IF ~d.writes_rd THEN Regs ELSE [Regs EXCEPT ![d.rd] = uops[1].result]
  <2>1. CASE ~d.writes_rd
    BY <1>4, <1>5, <2>1 DEF Regs
  <2>2. CASE d.writes_rd
    <3>1. archRat' = [archRat EXCEPT ![d.rd] = rob[1].dest] /\ d.rd \in Arch
      BY <1>4, <1>5, <2>2
    <3>2. \A r \in Arch : prf'[archRat'[r]] = IF r = d.rd THEN uops[1].result ELSE prf[archRat[r]]
      BY <1>4, <1>5, <1>11, <2>2, <3>1
    <3> DEFINE v == uops[1].result
    <3>3. Regs' = [r \in Arch |-> IF r = d.rd THEN v ELSE prf[archRat[r]]]
      BY <3>2 DEF Regs
    <3> HIDE DEF v
    <3>4. [Regs EXCEPT ![d.rd] = v] = [r \in Arch |-> IF r = d.rd THEN v ELSE prf[archRat[r]]]
      BY DEF Regs
    <3> QED
      BY <2>2, <3>3, <3>4 DEF v
  <2> QED
    BY <2>1, <2>2
<1>13. d.kind = "TRAP" => ~d.writes_rd /\ ~d.is_store
  <2>1. PICK w \in Words : d = Decode(w)
    BY <1>4 DEF Decs
  <2>2. ShapeOf(d) \in Shapes
    BY <2>1, DecodedShape
  <2>3. d.kind = "TRAP" => ShapeOf(d).rd = None
    BY <2>2 DEF Shapes, ShapeOf
  <2> QED
    BY <1>4, <2>3, WritesNamed, DecodedKind
<1>14. d.kind # "TRAP" => ~Exits(d)
  <2>1. PICK w \in Words : d = Decode(w)
    BY <1>4 DEF Decs
  <2>2. d.kind = KindOf(d.op)
    BY <2>1 DEF Decode
  <2>3. KindOf("ECALL") = "TRAP"
    BY DEF KindOf, BranchOps, LoadOps, StoreOps, MulOps, DivOps, NopOps, TrapOps
  <2> QED
    BY <2>2, <2>3 DEF Exits
<1>15. CASE d.kind # "TRAP"
  <2>1. uops[1].result = IF d.is_load
                         THEN extend_load(d.op, ValueOf(LoadBytes(mem, x, access_size(d.op))))
                         ELSE Result(d, archPc, a, b)
    BY <1>4, <1>10
  <2>2. /\ outcome' = outcome /\ exit_code' = exit_code /\ archPc' = NextPc(d, archPc, a, b)
    BY <1>4, <1>5, <1>14, <1>15
  <2>3. Regs' = IF ~d.writes_rd THEN Regs
                ELSE [Regs EXCEPT ![d.rd] =
                        IF d.is_load
                        THEN extend_load(d.op, ValueOf(LoadBytes(mem, x, access_size(d.op))))
                        ELSE Result(d, archPc, a, b)]
    BY <1>12, <2>1
  <2> QED
    BY <1>1, <1>3, <1>4, <1>5, <1>6, <1>7, <1>9, <1>15, <2>2, <2>3, ReferenceExecutes DEF Reference!Next
<1>16. CASE d.kind = "TRAP"
  <2>1. mem' = mem /\ Regs' = Regs /\ archPc' = archPc
    BY <1>5, <1>9, <1>12, <1>13, <1>16
  <2>2. outcome' = IF Exits(d) THEN "halted" ELSE "trapped"
    BY <1>5, <1>16
  <2> QED
    BY <1>1, <1>4, <1>5, <1>6, <1>16, <2>1, <2>2, ReferenceEnds DEF Reference!Next
<1> QED
  BY <1>15, <1>16

\* Every other step leaves alone what the program sees.
LEMMA OthersStutter ==
  ASSUME NEW Code, Sound, Correct(Code), Fair(Code), [Next]_vars, ~CommitOne
  PROVE  UNCHANGED Reference!vars
<1>1. UNCHANGED <<program, retired>>
  <2>1. slots \in Nat
    BY DEF Correct, Paced
  <2>2. CASE Tick
    BY <2>2 DEF Tick, arch
  <2> QED
    BY <2>1, <2>2, StagesPass
<1>2. UNCHANGED <<mem, archPc, outcome, exit_code, archRat>>
  <2>1. CASE \/ Tick \/ Rest \/ CommitEnd \/ WritebackEnd \/ Execute \/ IssueEnd \/ DispatchEnd
             \/ RenameEnd \/ DecodeEnd \/ FetchEnd \/ UNCHANGED vars
    BY <2>1 DEF Tick, Rest, CommitEnd, WritebackEnd, Execute, IssueEnd, DispatchEnd, RenameEnd,
                DecodeEnd, FetchEnd, vars, renaming, arch
  <2>2. CASE Drain \/ Recover \/ Reclaim \/ Restore
    BY <2>2 DEF Drain, Recover, Reclaim, Restore, Ren!Drained, Ren!Recover, Ren!Reclaim, Ren!Restore, arch
  <2>3. CASE WritebackFast \/ WritebackSlow
    BY <2>3 DEF WritebackFast, WritebackSlow, Complete, Ren!Complete, arch
  <2>4. CASE TurnAway \/ ReplayLoad
    BY <2>4 DEF TurnAway, ReplayLoad, Considers, renaming, arch
  <2>5. CASE IssueLoad \/ IssueOther
    BY <2>5 DEF IssueLoad, IssueOther, Considers, Starts, Ren!Issue, arch
  <2>6. CASE DispatchOne \/ DecodeOne \/ DecodeTrap \/ FetchOne
    BY <2>6 DEF DispatchOne, DecodeOne, DecodeTrap, FetchOne, renaming, arch
  <2>7. CASE RenameOne
    BY <2>7 DEF RenameOne, Ren!Rename, arch
  <2> QED
    BY <2>1, <2>2, <2>3, <2>4, <2>5, <2>6, <2>7 DEF Next
<1>3. \A r \in Arch : prf'[archRat'[r]] = prf[archRat[r]]
  <2>1. CASE WritebackFast \/ WritebackSlow
    <3>1. Live
      BY <2>1 DEF WritebackFast, WritebackSlow, In, Live
    <3>2. /\ archRat' = archRat /\ \A r \in Arch : prf'[archRat[r]] = prf[archRat[r]]
      BY <2>1, <3>1, FlowingComplete DEF Correct, Fair
    <3> QED
      BY <3>2
  <2>2. CASE ~(WritebackFast \/ WritebackSlow)
    BY <1>2, <2>2, ValuesStay
  <2> QED
    BY <2>1, <2>2
<1>4. Regs' = Regs
  BY <1>3 DEF Regs
<1> QED
  BY <1>1, <1>2, <1>4 DEF Reference!vars, Regs

\* Both machines begin alike.
LEMMA ReferenceInit == Init => Reference!Init
<1> SUFFICES ASSUME Init PROVE Reference!Init
  OBVIOUS
<1>1. /\ program \in Programs /\ mem = Reference!load_hex(program, 0) /\ archPc = 0
      /\ outcome = "running" /\ exit_code = 0 /\ retired = 0
  BY SameWords DEF Init
<1>2. Regs = [r \in Arch |-> 0]
  <2>1. archRat = [r \in Arch |-> r] /\ prf = [p \in 0 .. PrfSize - 1 |-> 0]
    BY DEF Init, Ren!Init, Ren!Arch, Arch
  <2>2. \A r \in Arch : r \in 0 .. PrfSize - 1
    BY PipelineAssumption DEF Arch
  <2> QED
    BY <2>1, <2>2 DEF Regs
<1> QED
  BY <1>1, <1>2 DEF Regs, Reference!Init, Reference!ArchRegs, Arch

\* What the in-order machine does, the pipeline does between one commit and the next.
LEMMA StepsExecute ==
  ASSUME NumArch >= 32, NEW Code, Sound, Correct(Code), Fair(Code), [Next]_vars
  PROVE  [Reference!Next]_(Reference!vars)
BY CommitExecutes, OthersStutter

\* The invariants of the other proofs, together.
LEMMA SoundHolds ==
  ASSUME NumArch >= 32
  PROVE  Spec => []Sound
<1>1. RP!Spec => [](RP!TypeOK /\ RP!Shape)
  BY RP!TypeCorrect, RenamingApplies
<1>2. RP!Spec => []RP!Resolved
  BY RP!ResolvedHolds, RenamingApplies
<1>3. RP!Spec => []RP!Settled
  BY RP!SettledHolds, RenamingApplies
<1>4. RP!Spec => [](RP!OneOwner /\ RP!OneHolder)
  BY RP!Conservation, RenamingApplies
<1>5. RP!Spec => [](RP!RatIsProgramOrder /\ RP!StaleIsPredecessor
                     /\ RP!SourcesAreProgramOrder /\ RP!CheckpointsAreExact)
  BY RP!PreciseMapping, RenamingApplies
<1>6. CarryWords /\ InStep /\ RP!TypeOK /\ RP!Shape /\ RP!Resolved => Grounded
  BY DEF Grounded
<1>7. Grounded /\ InPlace /\ RP!Settled /\ RP!OneOwner /\ RP!SourcesAreProgramOrder => Sound
  BY DEF Sound
<1> QED
  BY <1>1, <1>2, <1>3, <1>4, <1>5, <1>6, <1>7, InitInPlace, NextInStep, NextInPlace,
     CarryWordsAlways, SameSpec, ImplementsRenaming, PTL DEF Spec

(***************************************************************************)
(* The pipeline executes programs as tests/ref.h does: registers, memory,  *)
(* the next pc, the exit code, the trap and the number retired, whatever   *)
(* was predicted, forwarded, replayed or squashed on the way; for every    *)
(* number of registers, every width, every size of every structure, every  *)
(* latency and every program.  The program is one that stays among the     *)
(* instructions at addresses Code and stores to none of them, since fetch  *)
(* does not see a store until it commits, and whose accesses do not wrap   *)
(* around the end of the address space, where the search of the store      *)
(* queue compares addresses without wrapping.                              *)
(***************************************************************************)
THEOREM ProgramsRunInOrder ==
  ASSUME NumArch >= 32, Mod \in Nat \ {0}, NEW Code
  PROVE  Spec /\ [](archPc \in Code) /\ [][SparesCode(Code)]_vars /\ []AccessesInside
           => ImplementsInOrder
<1>1. Sound /\ Correct(Code) /\ archPc \in Code /\ AccessesInside
        /\ [Next]_vars /\ [SparesCode(Code)]_vars
        => Correct(Code)' /\ [Reference!Next]_(Reference!vars)
  <2> SUFFICES ASSUME Sound, Correct(Code), archPc \in Code, AccessesInside,
                      [Next]_vars, [SparesCode(Code)]_vars
               PROVE  Correct(Code)' /\ [Reference!Next]_(Reference!vars)
    OBVIOUS
  <2>1. SparesCode(Code)
    BY DEF SparesCode, vars, arch
  <2>2. Fair(Code)
    BY <2>1 DEF Fair
  <2> QED
    BY <2>2, NextCorrect, StepsExecute
<1>2. Init => Correct(Code)
  BY InitCorrect
<1> QED
  BY <1>1, <1>2, ReferenceInit, SoundHolds, PTL DEF Spec, ImplementsInOrder, Reference!Spec
=============================================================================
