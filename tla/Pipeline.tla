------------------------------ MODULE Pipeline -------------------------------
(***************************************************************************)
(* Cpu::tick(): the whole machine.  The eight stages run in reverse order, *)
(* commit first and fetch last, each a loop over at most Width             *)
(* instructions; one action is one turn of one of those loops, or its end. *)
(*                                                                         *)
(* Renaming's state is the pipeline's own, under the same names, and every *)
(* action that touches it does so by taking a step of that module, so the  *)
(* pipeline is Renaming with a schedule, operand values, memory and        *)
(* queues.  What is left open is the predictor: any prediction a           *)
(* branch target buffer could make for the word at hand (FrontEnd.tla has  *)
(* the predictor itself).  Statistics, the event log and the issue queue's *)
(* copies of the ready bits (Scheduler.tla) are left out.                  *)
(***************************************************************************)
EXTENDS Memory, Queues, Functions
LOCAL INSTANCE FiniteSetsExt
LOCAL INSTANCE FiniteSets

CONSTANTS
  NumArch, PrfSize, RobSize, NumCkpt,    \* as in Renaming
  RegA0, RegA7, SysExit, Programs,       \* as in InOrder
  Width,     \* Config::width
  IqSize, LqSize, SqSize, NumCdb,
  Units,     \* units of each class: num_alu, num_branch, num_mul, num_div, num_mem
  Latency,   \* cycles of each kind: alu_latency, ..., mem_latency
  JalrTargets, \* what the target buffer and the return stack may hold for a JALR
  MaxCycles  \* run()'s max_cycles

Classes == {"ALU", "BRANCH", "MUL", "DIV", "MEM"}

VARIABLES
  program,
  \* Renaming's variables
  free, ready, rat, archRat, ckptFree, ckptRat, rob, offender, killed, mode,
  prf,       \* PhysicalRegisterFile: the values
  uops,      \* Cpu::inflight_: what the stages know of each entry of rob
  nextSeq,   \* Rob::next_seq_
  pc, stalled,               \* pc_ and fetch_stalled_
  fetchQ, decodeQ, renameQ,  \* between the front-end stages; renameQ by number
  iq,        \* IssueQueue: sequence numbers, oldest first
  lq, sq,    \* Lsq
  unit,      \* fu_free_at_: the cycle each unit is free at
  booked,    \* cdb_booked_: writeback ports booked, by cycle modulo Window
  executing, wbFast, wbSlow, \* executing_, wb_fast_ and wb_slow_, by number
  mem,
  cycle, stage,
  slots,     \* turns the current loop has taken; in writeback, ports used
  cand,      \* issue()'s `ready`: the candidates still to consider
  outcome, exit_code, archPc, retired,
  lastRetired  \* history variable: the cycle of the latest retirement, 0 before the first

renaming == <<free, ready, rat, archRat, ckptFree, ckptRat, rob, offender, killed, mode>>
fronts   == <<pc, stalled, fetchQ, decodeQ>>
timing   == <<unit, booked>>
results  == <<executing, wbFast, wbSlow>>
arch     == <<mem, outcome, exit_code, archPc, retired, lastRetired>>

vars == <<program, renaming, prf, uops, nextSeq, fronts, renameQ, iq, lq, sq, timing,
          results, cycle, stage, slots, cand, arch>>

Arch == 0 .. NumArch - 1
None == -1

(***************************************************************************)
(* What rename() looks at in a decoded instruction.                        *)
(***************************************************************************)
ShapeOf(d) ==
  [rd |-> IF d.writes_rd THEN d.rd ELSE None, rs1 |-> d.rs1, rs2 |-> d.rs2,
   branch |-> d.is_branch, trap |-> d.kind = "TRAP"]

Shapes ==
  {d \in [rd : (Arch \ {0}) \cup {None}, rs1 : Arch, rs2 : Arch,
          branch : BOOLEAN, trap : BOOLEAN] :
     d.trap => d.rd = None /\ ~d.branch}

Ren == INSTANCE Renaming WITH Insts <- Shapes
Q   == INSTANCE Lsq

QueueCap == 2 * (IF Width > 1 THEN Width ELSE 1)

latency_of(d) ==
  IF d.kind \in {"STORE", "NOP", "TRAP"} \/ Latency[d.kind] < 1 THEN 1 ELSE Latency[d.kind]

Longest == Max({1} \cup {Latency[k] : k \in DOMAIN Latency})
Window  == Longest + 2

ASSUME PipelineAssumption ==
  /\ NumArch \in Nat \ {0} /\ PrfSize \in Nat /\ PrfSize >= NumArch
  /\ RegA0 \in Arch /\ RegA7 \in Arch
  /\ RobSize \in Nat \ {0} /\ NumCkpt \in Nat
  /\ Width \in Nat \ {0} /\ IqSize \in Nat \ {0} /\ NumCdb \in Nat \ {0}
  /\ LqSize \in Nat \ {0} /\ SqSize \in Nat \ {0}
  /\ Units \in [Classes -> Nat \ {0}]
  /\ Latency \in [{"ALU", "BRANCH", "MUL", "DIV", "LOAD"} -> Nat]
  /\ JalrTargets \subseteq 0 .. Mod - 1 /\ MaxCycles \in Nat

Init ==
  /\ program \in Programs
  /\ Ren!Init
  /\ prf = [p \in 0 .. PrfSize - 1 |-> 0]
  /\ uops = <<>> /\ nextSeq = 0
  /\ pc = 0 /\ stalled = FALSE /\ fetchQ = <<>> /\ decodeQ = <<>> /\ renameQ = <<>>
  /\ iq = <<>> /\ lq = Q!EmptyQueue(LqSize) /\ sq = Q!EmptyQueue(SqSize)
  /\ unit = [c \in Classes |-> [u \in 1 .. Units[c] |-> 0]]
  /\ booked = [s \in 0 .. Window - 1 |-> 0]
  /\ executing = <<>> /\ wbFast = <<>> /\ wbSlow = <<>>
  /\ mem = load_hex(program, 0)
  /\ cycle = 0 /\ stage = "idle" /\ slots = 0 /\ cand = <<>>
  /\ outcome = "running" /\ exit_code = 0 /\ archPc = 0 /\ retired = 0
  /\ lastRetired = 0

\* The entry of sequence number seq, which what a queue holds always has.
At(seq) == CHOOSE i \in DOMAIN uops : uops[i].seq = seq
UopOf(seq) == uops[At(seq)]
InFlight(seq) == At(seq) \in 1 .. Len(rob)

\* Inside a stage's loop, and no squash under way.
In(s) == stage = s /\ mode = "run"

\* One turn of a stage's loop, at most Width of them a cycle.
Turn(s) ==
  /\ In(s) /\ slots < Width
  /\ slots' = slots + 1
  /\ UNCHANGED <<program, cycle, stage>>

\* The loop is over, and the next stage's begins.
Over(s, next) ==
  /\ In(s)
  /\ stage' = next /\ slots' = 0
  /\ UNCHANGED <<program, cycle>>

\* run() calls tick() until the machine is done or out of cycles.
Tick ==
  /\ stage = "idle" /\ outcome = "running" /\ cycle < MaxCycles
  /\ cycle' = cycle + 1
  /\ stage' = "commit" /\ slots' = 0
  /\ UNCHANGED <<program, renaming, prf, uops, nextSeq, fronts, renameQ, iq, lq, sq,
                 timing, results, cand, arch>>

\* tick() once the machine is done.
Rest ==
  /\ mode = "done"
  /\ UNCHANGED vars

-----------------------------------------------------------------------------
(* commit() *)

CanCommit == rob # <<>> /\ Head(rob).state = "complete"

\* Any trap with the number of an exit in a7 exits.
ExitsSlip(d) == d.kind = "TRAP" /\ prf[archRat[RegA7]] = SysExit

\* ecall with a7 = 93, as committed.
Exits(d) == d.op = "ECALL" /\ prf[archRat[RegA7]] = SysExit

(***************************************************************************)
(* The head retires: a store reaches memory, a trap ends the run.          *)
(***************************************************************************)
CommitOne ==
  LET u     == Head(uops)
      d     == u.dec
      store == Q!Nth(sq, 0)
  IN  /\ Turn("commit")
      /\ CanCommit
      /\ Ren!Commit
      /\ lq' = IF d.is_load THEN Q!PopHead(lq) ELSE lq
      /\ sq' = IF d.is_store THEN Q!PopHead(sq) ELSE sq
      /\ mem' = IF d.is_store THEN StoreBytes(mem, store.addr, store.data) ELSE mem
      /\ outcome' = IF d.kind # "TRAP" THEN outcome
                    ELSE IF Exits(d) THEN "halted" ELSE "trapped"
      /\ exit_code' = IF Exits(d) THEN prf[archRat[RegA0]] ELSE exit_code
      /\ archPc' = IF d.kind = "TRAP" THEN u.pc ELSE u.next
      /\ retired' = retired + 1 /\ lastRetired' = cycle
      /\ uops' = IF d.kind = "TRAP" THEN <<>> ELSE Tail(uops)
      /\ UNCHANGED <<prf, nextSeq, fronts, renameQ, iq, timing, results, cand>>

CommitEnd ==
  /\ Over("commit", "writeback")
  /\ slots = Width \/ ~CanCommit
  /\ UNCHANGED <<renaming, prf, uops, nextSeq, fronts, renameQ, iq, lq, sq, timing,
                 results, cand, arch>>

\* The end of squash_in_flight(): nothing is in flight any more.
Drain ==
  /\ Ren!Drained
  /\ lq' = Q!Clear(lq) /\ sq' = Q!Clear(sq)
  /\ fetchQ' = <<>> /\ decodeQ' = <<>> /\ renameQ' = <<>> /\ iq' = <<>>
  /\ executing' = <<>> /\ wbFast' = <<>> /\ wbSlow' = <<>>
  /\ booked' = [s \in 0 .. Window - 1 |-> 0]
  /\ stalled' = FALSE
  /\ UNCHANGED <<program, prf, uops, nextSeq, pc, unit, cycle, stage, slots, cand, arch>>

-----------------------------------------------------------------------------
(* writeback() and execute() *)

Writes(seq) == UopOf(seq).dec.writes_rd
IsLoad(seq) == UopOf(seq).dec.is_load

\* Results whose port is booked come first, in the order they were produced.
FastNext == wbFast # <<>> /\ (Writes(Head(wbFast)) => slots < NumCdb)

\* Loads take what is left.
SlowNext == ~FastNext /\ wbSlow # <<>> /\ slots < NumCdb

\* complete(): the value lands and the entry may commit.
Complete(seq) ==
  LET i == At(seq)
  IN  /\ InFlight(seq) /\ Ren!Complete(i)
      /\ prf' = IF uops[i].dec.writes_rd THEN [prf EXCEPT ![rob[i].dest] = uops[i].result]
                ELSE prf
      /\ UNCHANGED <<program, uops, nextSeq, fronts, renameQ, iq, lq, sq, timing,
                     executing, cycle, stage, cand, arch>>

WritebackFast ==
  /\ In("writeback") /\ FastNext
  /\ Complete(Head(wbFast))
  /\ slots' = IF Writes(Head(wbFast)) THEN slots + 1 ELSE slots
  /\ wbFast' = Tail(wbFast) /\ wbSlow' = wbSlow

WritebackSlow ==
  /\ In("writeback") /\ SlowNext
  /\ Complete(Head(wbSlow))
  /\ slots' = slots + 1
  /\ wbSlow' = Tail(wbSlow) /\ wbFast' = wbFast

WritebackEnd ==
  /\ Over("writeback", "execute")
  /\ ~FastNext /\ ~SlowNext
  /\ booked' = [booked EXCEPT ![cycle % Window] = 0]
  /\ UNCHANGED <<renaming, prf, uops, nextSeq, fronts, renameQ, iq, lq, sq, unit,
                 results, cand, arch>>

\* Youngest first.
SelectedSlip(woken) ==
  LET s == Those(iq, woken) IN [k \in DOMAIN s |-> s[Len(s) + 1 - k]]
\* IssueQueue::select, oldest first.
Selected(woken) == Those(iq, woken)

\* Longer operations hand their result over in the cycle it appears; then
\* issue() picks its candidates.
Execute ==
  LET due   == {s \in Range(executing) : UopOf(s).wb <= cycle + 1}
      loads == {s \in due : IsLoad(s)}
      woken == {s \in Range(iq) : ready[rob[At(s)].src1] /\ ready[rob[At(s)].src2]}
  IN  /\ Over("execute", "issue")
      /\ executing' = Those(executing, Range(executing) \ due)
      /\ wbSlow' = wbSlow \o Those(executing, loads)
      /\ wbFast' = wbFast \o Those(executing, due \ loads)
      /\ cand' = Selected(woken)
      /\ UNCHANGED <<renaming, prf, uops, nextSeq, fronts, renameQ, iq, lq, sq, timing, arch>>

-----------------------------------------------------------------------------
(* issue() *)

unit_of(d) ==
  CASE d.kind \in {"LOAD", "STORE"} -> "MEM"
    [] d.kind \in {"NOP", "TRAP"}   -> "NONE"
    [] OTHER                        -> d.kind

FreeUnits(d) == {u \in 1 .. Units[unit_of(d)] : unit[unit_of(d)][u] <= cycle}
Available(d) == unit_of(d) # "NONE" => FreeUnits(d) # {}

\* free_unit(): the first one, held until the given cycle.
Held(d, until) ==
  IF unit_of(d) = "NONE" THEN unit ELSE [unit EXCEPT ![unit_of(d)][Min(FreeUnits(d))] = until]

\* reserve_cdb(); loads book nothing, their latency is not known yet.
Books(d)    == d.writes_rd /\ ~d.is_load
PortFree(d) == Books(d) => booked[(cycle + latency_of(d)) % Window] < NumCdb

\* The candidate under consideration, its operands and, for an access, its address.
Considered == At(Head(cand))
Val1 == prf[rob[Considered].src1]
Val2 == prf[rob[Considered].src2]
Wanted  == uops[Considered].dec
Address == Wrap(Val1 + Wanted.imm)

Considers ==
  /\ In("issue") /\ cand # <<>> /\ slots < Width
  /\ InFlight(Head(cand))
  /\ cand' = Tail(cand)
  /\ UNCHANGED <<program, nextSeq, prf, fronts, renameQ, cycle, stage, arch>>

\* No unit or no writeback port: the candidate keeps its seat.
TurnAway ==
  /\ Considers
  /\ ~Available(Wanted) \/ ~PortFree(Wanted)
  /\ UNCHANGED <<renaming, uops, iq, lq, sq, timing, results, slots>>

\* The address is known to the queue, whatever the search then says.
Addressed(q) == Q!ResolveAddr(q, uops[Considered].lsq, Address)
Found == Q!SearchOlderStores(sq, Addressed(lq).slots[uops[Considered].lsq])

\* An older store may be in the way: the unit is spent, the seat kept.
ReplayLoad ==
  /\ Considers
  /\ Wanted.is_load /\ Available(Wanted)
  /\ Found.kind = "REPLAY"
  /\ lq' = Addressed(lq)
  /\ unit' = Held(Wanted, cycle + 1)
  /\ UNCHANGED <<renaming, uops, iq, sq, booked, results, slots>>

\* A branch whose target is not the predicted one is now known mispredicted.
Mispredicts(u) == u.next # u.pred

\* The candidate starts, to land `lat` cycles from now as u describes.  Only the multiplier takes another operation while one is under way.
Starts(u, lat) ==
  LET queued(q, here) == IF here THEN Append(q, u.seq) ELSE q
  IN  /\ Ren!Issue(Considered, Mispredicts(u))
      /\ uops' = [uops EXCEPT ![Considered] = [u EXCEPT !.wb = cycle + lat]]
      /\ unit' = Held(u.dec, cycle + (IF unit_of(u.dec) = "MUL" THEN 1 ELSE lat))
      /\ iq' = Those(iq, Range(iq) \ {u.seq})
      /\ executing' = queued(executing, lat > 1)
      /\ wbSlow' = queued(wbSlow, lat = 1 /\ u.dec.is_load)
      /\ wbFast' = queued(wbFast, lat = 1 /\ ~u.dec.is_load)
      /\ slots' = slots + 1

\* execute_load(): bytes forwarded from the store queue at once, or memory's.
IssueLoad ==
  LET d         == Wanted
      forwarded == Found.kind = "FORWARD"
      bytes     == IF forwarded THEN Found.data ELSE LoadBytes(mem, Address, access_size(d.op))
  IN  /\ Considers
      /\ d.is_load /\ Available(d)
      /\ Found.kind # "REPLAY"
      /\ lq' = Addressed(lq)
      /\ Starts([uops[Considered] EXCEPT !.result = extend_load(d.op, ValueOf(bytes))],
                IF forwarded THEN 1 ELSE latency_of(d))
      /\ UNCHANGED <<sq, booked>>

\* Everything else: a port is booked, execute_uop() runs, a store's address
\* and data go to the queue.
IssueOther ==
  LET d    == Wanted
      u    == uops[Considered]
      slot == (cycle + latency_of(d)) % Window
  IN  /\ Considers
      /\ ~d.is_load /\ Available(d) /\ PortFree(d)
      /\ booked' = IF Books(d) THEN [booked EXCEPT ![slot] = @ + 1] ELSE booked
      /\ sq' = IF d.is_store
               THEN Q!ResolveData(Addressed(sq), u.lsq, BytesOf(Val2, access_size(d.op)))
               ELSE sq
      /\ Starts([u EXCEPT !.result = Result(d, u.pc, Val1, Val2),
                          !.next = NextPc(d, u.pc, Val1, Val2)],
                latency_of(d))
      /\ lq' = lq

SelectionOver == cand = <<>> \/ slots = Width

IssueEnd ==
  /\ Over("issue", "dispatch")
  /\ SelectionOver /\ offender = 0
  /\ cand' = <<>>
  /\ UNCHANGED <<renaming, prf, uops, nextSeq, fronts, renameQ, iq, lq, sq, timing,
                 results, arch>>

-----------------------------------------------------------------------------
(* recover() *)

Recover ==
  /\ In("issue") /\ SelectionOver
  /\ Ren!Recover
  /\ cand' = <<>>
  /\ UNCHANGED <<program, prf, uops, nextSeq, fronts, renameQ, iq, lq, sq, timing,
                 results, cycle, stage, slots, arch>>

\* Also squash_in_flight()'s loop.
Reclaim ==
  /\ Ren!Reclaim
  /\ UNCHANGED <<program, prf, uops, nextSeq, fronts, renameQ, iq, lq, sq, timing,
                 results, cycle, stage, slots, cand, arch>>

\* Results under way behind the branch give back the ports they had booked.
Released(seq) ==
  LET squashed == {s \in Range(executing \o wbFast \o wbSlow) :
                     s > seq /\ Books(UopOf(s).dec) /\ UopOf(s).wb > cycle}
      back(k)  == Cardinality({s \in squashed : UopOf(s).wb % Window = k})
  IN  [k \in 0 .. Window - 1 |-> Max({0, booked[k] - back(k)})]

\* Fetch restarts where the branch went.
Refetch(br) == pc' = br.next /\ stalled' = FALSE

\* The queues keep what is not younger than the branch.
Restore ==
  LET br      == uops[Len(rob)]
      kept(q) == Those(q, {s \in Range(q) : s <= br.seq})
  IN  /\ Ren!Restore
      /\ iq' = kept(iq)
      /\ lq' = Q!SquashAfter(lq, br.seq) /\ sq' = Q!SquashAfter(sq, br.seq)
      /\ executing' = kept(executing) /\ wbFast' = kept(wbFast) /\ wbSlow' = kept(wbSlow)
      /\ booked' = Released(br.seq)
      /\ uops' = SubSeq(uops, 1, Len(rob))
      /\ fetchQ' = <<>> /\ decodeQ' = <<>> /\ renameQ' = <<>>
      /\ Refetch(br)
      /\ stage' = "dispatch" /\ slots' = 0
      /\ UNCHANGED <<program, prf, nextSeq, unit, cycle, cand, arch>>

-----------------------------------------------------------------------------
(* dispatch() *)

CanDispatch ==
  /\ renameQ # <<>>
  /\ Len(iq) < IqSize
  /\ IsLoad(Head(renameQ)) => ~Q!Full(lq)
  /\ UopOf(Head(renameQ)).dec.is_store => ~Q!Full(sq)

DispatchOne ==
  LET seq == Head(renameQ)
      d   == UopOf(seq).dec
  IN  /\ Turn("dispatch") /\ CanDispatch
      /\ renameQ' = Tail(renameQ)
      /\ iq' = Append(iq, seq)
      /\ lq' = IF d.is_load THEN Q!Alloc(lq, seq, access_size(d.op)) ELSE lq
      /\ sq' = IF d.is_store THEN Q!Alloc(sq, seq, access_size(d.op)) ELSE sq
      /\ uops' = [uops EXCEPT ![At(seq)].lsq =
                    IF d.is_load THEN Q!Tailed(lq) ELSE IF d.is_store THEN Q!Tailed(sq) ELSE @]
      /\ UNCHANGED <<renaming, prf, nextSeq, fronts, timing, results, cand, arch>>

DispatchEnd ==
  /\ Over("dispatch", "rename")
  /\ slots = Width \/ ~CanDispatch
  /\ UNCHANGED <<renaming, prf, uops, nextSeq, fronts, renameQ, iq, lq, sq, timing,
                 results, cand, arch>>

-----------------------------------------------------------------------------
(* rename() *)

CanRename ==
  /\ decodeQ # <<>>
  /\ Len(renameQ) < QueueCap
  /\ ~Ren!RobFull
  /\ Head(decodeQ).dec.is_branch => ckptFree # <<>>
  /\ Head(decodeQ).dec.writes_rd => free # <<>>

\* Until it executes, an instruction is taken to fall through.
RenameOne ==
  LET f == Head(decodeQ)
  IN  /\ Turn("rename") /\ CanRename
      /\ Ren!Rename(ShapeOf(f.dec))
      /\ uops' = Append(uops, [seq |-> nextSeq, pc |-> f.pc, dec |-> f.dec, pred |-> f.pred,
                               next |-> link_address(f.pc), robNext |-> link_address(f.pc),
                               result |-> 0, lsq |-> 0, wb |-> 0])
      /\ nextSeq' = nextSeq + 1
      /\ renameQ' = Append(renameQ, nextSeq)
      /\ decodeQ' = Tail(decodeQ)
      /\ UNCHANGED <<prf, pc, stalled, fetchQ, iq, lq, sq, timing, results, cand, arch>>

RenameEnd ==
  /\ Over("rename", "decode")
  /\ slots = Width \/ ~CanRename
  /\ UNCHANGED <<renaming, prf, uops, nextSeq, fronts, renameQ, iq, lq, sq, timing,
                 results, cand, arch>>

-----------------------------------------------------------------------------
(* decode_stage() and fetch() *)

CanDecode == fetchQ # <<>> /\ Len(decodeQ) < QueueCap

Decoded(f) == [pc |-> f.pc, dec |-> Decode(f.raw), pred |-> f.pred]

DecodeOne ==
  /\ Turn("decode") /\ CanDecode
  /\ Decoded(Head(fetchQ)).dec.kind # "TRAP"
  /\ decodeQ' = Append(decodeQ, Decoded(Head(fetchQ)))
  /\ fetchQ' = Tail(fetchQ)
  /\ UNCHANGED <<renaming, prf, uops, nextSeq, pc, stalled, renameQ, iq, lq, sq, timing,
                 results, cand, arch>>

\* Nothing past a trap is worth fetching.
DecodeTrap ==
  /\ Over("decode", "fetch") /\ slots < Width /\ CanDecode
  /\ Decoded(Head(fetchQ)).dec.kind = "TRAP"
  /\ decodeQ' = Append(decodeQ, Decoded(Head(fetchQ)))
  /\ fetchQ' = <<>>
  /\ stalled' = TRUE
  /\ UNCHANGED <<renaming, prf, uops, nextSeq, pc, renameQ, iq, lq, sq, timing,
                 results, cand, arch>>

DecodeEnd ==
  /\ Over("decode", "fetch")
  /\ slots = Width \/ ~CanDecode
  /\ UNCHANGED <<renaming, prf, uops, nextSeq, fronts, renameQ, iq, lq, sq, timing,
                 results, cand, arch>>

(***************************************************************************)
(* What predict() may say of the word at `at`: only a word that is a       *)
(* branch can be in the target buffer, with its own target, or for a JALR  *)
(* with one that it committed to, a call's return among them.              *)
(***************************************************************************)
NotTaken(at) == [taken |-> FALSE, target |-> link_address(at)]
Predictions(d, at) ==
  LET targets == CASE d.op = "JALR" -> JalrTargets
                   [] d.is_branch   -> {branch_target(at, d.imm)}
                   [] OTHER         -> {}
  IN  {NotTaken(at)} \cup {[taken |-> TRUE, target |-> t] : t \in targets}

CanFetch == ~stalled /\ Len(fetchQ) < QueueCap

\* A bundle ends at the first predicted redirect.  Whatever memory holds, load_u32
\* makes a word of it.
FetchOne ==
  LET w == WordAt(mem, pc)
  IN  \E pr \in Predictions(Decode(w), pc) :
        /\ In("fetch") /\ slots < Width /\ CanFetch
        /\ w \in Words
        /\ fetchQ' = Append(fetchQ, [pc |-> pc, raw |-> w, pred |-> pr.target])
        /\ pc' = pr.target
        /\ slots' = IF pr.taken THEN Width ELSE slots + 1
        /\ UNCHANGED <<program, renaming, prf, uops, nextSeq, stalled, decodeQ, renameQ, iq,
                       lq, sq, timing, results, cycle, stage, cand, arch>>

FetchEnd ==
  /\ Over("fetch", "idle")
  /\ slots = Width \/ ~CanFetch
  /\ UNCHANGED <<renaming, prf, uops, nextSeq, fronts, renameQ, iq, lq, sq, timing,
                 results, cand, arch>>

Next ==
  \/ Tick \/ Rest
  \/ CommitOne \/ CommitEnd \/ Drain
  \/ WritebackFast \/ WritebackSlow \/ WritebackEnd \/ Execute
  \/ TurnAway \/ ReplayLoad \/ IssueLoad \/ IssueOther \/ IssueEnd
  \/ Recover \/ Reclaim \/ Restore
  \/ DispatchOne \/ DispatchEnd
  \/ RenameOne \/ RenameEnd
  \/ DecodeOne \/ DecodeTrap \/ DecodeEnd
  \/ FetchOne \/ FetchEnd

Spec == Init /\ [][Next]_vars

-----------------------------------------------------------------------------
(* Properties. *)

\* The in-order machine, seen through the committed mapping.  Its instruction
\* budget is more than the pipeline's cycles allow.
Reference ==
  INSTANCE InOrder WITH regs <- [r \in Arch |-> prf[archRat[r]]], pc <- archPc,
                        MaxInsts <- Width * MaxCycles

(***************************************************************************)
(* The pipeline does what tests/ref.h does, instruction by instruction:    *)
(* registers, memory, the next pc, the exit code, the trap and the number  *)
(* retired, whatever was predicted, forwarded, replayed or squashed on the *)
(* way.  The tests compare the end of a run only.                          *)
(***************************************************************************)
ImplementsInOrder == Reference!Spec

\* What a load may wait for a port, which it gets when no younger result has
\* booked it (writeback()): each of those holds an entry of the window and a
\* register of its own.
Overtaken == Min({RobSize - 1, PrfSize - NumArch}) \div NumCdb

\* From fetch to commit: five cycles to issue, the operation, and the cycle after
\* its writeback.
Patience == 6 + Max({Longest, latency_of([kind |-> "LOAD"]) + Overtaken})

(***************************************************************************)
(* The pipeline never waits for nothing: from each retirement to the next  *)
(* it takes no longer than an instruction fetched anew would, with what it *)
(* can lose to others.  A lost wakeup, a leaked register, port or queue    *)
(* seat, or a stall nobody ends would show as a longer wait.               *)
(***************************************************************************)
KeepsRetiring == outcome = "running" => cycle - lastRetired <= Patience

(***************************************************************************)
(* Every entry of the reorder buffer is in one place, the one its state    *)
(* says, and the memory queues hold exactly the accesses dispatched, in    *)
(* program order, each at the seat its instruction remembers: across       *)
(* replays, squashes and the queues' own wrapping.                         *)
(***************************************************************************)
Ascending(s) == \A j, k \in DOMAIN s : j < k => s[j] < s[k]
Numbers(q)   == [k \in 1 .. q.count |-> Q!Nth(q, k - 1).seq]
OwnSeat(q, u) == \E k \in 0 .. q.count - 1 :
                   u.lsq = (q.head + k) % q.cap /\ Q!Nth(q, k).seq = u.seq

InProgramOrder ==
  mode = "run" =>
    LET seated(u) == u.seq \notin Range(renameQ)
        loads     == {u \in Range(uops) : u.dec.is_load /\ seated(u)}
        stores    == {u \in Range(uops) : u.dec.is_store /\ seated(u)}
        started   == executing \o wbFast \o wbSlow
    IN  /\ Ascending([i \in DOMAIN uops |-> uops[i].seq])
        /\ Ascending(Numbers(lq)) /\ Range(Numbers(lq)) = {u.seq : u \in loads}
        /\ Ascending(Numbers(sq)) /\ Range(Numbers(sq)) = {u.seq : u \in stores}
        /\ \A u \in loads : OwnSeat(lq, u)
        /\ \A u \in stores : OwnSeat(sq, u)
        /\ \A i \in DOMAIN uops :
             /\ rob[i].state = "waiting" <=> uops[i].seq \in Range(renameQ \o iq)
             /\ rob[i].state = "issued" <=> uops[i].seq \in Range(started)
        /\ IsInjective(started)

(***************************************************************************)
(* "Where it actually goes is only settled at execute; before that the     *)
(* field still holds the fall-through": what a trace prints of an entry of *)
(* the reorder buffer once it has issued is where the instruction goes     *)
(* (trace.h:433-436).                                                      *)
(***************************************************************************)
TracedNextPc ==
  mode = "run" =>
    \A i \in DOMAIN rob : rob[i].state # "waiting" => uops[i].robNext = uops[i].next

(***************************************************************************)
(* A run that ended left nothing behind: no queue entry, no booked port,   *)
(* no checkpoint in use, every register either architectural or free.      *)
(***************************************************************************)
EndsClean ==
  mode = "done" =>
    /\ fetchQ = <<>> /\ decodeQ = <<>> /\ renameQ = <<>> /\ iq = <<>> /\ uops = <<>>
    /\ executing = <<>> /\ wbFast = <<>> /\ wbSlow = <<>>
    /\ lq.count = 0 /\ sq.count = 0
    /\ \A s \in DOMAIN booked : booked[s] = 0
    /\ rat = archRat
    /\ {free[k] : k \in DOMAIN free} = (0 .. PrfSize - 1) \ {archRat[r] : r \in Arch}
    /\ Len(free) = PrfSize - NumArch /\ Len(ckptFree) = NumCkpt
=============================================================================
