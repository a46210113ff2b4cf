# Formal model of Mini-CPU

TLA+ specifications of the out-of-order RV32IM pipeline in `src/src`, model
checked with TLC and, component by component, proved with TLAPS. Paths below are
relative to the repository; `README.md` section numbers are the repository's.

Contents: 1 the system · 2 modules and what they correspond to · 3 the runs ·
4 fairness · 5 the proofs · 6 disagreements found · 7 what is not modelled ·
8 plan.

## 1. The system

One C++ object, `Cpu`, advanced one cycle at a time by `tick()`. Nothing runs
concurrently in the host program; the concurrency is the machine's own. Up to
`rob_size` instructions are in flight, each at its own stage, most of them on a
path that may turn out never to have existed, and every structure is written by
several of them in an order fixed by operand readiness, latencies and port
contention. `tick()` calls commit, writeback, execute, issue, dispatch, rename,
decode and fetch, in that order; a misprediction found in issue is undone
before the same cycle's dispatch.

| component | state | operations | talks to | what makes it correct |
|---|---|---|---|---|
| renaming (`rename.h`) | physical registers and ready bits, free list, alias table (RAT), checkpoint pool | `rename()`, `complete()`, frees in `commit()`, `recover()`, `squash_in_flight()` | reorder buffer (displaced mapping), issue queue (tags) | every register has one owner; every mapping read is the one program order gives; nothing is reused while an operand names it; every pool is given back whole |
| reorder buffer (`rob.h`) | ring of entries, sequence counter | allocate, pop at head, truncate, squash all | everything, by age | leaves in program order, squashed youngest first |
| issue queue (`issue_queue.h`) | tags and ready bits in program order | insert, wakeup, select, erase, squash | ready bits at dispatch, broadcasts at writeback | no wakeup lost, oldest ready first |
| function units and writeback ports (`cpu.cpp`) | busy-until cycle per unit, ring of port bookings, operations executing and waiting for writeback | `issue()`, `execute()`, `writeback()`, `release_cdb()` | issue queue, reorder buffer | a booked result lands on its cycle, bookings are given back on a squash, loads are not starved |
| load and store queues (`lsq.h`) | two rings of seats | seat at dispatch, resolve and search at issue, pop at commit, squash, clear | memory at issue (loads) and commit (stores) | a load gets the bytes program order gives it; an uncommitted store is invisible |
| branch predictor (`branch_predictor.h`) | history, counters, target buffer, return stack | predict at fetch, restore and shift at recovery, learn at commit | fetch, checkpoints | any answer is safe; recovery brings back exactly the state of the path |
| fetch and decode (`cpu.cpp`) | program counter, stall flag, fetch, decode and rename queues | `fetch()`, `decode_stage()` | predictor, memory | the instructions in flight are one path, and the right one commits |
| memory (`memory.h`) | pages of bytes | loads, stores | queues, fetch | little-endian, addresses modulo 2^32 |
| in-order interpreter (`tests/ref.h`) | registers, memory, program counter | `step()` | none | the oracle of the tests |
| decode and arithmetic (`instruction.*`) | none | pure functions | decode, issue | the RV32IM tables |
| assembler of the tests (`tests/asm.h`) | none | encoders, `li`, `call` | decode | decode undoes it |
| driver, loader, statistics, trace | options, counters | run once or observe only | `Cpu` | (mostly not modelled, section 7) |

Hard to test, and what the properties are aimed at: which of two branches that
resolve wrong in one cycle recovers; what a checkpoint holds relative to the
branch's own destination, history bit and return-stack push; who owns a
register or a checkpoint at each step of a squash; a broadcast between rename
and dispatch; port bookings of results that are then squashed; loads that ride
on leftover ports; replays that occupy the only memory unit; reuse of a queue
slot after a squash while the head moves; older stores that overlap in part;
two stages that disagree about which instructions are still there; a result that
is right at the end of a program and was wrong on the way; a resource that comes
back one cycle late for ever; corner cases of division and of immediates; accesses at the end of the address space; a predictor that outlives the code it
was trained on; pools at their limit. PROJECT.json lists each at its line, with
the properties that cover it or why none does.

## 2. Modules

The modules come in two layers. A component module leaves open what its
neighbours decide, so a property holds whatever they do: `Renaming` and `LoadStoreQueues` for every schedule,
`Scheduler` for every instruction stream and every answer of the store queue
that the stores ahead allow, `FrontEnd` for every direction a branch may take
and every order of resolution. `Pipeline` composes them into the machine that
runs programs, and is compared with the interpreter the repository tests it
against.

**`Renaming`** (`rename.h`, `rob.h`, and the functions of `cpu.cpp` that own
them). The reorder buffer is a sequence, oldest first; an entry carries what the
code spreads over `RobEntry` and `Uop`. `Rename` is `rename()` for one
instruction with its three stalls as guards; `Issue` marks an instruction
issued and keeps the oldest mispredicting branch in `offender`, as `issue()`'s
locals do; `Complete` is `complete()`; `Commit` is one turn of `commit()`.
A squash is not atomic here: `Recover` (or a committing trap) moves the
cut-off entries to `killed`, `Reclaim` returns one entry's register and
checkpoint per step, and `Restore` or `Drained` adopts the mapping. The ledger is
therefore checked inside the loops as well. Values are left out.

**`Lsq`** and **`LoadStoreQueues`** (`lsq.h`). `Lsq` has the data structure and
the search as operators, used by both layers. The rings, slot indices and
wrap-around are as in the code, because an access in flight names its entry by
slot. In `LoadStoreQueues`, `Dispatch`,
`IssueStore`, `IssueLoad`, `Commit`, `Recover` and `Halt` are the queue's part
of `dispatch()`, `issue()`, `execute_load()`, `commit()`, `recover()` and
`squash_in_flight()`. The search is stated as what decides it (the youngest
older store that may conflict) and compared with the loop as written (`Walk`, a
recursive function over the turns of the loop).
A byte is the number of the store that wrote it and its position in that store,
so any wrong byte shows.

**`InOrderMemory`** is the abstract specification `LoadStoreQueues` implements:
the loads and stores of `tests/ref.h`, each atomic, in program order, against
`memory.h`. The refinement maps `mem` and `retired` to themselves: every step
that does not commit is a stutter.

**`Scheduler`** (`issue_queue.h` and the back half of `tick()`). Cycle-accurate:
`stage` runs through tick()'s order, `IssueNext` is one candidate of `issue()`'s
loop, `IssueEnd` its slot accounting and `recover()`'s back-end part, `Dispatch`
stands for rename and dispatch of one operation with any producers in flight
as its sources. Ages count from the head of the reorder buffer and times from the
current cycle, so an endless run has finitely many states and no bound on
cycles is needed. What leaves a queue is said once, with `Those`: select, erase,
squash and hand-over are uses of it; `Ports(n)` counts the writeback ports the
`n` oldest results need. `working` is a history variable no action reads: of each
class that blocks, the operations begun and the cycles they have to go. A squash
takes an operation out of `executing` and leaves it in `working`, as it leaves its
unit busy.

**`FrontEnd`** (`branch_predictor.h` and the front half of `tick()`). The
window is everything from the fetch queue to the reorder buffer. `Fetch`
predicts and snapshots, `Decode` drops what follows a trap, `Resolve` compares
any decoded instruction's outcome with its prediction, `Recover` restores,
`Commit` trains, `Rewrite` is a committed store to code. Addresses count
instructions. The target buffer's fill clock is kept as the rank of an entry in
its set, which is all that replacement reads of it. `archGhr` and `archStack`
exist only to state the properties.

**`Instruction`** (`instruction.h`, `instruction.cpp`, the pure functions of
`cpu.cpp`). `Decode` reads a word as its six fields and yields the record every
stage carries; the `alu::` primitives, `Result`, `NextPc`, `extend_load` and
`disasm` follow. Registers have `XLen` bits where the code has 32; every
operation wraps or splits at that width.

**`Memory`** (`memory.h`, the hex loader). Bytes by address, zero where none was
written, little-endian, addresses modulo 2^`XLen`.

**`InOrder`** (`tests/ref.h`). The interpreter: one instruction per step, over
registers, memory and program counter, ending by an exit, a trap or the budget.
It is the abstract specification of the whole machine.

**`Pipeline`** (`Cpu::tick()` and everything it calls). `stage` runs through
tick()'s order and one action is one turn of one stage's loop, or its end with
the reason it stopped (`CommitOne`/`CommitEnd`, ... `FetchOne`/`FetchEnd`). The
queues between the stages, operand values, memory and the programs are as in the
code. The state of `Renaming` is the pipeline's own (`Ren == INSTANCE Renaming`),
and every action that touches it does so by a step of that module: `RenameOne`
contains `Ren!Rename`, `Starts` contains `Ren!Issue`, and so on; `Lsq` supplies
both memory queues. `uops` is `Cpu::inflight_`, in step with `rob`. The predictor
is replaced by every prediction its tables allow: not taken for any word, taken to
its own target for a branch, and for a `JALR` taken to any member of the constant
`JalrTargets`, which stands for what the target buffer and the return stack may
hold. The proofs take any such set. `lastRetired` is a history variable, the cycle of
the latest retirement; no action reads it.

The refinement mapping of `Pipeline` to `InOrder`: the registers are the
physical registers the committed mapping names, the program counter is the one
commit keeps (`archPc`), memory, outcome, exit code and instruction count are
themselves. Every step but a commit is a stutter.

**`Assembler`** (`tests/asm.h`): the encoders, so that the programs of the runs
are written the way the tests write theirs, and so that `Decode` has an inverse
to be compared with.

**`MCRenaming`, `MCLoadStoreQueues`, `MCScheduler`, `MCFrontEnd`, `MCPipeline`,
`MCInOrder`** define the constants of the runs; `MCInOrder` also states the
reference definitions of section 3.

**`RenamingProofs`, `LoadStoreQueuesProofs`, `SchedulerProofs`,
`FrontEndProofs`** and **`PipelineProofs`** hold the theorems, each about the
module it is named for. **`PipelineQueuesProofs`** extends `PipelineProofs` with
where everything in flight is, and **`PipelineInOrderProofs`** that with what it
computes, up to the refinement of `InOrder`. **`NumberFacts`** has the lemmas they
share: the arithmetic of a ring of slots, least and greatest elements, queues in
the order of a set of numbers, and induction in a form without an operator
parameter (the numbers a statement holds of are a set). **`Queues`** has the one
operation on queues that `Scheduler` and `Pipeline` share, `Those(s, set)`: the
elements of a queue that are in a set, in their order.

Operators whose names end in `Slip` are plausible mistakes (a dropped guard, a
forgotten reset, a swapped order) with the same parameters as the operator that
follows. No specification uses them; they exist to show that each property can
tell the code from the mistake, by checking the property with the operator's body
replaced.

## 3. Runs

| run | instance | shows |
|---|---|---|
| `renaming` | 3 architectural and 5 physical registers, 3 entries, 2 checkpoints, fair; 822 k states | types; `OneOwner`, `OneHolder` (nothing leaks, nothing is freed twice, also in the middle of a squash); `Conserved` (the tests' own ledger, test_support.h:256-282); `RatIsProgramOrder`, `StaleIsPredecessor`, `SourcesAreProgramOrder`, `CheckpointsAreExact`; `NoEarlyReuse`; `PendingIsOwed`; `NeverStarved`, the rule of `Config::prf_can_starve`; `StallsEnd`: every rename stall ends |
| `renaming_tight` | 3 physical registers, fair | violated: section 6 |
| `queues` | 2 + 2 seats, 4 addresses, accesses of 1 and 2 bytes, 4 sequence numbers, fair; 311 k states | types; `SeatsAreOwn`; `LoadsReadProgramOrder`; `SearchIsTheWalk`; `ImplementsInOrder`, the refinement of `InOrderMemory`; `EveryAccessLeaves` |
| `queues_wrap` | an access over the end of the address space | violated: section 6 |
| `scheduler` | width 2, 3 entries, 2 queue entries, 1 port, one unit of each class, latencies 1 to 4; 3.04 M states | types; `OnePlace`; `NoLostWakeup`; `BookingsExact`; `BookedLands`; `UnitsNotShared` (one operation at a time in a blocking unit, a squashed one included) |
| `scheduler_live` | the same with loads, stores, multiplies and branches, fair | `HeadCompletes` |
| `scheduler_slots` | as `scheduler` | violated: section 6 |
| `front_end` | 6 addresses, 3 in flight, 2 history bits, 2 sets of 2 ways, return stack of 2; 1.09 M states | types; `PathIsConnected`; `GhrOnPath`, `RasOnPath`, `IndexOnPath`; `BtbIsFaithful`; `OffenderHasCheckpoint` |
| `front_end_any_code` | 3 addresses, a store may erase the branch | violated: section 6 |
| `pipeline` | 2501 programs; `JALR` predicted to five instructions and the middle of one; width 2, 4 entries, 6 physical registers, 2 checkpoints, 3 issue queue entries, 2 + 2 memory seats, 1 port, one unit of each class; 783 k states | `ImplementsInOrder`, the refinement of `InOrder`: after every instruction, not only at the end, the machine is where the interpreter is; `KeepsRetiring` (from one retirement to the next at most ten cycles pass); `InProgramOrder` (every entry in one place, every access at its own seat); `EndsClean` (nothing is left behind by a program that ended); no deadlock |
| `pipeline_trace` | the five handwritten programs | violated: section 6 |
| `in_order` | programs of one store and one load at 30 bits; words the assembler emits; 6-bit arithmetic; 4619 states | `StoredIsLoaded`; `AssemblyDecodes`; `TextIdentifies`; `ArithmeticIsExact` (all pairs of operands, zero divisors too) |

Why the bounds are enough to be interesting. *Renaming*: two renamed registers and
three entries give chains of two writers of a register with a reader between them
and a branch before, between or behind; two free registers and two checkpoints
make all three stalls happen; two branches can resolve wrong before one recovers.
*Queues*: two neighbouring addresses and two widths give every relation of store
to load (disjoint, equal, covering, covered, overlapping on either side); four
numbers over two seats wrap both rings and reuse slots after squashes and pops.
Address arithmetic wraps modulo 4 as the code's does modulo 2^32; `MCOps` stays
clear of the end of the address space and `WrapOps` goes there. *Scheduler*: three
entries and one port make results of latency 1 to 4 meet on one cycle, a blocked
operation is passed by a younger one, a recovery squashes operations in each of
the four places they can be, and the ring of six slots wraps. A divide of four
cycles is the shortest that a branch can squash and that still holds its unit when
the next divide is ready for it: with three, the unit is free again before.
*FrontEnd*: the program has a loop, a call from two places, a return, and a trap
behind the loop; the return stack overflows on the wrong path; three addresses
share a set of two ways. A store turns the loop's branch round and back, so the
target buffer is stale while branches are in flight.

*Pipeline*: `MCPrograms` is every sequence of three out of a pool of ten
instructions, every two of them with a jump through a register before or between,
every sequence of four out of six memory instructions with late addresses and
data, and five longer programs (a loop, a call, a forwarding chain, a store behind
a mispredicted branch, an unhandled trap). The pool has one instruction for each
way two can meet: through a register, a unit, a writeback port, memory or control.
With two spare physical registers, four entries and two checkpoints every stall
happens; with one port and one unit of each class, so does every contention. A
program has at most one such jump, except the handwritten ones, since each fetch
of it branches six ways. `MaxCycles` is 60 and no run takes as many: one that did
would be reported as a deadlock. `Patience` is ten cycles here: six stages around
the operation, and either the longest latency or the load's and the two cycles
(`Overtaken`) in which younger results can take the only port from it. It is
exact: a load ahead of two multiplies takes all ten. The bound is that of these
sizes; with more operations than units to wait for, an instruction's turn may come
later.

*InOrder*: the store and load programs take the corner values of `li`'s split
through every pair of access widths, and the others cover calls, exits, traps, an
endless loop and the budget; 30 bits hold every immediate and keep TLC's integers
from overflowing; 6 bits allow all pairs of operands, by zero and INT_MIN / -1
among them. The encodings are checked over the ends of every immediate's field and
four registers.

`CHECK_DEADLOCK FALSE` is set in every run but `pipeline` and `pipeline_trace`:
the component models stop when the program ends or the bounds are reached. In
`Pipeline` a machine that is done rests (`Rest`), so a deadlock would be a
tick() that no stage can finish, or a run that does not end.

Bounds by name: `MaxSeq` (accesses dispatched), `MaxInFlight` (window of
`FrontEnd`), `JalrTargets` (what a `JALR` may be predicted to go to), `MaxCycles`
and `MaxInsts` (the code's own run limits), `XLen` (bits of a register), and the
structure sizes, which are the code's own configuration.

## 4. Fairness

`Cpu::run()` calls `tick()` until the run is over and `tick()` calls every
stage, so a step that stays possible is taken. `Renaming` and `LoadStoreQueues`
assume weak fairness of `Advance`, the disjunction of everything except taking in
new instructions: no fairness of fetch, of a branch's outcome or of recovery is
assumed. `Scheduler` assumes weak fairness of `Next`, that is, the clock
runs; what the front end supplies and what a load hears remain arbitrary,
so starvation by younger operations is not excluded by assumption.
The finite reorder buffer excludes it: once it is full, nothing competes with
the head. `Pipeline` needs no fairness: it counts cycles, and `KeepsRetiring`
bounds those between one retirement and the next.

## 5. Proofs

Every theorem holds for every value of the constants that satisfies the module's
own assumption (positive sizes and the like), and for all schedules the
specification allows. Some carry a further hypothesis, which their entry below
names: no access over the end of the address space (`OpsInside`,
`AccessesInside`), stores to code that leave a branch a branch (`BranchesStay`),
keep its kind (`KindsStay`) or are not made (`SparesCode`), and 32 architectural
registers (`NumArch >= 32`). What the code does without them is shown by the runs
`queues_wrap` and `front_end_any_code`.

### Renaming

`RenamingProofs` proves, for every number of registers, reorder buffer entries
and checkpoints and every set of instructions satisfying `RenamingAssumption`
(at least one entry and at least as many physical as architectural registers):

| theorem | statement |
|---|---|
| `TypeCorrect` | `Spec => [](TypeOK /\ Shape)` |
| `Conservation` | `Spec => [](OneOwner /\ OneHolder)` |
| `PreciseMapping` | `Spec => []` of the four program-order readings |
| `SourcesStayAlive` | `Spec => []NoEarlyReuse` |
| `NoLostProducer` | `Spec => []PendingIsOwed` |
| `LedgerHolds` | `Spec => []Conserved` |
| `StarvationFree` | `Spec => []NeverStarved` |
| `StarvationRule` | with `PrfSize >= RobSize + NumArch`, a rename that has an entry has a register |

The inductive invariant is `Inv`: types, `Shape`, the two ledgers and the four
program-order readings together. None of them is inductive alone. `TypeOK`
needs `Shape` (a recovery reads the checkpoint of the entry it ends on, which
exists only because that entry is a branch). `OneOwner` needs
`StaleIsPredecessor`: commit frees the displaced register, and that this is the
one the committed mapping holds, not some live one, is a statement about
program order. The readings need `OneHolder` (a checkpoint in use is never
overwritten by another branch's) and each other (commit moves the committed
mapping under them; recovery replaces the RAT by a checkpoint). The proof has
one lemma per action and per group of conjuncts: type lemmas; then the ledgers,
through `OwnersAppend`, `OwnersSplit`, `OwnersTail` (what a step moves between two
owners); then program order, through `Names` and `EntryOrder`, a reading of one
entry that a change behind it cannot disturb. `NoEarlyReuse` follows from `Inv`.
`PendingIsOwed` needs one more inductive fact, `ReadyBits`: committed registers
and completed destinations are always ready. Two more, for the composed machine:
`Settled` (what has started had its operands' ready bits set and its own
destination's is not set until it completes, so no operand changes under an
instruction that has read it) and `Resolved` (a recovery ends on a branch that
has issued). `NeverStarved` follows from
`OneOwner` by counting: with an empty free list and no squash under way, every
register is committed or in flight. `StarvationRule` is `Config::prf_can_starve`
itself.

`Conserved`, the tests' ledger over the speculative mapping, follows from `Inv` too,
by reading every register off the ownership: `NamedIsOwned`, `NamedOnce` and
`NamedIsFound` say that a register in use is named by exactly one of the RAT and
the displaced mappings.

### Load and store queues

`LoadStoreQueuesProofs` proves, for every size of either ring and of the address
space and every set of accesses:

| theorem | statement |
|---|---|
| `TypeCorrect` | `Spec => []TypeOK` |
| `OwnSeats` | `Spec => []SeatsAreOwn` |
| `SearchIsTheLoop` | `Spec => []SearchIsTheWalk` |
| `ReadsAreRight` | with `OpsInside`, `Spec => []LoadsReadProgramOrder` |
| `RefinesInOrder` | with `OpsInside`, `Spec => ImplementsInOrder` |

The inductive invariant is `TypeOK /\ Seats /\ Order`. `SeatsAreOwn` alone is not
inductive: it says that each access has an entry, and `SeatsOf` adds that each
entry counted has an access and what the entry knows of it, without which a pop
or a squash could leave an entry nobody owns. `Order` (numbers grow with
age, all beyond what retired) is what a squash by number needs. The `Seats...`
lemmas take one operation of a ring each. `SearchFacts` turns the search's
answer into a statement about the accesses themselves; with it the bytes follow
from `MemoryBefore`, memory as the older stores leave it, which a commit does
not change for those behind it (`MemoryShift`). The refinement needs one step
only: a committing load has, by `LoadsReadProgramOrder`, what memory holds
at that moment. `OpsInside` says that no access runs over the end of the address
space: the run `queues_wrap` shows that the code is wrong for one that does
(section 6). `SearchIsTheLoop` takes no such hypothesis; its induction
(`DecidesNext`) says of the loop's locals after k turns what the youngest
conflict so far decides.

### Scheduler

`SchedulerProofs` proves, for every width, queue size, number of units and
ports, latency and supply of operations:

| theorem | statement |
|---|---|
| `TypeCorrect` | `Spec => []TypeOK` |
| `InOnePlace` | `Spec => []OnePlace` |
| `WakeupsAreHeard` | `Spec => []NoLostWakeup` |
| `RingIsExact` | `Spec => []BookingsExact` |
| `PromisesAreKept` | `Spec => []BookedLands` |
| `UnitsAreHeldAlone` | `Spec => []UnitsNotShared` |

One inductive invariant carries all six, with a second one beside it for the last:
`TypeOK /\ Places /\ NoLostWakeup /\
OnTime /\ Booked /\ Covered /\ Choosing`. `Places` says by age which queue an
operation is in, where `OnePlace` counts occurrences. `OnTime` gives each result
under way a due cycle that fits the stage tick() is in, and `Booked` counts, for each
slot of the ring, the results that land in it (`Landing`): the two need each
other, since writeback clears the slot of the current cycle on the
promise that all its results have landed. `Covered` says that the operations in
flight with t cycles to go are no more than the units busy for as long, for every t:
two may share a unit later only if they already do. `Choosing` says of issue()'s list of candidates
and its offender what the loop assumes between two turns, with the ready bits
and the queue moving under it. `UnitsNotShared` speaks of squashed operations too,
which only the history variable `working` still knows: `Matched` says that for each
class and number of cycles it counts exactly the units held for as long. A turn of
issue() adds to both or to neither (`WorkTurns`, `TakenMatches`), the clock moves
both (`TickMatches`), and a squash touches neither.

### Front end

`FrontEndProofs` proves, for every program, history length, table size and
number of instructions in flight:

| theorem | statement |
|---|---|
| `TypeCorrect` | `Spec => []TypeOK` |
| `OnePath` | `Spec => []PathIsConnected` |
| `BtbTellsTheTruth` | `Spec => []BtbIsFaithful` |
| `OffendersRecover` | with `BranchesStay`, `Spec => []OffenderHasCheckpoint` |
| `HistoryIsExact` | with `KindsStay`, `Spec => []GhrOnPath` |
| `ReturnStackIsExact` | with `KindsStay`, `Spec => []RasOnPath` |
| `TrainingIsExact` | with `KindsStay`, `Spec => []IndexOnPath` |

`OnePath` needs `OffenderResolved` next to it: recovery refetches from where the
offender goes, so it must have resolved. `BtbTellsTheTruth` is inductive with
`Learned`, which says the same of what the instructions in flight will teach the
buffer when they commit. The three exactness theorems share one argument: the
speculative state is the architectural one with the instructions in flight
applied in order, and a snapshot is that state at its place. For the return stack this
speaks of the newest `RasSize` addresses still open, because the ring forgets
older ones. `BranchesStay` says that a store to code leaves a branch a branch
(`front_end_any_code` shows what happens otherwise, section 6) and `KindsStay`
that it leaves its kind too, as the rewrites of the run `front_end` do. Without
it exactness is not claimed: the target buffer predicts, and so shifts, pushes
and pops, by the kind it learned from the address's earlier contents, which need
not be the kind of the instruction now fetched.

### The composed machine

`PipelineProofs` carries the renaming results over to the composed machine, for every
configuration, program, prediction and register width, with at least the 32
architectural registers a register field can name:

| theorem | statement |
|---|---|
| `ImplementsRenaming` | `Spec => Ren!Spec`: the pipeline is a behaviour of `Renaming` |
| `PipelineKeepsRegisters` | `Spec => []` of the three ledgers and the program-order readings |
| `PipelineOperandsArrive` | `Spec => []` of `NoEarlyReuse` and `PendingIsOwed` |
| `NothingLeftBehind` | `Spec => []EndsClean` |

The step lemma is `Refines`: each action of `Pipeline` takes one step of `Renaming`
or leaves its variables alone. Only `RenameOne` needs an invariant,
`CarryWords`: what rename() takes from the decode queue is what decode() made of
some 32-bit word, and such an instruction has the shape `Renaming` was proved
for (`DecodedShape`: the destination is never x0, a trap neither writes nor
branches). `CarryWords` is inductive on its own. The next two theorems then
follow from those of `RenamingProofs`; the `Same...` lemmas say that the instance
of `Renaming` the pipeline is built from and the one those proofs are about are one.

`NothingLeftBehind` adds two invariants of the pipeline's own: `InStep` (the
reorder buffer and `inflight_` have the same length outside a recovery and agree
on which entry ends the run, so both are emptied by the same commit) and
`Rested` (only `Drain` ends a run, and no stage starts again). That the pools are
whole then is `PoolsAtRest`, by counting, from the ledgers.

`PipelineQueuesProofs` says where everything is:

| theorem | statement |
|---|---|
| `EverythingInItsPlace` | with `NumArch >= 32`, `Spec => []InProgramOrder` |

`InProgramOrder` speaks of `mode = "run"`; its invariant `InPlace` must hold
during a squash too, when `inflight_` is longer than the reorder buffer and the
queues still name what was cut off. It has five parts. `Numbered`: sequence
numbers ascend in `inflight_` and stay below the counter, so a number finds its
instruction. `Listed`: every queue holds numbers of instructions in flight, none
twice, and no two queues share one. `Placed`: what waits is in the rename or the
issue queue and what has started in one of the three queues of results, and
nobody else is in either. `Queued`: the rename queue holds the youngest, and
issue()'s candidates are none of them. `Seated`: each memory queue is a
ring of its capacity whose seats are the dispatched accesses in order, each at
the index it remembers. A recovery needs `Resolved`: it clears the rename queue
whole and cuts the others at the branch's number, and that the branch has issued
means that it, and so everything older, has left the rename queue: nothing that
is kept is lost. `NumArch >= 32` comes from `ImplementsRenaming`.

`PipelineInOrderProofs` says what it computes:

| theorem | statement |
|---|---|
| `ProgramsRunInOrder` | with `NumArch >= 32`, for every set of addresses `Code`: `Spec /\ [](archPc \in Code) /\ [][SparesCode(Code)]_vars /\ []AccessesInside => ImplementsInOrder` |

The three hypotheses are about the program. It stays among the instructions at
`Code` and no store of its own changes one of them: a store is not seen by
instructions fetched before it commits, and `FENCE` does nothing about it
(section 7). No access of it runs over the end of the address space, where the
code is wrong (section 6, item 2). `SparesCode` and `AccessesInside` speak of
committed state only, so they say nothing of wrong paths: those may fetch
anything, store anywhere and wrap. The programs of the run `pipeline` meet all
three, with `Code` the addresses 0, 4, ... 32. A fourth hypothesis,
`Mod \in Nat \ {0}`, is there because the provers know nothing of powers: `Mod` is
`2^XLen`.

The invariant is `Correct`. While anything is in flight it has these parts:

- `AllComputed`: an entry names the registers of its instruction, and what has
  started has the result and the next pc that the values of its operands give.
  That those values are the right ones at its commit is
  `SourcesAreProgramOrder` of `Renaming`, at the head; that they are the ones it
  read is `Settled` and `OneOwner`, through `CarriedComplete`.
- `OnPath`, `FrontOnPath`: up to the oldest instruction known to have gone
  elsewhere, each instruction is where the one before leads, and the decode
  queue, the fetch queue and fetch's pc go on from there. recover() restarts
  fetch where the branch went; commit() moves the first link.
- `Coded`: what was fetched from an address of `Code` is what is there.
- `Told`: a memory queue's slot knows the size of its access and, once the store
  has started, its address and bytes.
- `LoadsRead`: a load that has started, with every older access that has inside
  the address space, has a result made of bytes each of which is the youngest
  older store's to that address, or memory's, with no older store that might
  still write there. A load that starts has this from the search
  (`SearchMeans`, `LoadFinds`); a store that commits hands its bytes to memory
  (`CommitMemory`), which changes nothing for the loads behind it
  (`LoadsCommit`).

and always `Paced`: a cycle retires at most `Width` instructions, so the
interpreter's budget of `Width * MaxCycles` is never reached first. The
proof has one lemma per invariant and kind of step, over what a step does to the
entries that stay (`Carried`): it moves all of them `s` places forward and leaves
them as they were but for a completion, except for the one it makes or starts.
`FlowingCommit`, `FlowingIssueLoad` and the others then put the parts together
action by action, `CommitExecutes` turns a commit into a step of the interpreter
and `OthersStutter` everything else into none. The `Same...` lemmas say that the
arithmetic of the instance of `InOrder` is the pipeline's own.

### Only model-checked

- Liveness under fairness: `StallsEnd`, `EveryAccessLeaves`, `HeadCompletes`. The
  prover has no rule for it, nor for enabledness.
- `KeepsRetiring`, a bound on the cycles between retirements that composes the progress
  of every component.
- The properties of `MCInOrder`: laws of decode, encode and arithmetic over the
  corner values listed there. They are evaluated, not induced.

## 6. Disagreements found

1. `config.h:46` calls any `prf_size` below `rob_size + 32` legal: it "just
   stalls rename". With `prf_size = 32` the stall never ends (`renaming_tight`).
   One register more is enough to end every stall.
2. The store queue's search computes the bounds of an access in 64 bits
   (`lsq.h:136-148`), where they do not wrap; memory wraps. A load at address 0
   behind a store that runs over the end of the address space reads stale bytes
   (`queues_wrap`), against `lsq.h:19-20`.
3. README section 14 says every unused issue slot is charged to exactly one
   cause. With an empty issue queue the slots are charged to none
   (`cpu.cpp:474-477`, `scheduler_slots`).
4. `issue()` compares every instruction with its prediction, but only what
   decodes as a branch has a checkpoint. If a committed store has overwritten a
   branch the target buffer knows, `recover()` reads the checkpoint pool at
   `INVALID_CHECKPOINT` (`cpu.cpp:510`, `front_end_any_code`), against
   README section 12.
5. The trace promises where an instruction goes once it has issued
   (`trace.h:432-434`), but prints `RobEntry::next_pc` (`trace.h:436`), which
   rename() sets to the fall-through (`cpu.cpp:243`) and nothing updates: issue()
   resolves the uop's own field (`cpu.cpp:452`). Every taken branch is traced
   as going to `pc + 4`, and the viewer compares that with the prediction
   (`oooviz.html:1103-1106`). `pipeline_trace`.

## 7. Not modelled

- *In `Pipeline`*: the predictor's tables (any prediction they could produce is
  allowed, with the targets of a `JALR` given as a set; `FrontEnd` has the tables), the issue queue's copies of the ready bits
  (`Scheduler` shows they agree with the register file), and statistics.
- *Stores into code still in the window.* The pipeline does not see them until it
  refetches and `FENCE.I` does nothing; the interpreter does. The programs of
  the runs do not write their own code; `FrontEnd` covers what stale code does
  to the predictor.
- *Zero-sized structures.* The code accepts zero for every size; the models
  assume at least one, except checkpoints, as every test does.
- *Sequence-number wrap-around* after 2^32 instructions: ages are positions here.
- *Driver, `load_raw` and `load_elf`, the trace's format, viewer, statistics other
  than the issue slots, example generator, the test harness*: input and output
  around the machine, or observers that never write its state.
- *Names in listings.* README section 6 of the repository says `disasm()` uses
  ABI names and pseudo-instructions; it prints `x` numbers and none. No run is
  about it: the text identifies the instruction either way (`TextIdentifies`).

## 8. Plan

1. `AssemblyDecodes` per format for every field, and `ArithmeticIsExact` at any
   width: both need arithmetic with powers and division that the provers lack.
2. The ring of `rob.h` shown to implement the sequence of `Renaming`, with sequence
   numbers modulo a small bound, to see their wrap-around.
3. `ProgramsRunInOrder` for a program that overwrites its code, with a fetch that
   is known not to have overtaken the store.
