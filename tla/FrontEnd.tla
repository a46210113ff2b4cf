------------------------------ MODULE FrontEnd ------------------------------
(***************************************************************************)
(* Speculative fetch: the predictor of branch_predictor.h (gshare, branch  *)
(* target buffer, return stack) under fetch(), decode_stage(), the         *)
(* resolution of predictions in issue(), recover() and commit() of cpu.cpp.*)
(*                                                                         *)
(* Instructions are their control flow.  Addresses count instructions, so  *)
(* the code's pc + 4 is pc + 1 here, and wrap at the end of the address    *)
(* space.  Which way a conditional branch goes, and where a register jump  *)
(* leads, is open, and instructions in flight resolve in any order.        *)
(***************************************************************************)
EXTENDS Integers, Sequences

CONSTANTS
  NumPc,        \* size of the address space, in instructions
  Program,      \* the instruction at each address, at the start
  Rewrites,     \* <<address, instruction>> pairs a store of the program may make
  MaxInFlight,  \* instructions between fetch and commit
  GhrSize,      \* 2^ghr_bits
  PhtSize,      \* Config::pht_size
  BtbSets, BtbWays, RasSize

Pc == 0 .. NumPc - 1
Instr ==
  [op : {"PLAIN", "BXX", "JAL", "JALR", "TRAP"}, linkRd : BOOLEAN, linkRs1 : BOOLEAN,
   targets : (SUBSET Pc) \ {{}}]

ASSUME FrontEndAssumption ==
  /\ {NumPc, MaxInFlight, GhrSize, PhtSize, BtbSets, BtbWays, RasSize} \subseteq Nat \ {0}
  /\ Program \in [Pc -> Instr]
  /\ Rewrites \subseteq Pc \X Instr

Kinds == {"NONE", "CONDITIONAL", "JUMP", "CALL", "RETURN"}

VARIABLES
  code,       \* Memory, as far as fetch reads it
  pc,         \* pc_
  stalled,    \* fetch_stalled_
  ghr,        \* Gshare: the global history
  pht,        \* Gshare: the two-bit counters
  btb,        \* Btb: the entries of each set, by way
  ras,        \* Ras: stack_, top_ and count_
  window,     \* instructions in flight, from fetch_q_ to the reorder buffer
  offender,   \* issue()'s local: position of the branch to recover from, or 0
  archPc,     \* arch_pc_
  archGhr,    \* history and return stack the committed instructions leave
  archStack,  \*   behind, kept only to state the properties
  mode        \* "run" or "done"

vars == <<code, pc, stalled, ghr, pht, btb, ras, window, offender,
          archPc, archGhr, archStack, mode>>

Succ(p) == (p + 1) % NumPc

IsBranch(i) == i.op \in {"BXX", "JAL", "JALR"}

\* classify()
KindOf(i) ==
  CASE ~IsBranch(i)   -> "NONE"
    [] i.op = "BXX"   -> "CONDITIONAL"
    [] i.op = "JAL"   -> IF i.linkRd THEN "CALL" ELSE "JUMP"
    [] i.op = "JALR"  -> IF i.linkRd THEN "CALL" ELSE IF i.linkRs1 THEN "RETURN" ELSE "JUMP"

\* Where execution may go after the instruction at p.
Outcomes(i, p) ==
  CASE i.op = "BXX" -> i.targets \cup {Succ(p)}
    [] i.op \in {"JAL", "JALR"} -> i.targets
    [] OTHER -> {Succ(p)}

-----------------------------------------------------------------------------
(* Gshare *)

Bit(b) == IF b THEN 1 ELSE 0
Shifted(g, taken) == (2 * g + Bit(taken)) % GhrSize

\* The exclusive or of a and b, below n (a power of two).
Xor(a, b, n) ==
  LET bit(x, w) == (x \div w) % 2
      f[k \in 1 .. n] ==
        IF k = 1 THEN 0
        ELSE f[k \div 2] + (IF bit(a, k \div 2) = bit(b, k \div 2) THEN 0 ELSE k \div 2)
  IN f[n]

PhtIndex(p) == Xor(ghr, p, PhtSize)

Saturated(c, taken) ==
  IF taken THEN (IF c < 3 THEN c + 1 ELSE c) ELSE (IF c > 0 THEN c - 1 ELSE c)

-----------------------------------------------------------------------------
(* Btb: `used` is the rank of an entry's last fill among its set's, the    *)
(* oldest lowest, which is all that replacement reads of the fill clock.   *)

NoBtbEntry == [valid |-> FALSE, tag |-> 0, target |-> 0, kind |-> "NONE", used |-> 0]
SetOf(p) == p % BtbSets
Ways == 1 .. BtbWays

\* Any valid entry of the set will do.
HittingSlip(p) == {w \in Ways : btb[SetOf(p)][w].valid}
Hitting(p) == {w \in Ways : btb[SetOf(p)][w].valid /\ btb[SetOf(p)][w].tag = p}

First(S) == CHOOSE w \in S : \A v \in S : w <= v

\* Btb::lookup
Lookup(p) == IF Hitting(p) = {} THEN NoBtbEntry ELSE btb[SetOf(p)][First(Hitting(p))]

Filled(set, w, p, target, kind) ==
  [v \in Ways |->
     IF v = w
       THEN [valid |-> TRUE, tag |-> p, target |-> target, kind |-> kind, used |-> BtbWays]
       ELSE [set[v] EXCEPT !.used = IF @ > set[w].used THEN @ - 1 ELSE @]]

\* The entry the address already has is not looked for.
VictimSlip(set, p) ==
  LET unused == {w \in Ways : ~set[w].valid}
  IN IF unused # {} THEN First(unused)
     ELSE CHOOSE w \in Ways : \A v \in Ways : set[w].used <= set[v].used

\* Btb::update's choice: the first way that is the address's own or unused,
\* else the one filled longest ago.
Victim(set, p) ==
  LET own == {w \in Ways : set[w].valid => set[w].tag = p}
  IN IF own # {} THEN First(own)
     ELSE CHOOSE w \in Ways : \A v \in Ways : set[w].used <= set[v].used

-----------------------------------------------------------------------------
(* Ras: a ring that forgets its deepest entry when it overflows. *)

EmptyRas == [stack |-> [k \in 0 .. RasSize - 1 |-> 0], top |-> 0, count |-> 0]

\* The count runs past the capacity.
PushedSlip(r, p) ==
  LET top == (r.top + 1) % RasSize
  IN [stack |-> [r.stack EXCEPT ![top] = p], top |-> top, count |-> r.count + 1]

Pushed(r, p) ==
  LET top == (r.top + 1) % RasSize
  IN [stack |-> [r.stack EXCEPT ![top] = p], top |-> top,
      count |-> IF r.count < RasSize THEN r.count + 1 ELSE r.count]

Popped(r) ==
  [r EXCEPT !.top = (@ + RasSize - 1) % RasSize, !.count = @ - 1]

\* entries(), top first.
RasEntries(r) ==
  [k \in 1 .. r.count |-> r.stack[(r.top + RasSize - ((k - 1) % RasSize)) % RasSize]]

-----------------------------------------------------------------------------
Init ==
  /\ code = Program
  /\ pc = 0 /\ archPc = 0
  /\ stalled = FALSE
  /\ ghr = 0 /\ archGhr = 0
  /\ pht = [k \in 0 .. PhtSize - 1 |-> 1]
  /\ btb = [s \in 0 .. BtbSets - 1 |-> [w \in Ways |-> NoBtbEntry]]
  /\ ras = EmptyRas /\ archStack = <<>>
  /\ window = <<>>
  /\ offender = 0
  /\ mode = "run"

(***************************************************************************)
(* BranchPredictor::predict: only a hit redirects fetch, and only a hit    *)
(* moves the history or the return stack.                                  *)
(***************************************************************************)
Predict(p) ==
  LET hit == Lookup(p)
      taken == CASE ~hit.valid -> FALSE
                 [] hit.valid /\ hit.kind = "CONDITIONAL" -> pht[PhtIndex(p)] >= 2
                 [] OTHER -> TRUE
      pops == hit.valid /\ hit.kind = "RETURN" /\ ras.count > 0
  IN [hit    |-> hit.valid,
      taken  |-> taken,
      next   |-> IF ~taken THEN Succ(p) ELSE IF pops THEN ras.stack[ras.top] ELSE hit.target,
      index  |-> PhtIndex(p),
      ghr    |-> IF hit.valid /\ hit.kind = "CONDITIONAL" THEN Shifted(ghr, taken) ELSE ghr,
      ras    |-> IF pops THEN Popped(ras)
                 ELSE IF hit.valid /\ hit.kind = "CALL" THEN Pushed(ras, Succ(p)) ELSE ras]

\* The return stack is saved before the branch's own push or pop.
SnapshotSlip(pr) == [ghr |-> ghr, ras |-> ras]

\* fe_snap: history from before this branch's shift, return stack from after
\* its push or pop.
Snapshot(pr) == [ghr |-> ghr, ras |-> pr.ras]

\* Cpu::fetch, one instruction.
Fetch ==
  LET pr == Predict(pc)
  IN /\ mode = "run" /\ ~stalled /\ offender = 0
     /\ Len(window) < MaxInFlight
     /\ window' = Append(window,
          [pc |-> pc, ins |-> code[pc], hit |-> pr.hit, taken |-> pr.taken, pred |-> pr.next,
           index |-> pr.index, snap |-> Snapshot(pr),
           decoded |-> FALSE, resolved |-> FALSE, next |-> Succ(pc)])
     /\ pc' = pr.next
     /\ ghr' = pr.ghr
     /\ ras' = pr.ras
     /\ UNCHANGED <<code, stalled, pht, btb, offender, archPc, archGhr, archStack, mode>>

\* Cpu::decode_stage, one instruction: behind a trap the fetch queue is dropped
\* and fetch stops.
Decode(i) ==
  /\ mode = "run" /\ offender = 0
  /\ ~window[i].decoded
  /\ \A j \in 1 .. i - 1 : window[j].decoded
  /\ LET after == [window EXCEPT ![i].decoded = TRUE]
         trap  == window[i].ins.op = "TRAP"
     IN /\ window' = IF trap THEN SubSeq(after, 1, i) ELSE after
        /\ stalled' = (stalled \/ trap)
  /\ UNCHANGED <<code, pc, ghr, pht, btb, ras, offender, archPc, archGhr, archStack, mode>>

\* The last one found wins.
OffendsSlip(i) == TRUE
\* Of the branches that resolve wrong in one cycle, the oldest recovers.
Offends(i) == offender = 0 \/ i < offender

\* Cpu::issue, one instruction: its outcome is compared with the prediction.
Resolve(i, next) ==
  /\ mode = "run"
  /\ window[i].decoded /\ ~window[i].resolved
  /\ window' = [window EXCEPT ![i].resolved = TRUE, ![i].next = next]
  /\ offender' = IF next # window[i].pred /\ Offends(i) THEN i ELSE offender
  /\ UNCHANGED <<code, pc, stalled, ghr, pht, btb, ras, archPc, archGhr, archStack, mode>>

\* The outcome is not shifted in.
RestoredSlip(br) == br.snap.ghr

\* History after recovery: the resolved outcome replaces the predicted one.
Restored(br) ==
  IF br.hit /\ KindOf(br.ins) = "CONDITIONAL"
    THEN Shifted(br.snap.ghr, br.next # Succ(br.pc))
    ELSE br.snap.ghr

\* Cpu::recover, as far as the front end goes.  Only a branch has a checkpoint
\* to restore; for anything else the code's behaviour is undefined.
Recover ==
  LET br == window[offender]
  IN /\ mode = "run" /\ offender # 0
     /\ IsBranch(br.ins)
     /\ window' = SubSeq(window, 1, offender)
     /\ ghr' = Restored(br)
     /\ ras' = br.snap.ras
     /\ stalled' = FALSE
     /\ pc' = br.next
     /\ offender' = 0
     /\ UNCHANGED <<code, pht, btb, archPc, archGhr, archStack, mode>>

\* What one instruction does to the history and to an unbounded-memory stack
\* that remembers RasSize addresses.
GhrAfter(g, u) ==
  IF u.hit /\ KindOf(u.ins) = "CONDITIONAL"
    THEN Shifted(g, IF u.resolved THEN u.next # Succ(u.pc) ELSE u.taken)
    ELSE g
StackAfter(s, u) ==
  CASE u.hit /\ KindOf(u.ins) = "CALL" ->
         SubSeq(<<Succ(u.pc)>> \o s, 1, IF Len(s) < RasSize THEN Len(s) + 1 ELSE RasSize)
    [] u.hit /\ KindOf(u.ins) = "RETURN" /\ s # <<>> -> Tail(s)
    [] OTHER -> s

\* Cpu::commit, one instruction: the tables learn (BranchPredictor::commit),
\* and a trap ends the run.
Commit ==
  LET u == Head(window)
      kind == KindOf(u.ins)
      taken == u.next # Succ(u.pc)
  IN /\ mode = "run" /\ offender = 0
     /\ window # <<>> /\ u.resolved
     /\ pht' = IF kind = "CONDITIONAL" THEN [pht EXCEPT ![u.index] = Saturated(@, taken)] ELSE pht
     /\ btb' = IF IsBranch(u.ins) /\ taken
                 THEN [btb EXCEPT ![SetOf(u.pc)] = Filled(@, Victim(@, u.pc), u.pc, u.next, kind)]
                 ELSE btb
     /\ archGhr' = GhrAfter(archGhr, u)
     /\ archStack' = StackAfter(archStack, u)
     /\ IF u.ins.op = "TRAP"
          THEN mode' = "done" /\ window' = <<>> /\ archPc' = u.pc /\ stalled' = FALSE
          ELSE /\ window' = Tail(window) /\ archPc' = u.next
               /\ UNCHANGED <<mode, stalled>>
     /\ UNCHANGED <<code, pc, ghr, ras, offender>>

\* A committed store overwrites an instruction.
Rewrite(p, i) ==
  /\ mode = "run" /\ code[p] # i
  /\ code' = [code EXCEPT ![p] = i]
  /\ UNCHANGED <<pc, stalled, ghr, pht, btb, ras, window, offender,
                 archPc, archGhr, archStack, mode>>

Next ==
  \/ Fetch
  \/ \E i \in DOMAIN window : Decode(i)
  \/ \E i \in DOMAIN window :
       \E next \in Outcomes(window[i].ins, window[i].pc) : Resolve(i, next)
  \/ Recover
  \/ Commit
  \/ \E r \in Rewrites : Rewrite(r[1], r[2])

Spec == Init /\ [][Next]_vars

-----------------------------------------------------------------------------
(* Properties. *)

Ghrs == 0 .. GhrSize - 1
RasState == [stack : [0 .. RasSize - 1 -> Pc], top : 0 .. RasSize - 1, count : 0 .. RasSize]
InFlight ==
  [pc : Pc, ins : Instr, hit : BOOLEAN, taken : BOOLEAN, pred : Pc,
   index : 0 .. PhtSize - 1, snap : [ghr : Ghrs, ras : RasState],
   decoded : BOOLEAN, resolved : BOOLEAN, next : Pc]
BtbEntry == [valid : BOOLEAN, tag : Pc, target : Pc, kind : Kinds, used : 0 .. BtbWays]

\* Every structure holds what its C++ type and its capacity allow.
TypeOK ==
  /\ code \in [Pc -> Instr]
  /\ pc \in Pc /\ archPc \in Pc /\ stalled \in BOOLEAN
  /\ ghr \in Ghrs /\ archGhr \in Ghrs
  /\ pht \in [0 .. PhtSize - 1 -> 0 .. 3]
  /\ btb \in [0 .. BtbSets - 1 -> [Ways -> BtbEntry]]
  /\ ras \in RasState
  /\ archStack \in Seq(Pc) /\ Len(archStack) <= RasSize
  /\ window \in Seq(InFlight) /\ Len(window) <= MaxInFlight
  /\ offender \in 0 .. Len(window)
  /\ mode \in {"run", "done"}

(***************************************************************************)
(* The instructions in flight are one path: each is where its predecessor  *)
(* goes, by its outcome once that is known and by its prediction before,   *)
(* the first is where the last committed one went, and fetch continues at  *)
(* the end.  Only what is behind a branch about to recover may be off it.  *)
(* So only the program's path commits, whatever the predictor answered and *)
(* in whatever order predictions turned out wrong.                         *)
(***************************************************************************)
PathIsConnected ==
  LET exit(u) == IF u.resolved THEN u.next ELSE u.pred
      last == IF offender = 0 THEN Len(window) ELSE offender
  IN mode = "run" =>
       /\ window # <<>> => window[1].pc = archPc
       /\ \A i \in 1 .. last - 1 : window[i + 1].pc = exit(window[i])
       /\ offender = 0 /\ ~stalled =>
            pc = IF window = <<>> THEN archPc ELSE exit(window[Len(window)])

OnPath == mode = "run" /\ ~stalled /\ offender = 0

\* What the committed instructions and the k oldest in flight make of the
\* history and of the return stack.
GhrPath[k \in 0 .. Len(window)] ==
  IF k = 0 THEN archGhr ELSE GhrAfter(GhrPath[k - 1], window[k])
StackPath[k \in 0 .. Len(window)] ==
  IF k = 0 THEN archStack ELSE StackAfter(StackPath[k - 1], window[k])

(***************************************************************************)
(* Recovery is exact (README.md, section 12): global history is what the   *)
(* committed instructions and the path in flight shift in, in program      *)
(* order, with the resolved direction of the branches that resolved, as if *)
(* no wrong path had ever been fetched.  While fetch waits behind a trap   *)
(* the history may hold bits of instructions dropped undecoded; nothing    *)
(* reads it then.                                                          *)
(***************************************************************************)
GhrOnPath == OnPath => ghr = GhrPath[Len(window)]

\* The same for the return stack, entry by entry: the ring is the RasSize
\* newest return addresses of the calls still open on the path.
RasOnPath == OnPath => RasEntries(ras) = StackPath[Len(window)]

\* A counter is trained under the history the program had at the branch, even
\* if the branch was fetched behind others that resolved and recovered since.
IndexOnPath ==
  offender = 0 =>
    \A i \in DOMAIN window :
      window[i].index = Xor(GhrPath[i - 1], window[i].pc, PhtSize)

\* What the instruction at p may have been so far.
Versions(p) == {Program[p]} \cup {r[2] : r \in {q \in Rewrites : q[1] = p}}

\* An address has at most one entry, in its own set, which says what an
\* instruction there is or was and, for one with a single target, where it went.
BtbIsFaithful ==
  \A s \in 0 .. BtbSets - 1 : \A w \in Ways :
    LET e == btb[s][w] IN
      e.valid =>
        /\ SetOf(e.tag) = s
        /\ \A v \in Ways \ {w} : btb[s][v].valid => btb[s][v].tag # e.tag /\ btb[s][v].used # e.used
        /\ \E i \in Versions(e.tag) : e.kind = KindOf(i) /\ e.target \in i.targets

\* What has to be recovered from has a checkpoint: "an unrecoverable branch
\* must not enter the window" (README.md, section 12).
OffenderHasCheckpoint == offender # 0 => IsBranch(window[offender].ins)
=============================================================================
