--------------------------- MODULE LoadStoreQueues ---------------------------
(***************************************************************************)
(* The load and store queues of lsq.h, under the functions of cpu.cpp that *)
(* use them: dispatch() seats accesses in program order, issue() resolves  *)
(* them in any order and asks the store queue on behalf of a load,         *)
(* commit() drains both queues from the head and alone writes memory,      *)
(* recover() and squash_in_flight() cut them back.                         *)
(*                                                                         *)
(* Scheduling is open: any seated access may issue next, with its operands *)
(* whatever the program makes them, and recovery may cut after any access. *)
(* The queues are the code's rings of slots, since a load in flight keeps  *)
(* naming its entry by slot index while the head moves and squashes cut.   *)
(***************************************************************************)
EXTENDS Lsq, FiniteSets, Sequences, SequencesExt

CONSTANTS
  LqSize,    \* Config::lq_size
  SqSize,    \* Config::sq_size
  AddrMod,
  Ops,
  MaxSeq

VARIABLES
  lq, sq,    \* LsqQueue: loads_ and stores_
  mem,
  window,    \* accesses dispatched and not yet committed, in program order
  nextSeq,   \* Rob::next_seq_: the number of the next access
  retired,
  mode       \* "run", or "done" once a halt has squashed what is in flight

vars == <<lq, sq, mem, window, nextSeq, retired, mode>>

Promise == INSTANCE InOrderMemory WITH mem <- mem, retired <- retired
Addr == Promise!Addr
Byte == Promise!Byte

ASSUME QueuesAssumption ==
  /\ AddrMod \in Nat \ {0}
  /\ Ops \subseteq Promise!AllOps
  /\ MaxSeq \in Nat
  /\ LqSize \in Nat \ {0} /\ SqSize \in Nat \ {0}

-----------------------------------------------------------------------------
(* The loop of search_older_stores(), for comparison with SearchOlderStores. *)

\* One turn of the loop; `over` is its break.
WalkStep(acc, st, ld) ==
  IF acc.over \/ st.seq > ld.seq THEN [acc EXCEPT !.over = TRUE]
  ELSE IF ~st.addrReady THEN [acc EXCEPT !.ambiguous = TRUE]
  ELSE IF Disjoint(st, ld) THEN acc
  ELSE IF Covers(st, ld) /\ st.dataReady
    THEN [acc EXCEPT !.out = Forward(st, ld), !.ambiguous = FALSE]
    ELSE [acc EXCEPT !.out.kind = "NO_MATCH", !.ambiguous = TRUE]

Walk(q, ld) ==
  LET start == [out |-> NoMatch, ambiguous |-> FALSE, over |-> FALSE]
      after[k \in 0 .. q.count] ==
        IF k = 0 THEN start ELSE WalkStep(after[k - 1], Nth(q, k - 1), ld)
      ended == after[q.count]
  IN IF ~ld.addrReady \/ ended.ambiguous THEN Replay ELSE ended.out

-----------------------------------------------------------------------------
Init ==
  /\ lq = EmptyQueue(LqSize)
  /\ sq = EmptyQueue(SqSize)
  /\ Promise!Init
  /\ window = <<>>
  /\ nextSeq = 1
  /\ mode = "run"

\* Cpu::dispatch, an access of either kind; a full queue stalls it.
Dispatch(op) ==
  LET q == IF op.kind = "load" THEN lq ELSE sq
  IN /\ mode = "run" /\ nextSeq <= MaxSeq
     /\ ~Full(q)
     /\ IF op.kind = "load"
          THEN lq' = Alloc(lq, nextSeq, op.size) /\ sq' = sq
          ELSE sq' = Alloc(sq, nextSeq, op.size) /\ lq' = lq
     /\ window' = Append(window, [kind |-> op.kind, addr |-> op.addr, size |-> op.size,
                                  seq |-> nextSeq, idx |-> Tailed(q),
                                  done |-> FALSE, value |-> NoData])
     /\ nextSeq' = nextSeq + 1
     /\ UNCHANGED <<mem, retired, mode>>

\* Cpu::issue, a store: address and data go to the queue, nothing to memory.
IssueStore(i) ==
  LET u == window[i]
  IN /\ mode = "run"
     /\ u.kind = "store" /\ ~u.done
     /\ sq' = ResolveData(ResolveAddr(sq, u.idx, u.addr), u.idx, Promise!Stored(u.seq, u.size))
     /\ window' = [window EXCEPT ![i].done = TRUE]
     /\ UNCHANGED <<lq, mem, nextSeq, retired, mode>>

\* Cpu::execute_load: a replay keeps the seat, a forward or a memory read
\* gives the load its bytes.
IssueLoad(i) ==
  LET u == window[i]
      found == SearchOlderStores(sq, lq'.slots[u.idx])
  IN /\ mode = "run"
     /\ u.kind = "load" /\ ~u.done
     /\ lq' = ResolveAddr(lq, u.idx, u.addr)
     /\ window' =
          CASE found.kind = "REPLAY"   -> window
            [] found.kind = "FORWARD"  -> [window EXCEPT ![i].done = TRUE, ![i].value = found.data]
            [] found.kind = "NO_MATCH" ->
                 [window EXCEPT ![i].done = TRUE,
                                ![i].value = Promise!Read(mem, u.addr, u.size)]
     /\ UNCHANGED <<sq, mem, nextSeq, retired, mode>>

\* Cpu::commit, the oldest access, once it has executed.
Commit ==
  LET u == Head(window)
  IN /\ mode = "run"
     /\ window # <<>>
     /\ u.done
     /\ window' = Tail(window)
     /\ retired' = [seq |-> u.seq, value |-> u.value]
     /\ IF u.kind = "load"
          THEN lq' = PopHead(lq) /\ UNCHANGED <<sq, mem>>
          ELSE /\ mem' = Promise!Write(mem, Nth(sq, 0).addr, u.size, Nth(sq, 0).data)
               /\ sq' = PopHead(sq) /\ lq' = lq
     /\ UNCHANGED <<nextSeq, mode>>

\* Cpu::recover from a branch right behind the keep oldest accesses.
Recover(keep) ==
  LET seq == IF keep = 0 THEN window[1].seq - 1 ELSE window[keep].seq
  IN /\ mode = "run"
     /\ lq' = SquashAfter(lq, seq)
     /\ sq' = SquashAfter(sq, seq)
     /\ window' = SubSeq(window, 1, keep)
     /\ UNCHANGED <<mem, nextSeq, retired, mode>>

\* Cpu::squash_in_flight, behind an instruction that ends the run.
Halt ==
  /\ mode = "run"
  /\ lq' = Clear(lq)
  /\ sq' = Clear(sq)
  /\ window' = <<>>
  /\ mode' = "done"
  /\ UNCHANGED <<mem, nextSeq, retired>>

Advance ==
  \/ \E i \in 1 .. Len(window) : IssueStore(i) \/ IssueLoad(i)
  \/ Commit

Next ==
  \/ \E op \in Ops : Dispatch(op)
  \/ Advance
  \/ \E keep \in 0 .. Len(window) - 1 : Recover(keep)
  \/ Halt

Spec == Init /\ [][Next]_vars

\* issue() and commit() run every cycle and a turned-away access is offered
\* again, so what can move does.
FairSpec == Spec /\ WF_vars(Advance)

-----------------------------------------------------------------------------
(* Properties. *)

\* The bytes an access carries, one for each of its addresses.
Bytes == {NoData} \cup UNION {[0 .. n - 1 -> Byte] : n \in 1 .. AddrMod}

LsqEntry == [seq : 0 .. MaxSeq, addr : Addr, size : 1 .. AddrMod \cup {4}, data : Bytes,
             addrReady : BOOLEAN, dataReady : BOOLEAN]

LsqQueue(cap) == [cap : {cap}, head : 0 .. cap - 1, count : 0 .. cap,
                  slots : [0 .. cap - 1 -> LsqEntry]]

InFlight == [kind : {"load", "store"}, addr : Addr, size : 1 .. AddrMod, seq : 1 .. MaxSeq,
             idx : Nat, done : BOOLEAN, value : Bytes]

\* Every structure holds what its C++ type and its capacity allow.
TypeOK ==
  /\ lq \in LsqQueue(LqSize) /\ sq \in LsqQueue(SqSize)
  /\ mem \in [Addr -> Byte]
  /\ window \in Seq(InFlight)
  /\ nextSeq \in 1 .. MaxSeq + 1
  /\ retired \in [seq : 0 .. MaxSeq, value : Bytes]
  /\ mode \in {"run", "done"}

\* How many of the accesses older than position i of w are of this kind.
Before(w, i, kind) == Cardinality({j \in 1 .. i - 1 : w[j].kind = kind})

(***************************************************************************)
(* The k-th oldest load in flight sits in the k-th entry of the load queue,*)
(* under its own number and at the slot index it was given, and likewise   *)
(* for stores: whatever wraps, pops and squashes happened since dispatch,  *)
(* an access never resolves another one's entry and commit never pops or   *)
(* writes another one's store.                                             *)
(***************************************************************************)
SeatsAreOwn ==
  /\ lq.count = Before(window, Len(window) + 1, "load")
  /\ sq.count = Before(window, Len(window) + 1, "store")
  /\ \A i \in 1 .. Len(window) :
       LET u == window[i]
           q == IF u.kind = "load" THEN lq ELSE sq
       IN /\ u.idx = (q.head + Before(window, i, u.kind)) % q.cap
          /\ q.slots[u.idx].seq = u.seq

\* Whether u stores a byte at a, and which one.
Writes(u, a) == u.kind = "store" /\ (a - u.addr) % AddrMod < u.size
ByteAt(u, a) == Promise!Stored(u.seq, u.size)[(a - u.addr) % AddrMod]

\* The accesses of w older than position i that write the byte at a.
Writers(w, i, a) == {j \in 1 .. i - 1 : Writes(w[j], a)}

\* Memory m as those accesses leave it: each byte is its last writer's.
MemoryBefore(m, w, i) ==
  [a \in Addr |-> IF Writers(w, i, a) = {} THEN m[a]
                  ELSE ByteAt(w[Max(Writers(w, i, a))], a)]

(***************************************************************************)
(* A load that has its bytes has the ones program order gives it, wherever *)
(* they came from and whatever committed since: no older store was still   *)
(* unresolved, no younger one was seen, the youngest of several wins.      *)
(* This is what lsq.h says of its three outcomes.                          *)
(***************************************************************************)
LoadsReadProgramOrder ==
  \A i \in 1 .. Len(window) :
    window[i].kind = "load" /\ window[i].done =>
      window[i].value = Promise!Read(MemoryBefore(mem, window, i), window[i].addr, window[i].size)

\* The search as modelled is the loop as written, for every load in flight.
SearchIsTheWalk ==
  \A i \in 1 .. Len(window) :
    window[i].kind = "load" =>
      LET ld == ResolveAddr(lq, window[i].idx, window[i].addr).slots[window[i].idx]
      IN SearchOlderStores(sq, ld) = Walk(sq, ld)

(***************************************************************************)
(* Speculation is invisible: reads and writes of memory, in the order they *)
(* commit, are an in-order execution; a squash erases a store by doing     *)
(* nothing and a halt lets nothing younger through.                        *)
(***************************************************************************)
ImplementsInOrder == Promise!Spec

\* The oldest access never waits for a younger one: a load replayed on a
\* partial overlap gets its bytes once the store commits, and every seat is
\* given back.
EveryAccessLeaves ==
  \A s \in 1 .. MaxSeq :
    (\E i \in 1 .. Len(window) : window[i].seq = s)
      ~> ~(\E i \in 1 .. Len(window) : window[i].seq = s)
=============================================================================
