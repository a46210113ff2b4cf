--------------------------------- MODULE Lsq ---------------------------------
(***************************************************************************)
(* The data structures of lsq.h: one queue, a ring of slots, and the       *)
(* search a load makes among the stores older than itself.  Operators      *)
(* only: LoadStoreQueues puts two such queues under the functions that     *)
(* use them, Pipeline composes them with everything else.                  *)
(*                                                                         *)
(* A store's data is its bytes, a function over 0 .. size - 1; what a byte *)
(* is, is up to the user of the module.                                    *)
(***************************************************************************)
EXTENDS Integers

-----------------------------------------------------------------------------
(* LsqQueue: capacity `cap`, entries at `head`, `head + 1`, ... modulo cap. *)

NoData == <<>>
Fresh(seq, size) ==
  [seq |-> seq, addr |-> 0, size |-> size, data |-> NoData,
   addrReady |-> FALSE, dataReady |-> FALSE]

EmptyQueue(cap) ==
  [cap |-> cap, head |-> 0, count |-> 0,
   slots |-> [k \in 0 .. cap - 1 |-> Fresh(0, 4)]]

\* One entry too many.
FullSlip(q) == q.count > q.cap
Full(q) == q.count >= q.cap

\* The head is forgotten.
TailSlip(q) == q.count
Tailed(q) == (q.head + q.count) % q.cap

\* The address of the slot's last owner survives, and counts as known.
AllocSlip(q, seq, size) ==
  LET old == q.slots[Tailed(q)]
  IN [q EXCEPT !.slots[Tailed(q)] =
                 [Fresh(seq, size) EXCEPT !.addr = old.addr, !.addrReady = old.addrReady],
               !.count = @ + 1]

\* LsqQueue::alloc, once full() has been asked.
Alloc(q, seq, size) ==
  [q EXCEPT !.slots[Tailed(q)] = Fresh(seq, size), !.count = @ + 1]

Nth(q, k) == q.slots[(q.head + k) % q.cap]

PopHead(q) ==
  IF q.count = 0 THEN q ELSE [q EXCEPT !.head = (@ + 1) % q.cap, !.count = @ - 1]

\* LsqQueue::squash_after: drop the youngest while it is younger than seq.
SquashAfter(q, seq) ==
  [q EXCEPT !.count =
     CHOOSE c \in 0 .. q.count :
       /\ \A k \in c .. q.count - 1 : Nth(q, k).seq > seq
       /\ c > 0 => Nth(q, c - 1).seq <= seq]

Clear(q) == [q EXCEPT !.head = 0, !.count = 0]

ResolveAddr(q, idx, addr) ==
  [q EXCEPT !.slots[idx].addr = addr, !.slots[idx].addrReady = TRUE]

ResolveData(q, idx, data) ==
  [q EXCEPT !.slots[idx].data = data, !.slots[idx].dataReady = TRUE]

-----------------------------------------------------------------------------
(* Lsq::search_older_stores.  lo, hi, slo and shi are 64 bits wide in the  *)
(* code, so an access that reaches the end of the address space does not   *)
(* wrap here as it does in memory.                                         *)

Disjoint(st, ld) == st.addr + st.size <= ld.addr \/ st.addr >= ld.addr + ld.size
Covers(st, ld) == st.addr <= ld.addr /\ st.addr + st.size >= ld.addr + ld.size

MayConflict(st, ld) == ~st.addrReady \/ ~Disjoint(st, ld)

Settles(st, ld) == st.addrReady /\ Covers(st, ld) /\ st.dataReady

\* The load's bytes out of the store's.
Extract(st, ld) == [k \in 0 .. ld.size - 1 |-> st.data[ld.addr - st.addr + k]]

NoMatch == [kind |-> "NO_MATCH", data |-> NoData]
Replay  == [kind |-> "REPLAY", data |-> NoData]
Forward(st, ld) == [kind |-> "FORWARD", data |-> Extract(st, ld)]

\* An older store whose address is unknown is passed over.
SearchOlderStoresSlip(q, ld) ==
  LET conflicts == {k \in 0 .. q.count - 1 :
                      Nth(q, k).seq < ld.seq /\ Nth(q, k).addrReady /\ ~Disjoint(Nth(q, k), ld)}
      youngest  == CHOOSE k \in conflicts : \A j \in conflicts : j <= k
  IN IF conflicts = {} THEN NoMatch
     ELSE IF Settles(Nth(q, youngest), ld) THEN Forward(Nth(q, youngest), ld)
     ELSE Replay

\* The first store that covers the load forwards, not the last.
SearchFirstSlip(q, ld) ==
  LET conflicts == {k \in 0 .. q.count - 1 :
                      Nth(q, k).seq < ld.seq /\ MayConflict(Nth(q, k), ld)}
      oldest    == CHOOSE k \in conflicts : \A j \in conflicts : k <= j
  IN IF conflicts = {} THEN NoMatch
     ELSE IF Settles(Nth(q, oldest), ld) THEN Forward(Nth(q, oldest), ld)
     ELSE Replay

\* Younger stores are consulted too.
SearchYoungerSlip(q, ld) ==
  LET conflicts == {k \in 0 .. q.count - 1 : MayConflict(Nth(q, k), ld)}
      youngest  == CHOOSE k \in conflicts : \A j \in conflicts : j <= k
  IN IF conflicts = {} THEN NoMatch
     ELSE IF Settles(Nth(q, youngest), ld) THEN Forward(Nth(q, youngest), ld)
     ELSE Replay

(***************************************************************************)
(* The outcome of the walk over the older stores, oldest to youngest: a    *)
(* covering store with data shadows everything before it and a possible    *)
(* conflict after it makes the search ambiguous again, so the youngest     *)
(* store that may conflict decides.  LoadStoreQueues compares this with    *)
(* the loop.  The code's search also replays a load whose address is not   *)
(* ready; execute_load resolves it first.                                  *)
(***************************************************************************)
SearchOlderStores(q, ld) ==
  LET conflicts == {k \in 0 .. q.count - 1 :
                      Nth(q, k).seq < ld.seq /\ MayConflict(Nth(q, k), ld)}
      youngest  == CHOOSE k \in conflicts : \A j \in conflicts : j <= k
  IN IF ~ld.addrReady THEN Replay
     ELSE IF conflicts = {} THEN NoMatch
     ELSE IF Settles(Nth(q, youngest), ld) THEN Forward(Nth(q, youngest), ld)
     ELSE Replay
=============================================================================
