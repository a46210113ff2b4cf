---------------------------- MODULE InOrderMemory ----------------------------
(***************************************************************************)
(* What loads and stores promise: one access at a time, in program order,  *)
(* against a byte-addressed memory.  This is the memory half of the        *)
(* in-order interpreter tests/ref.h that the pipeline is validated against.*)
(***************************************************************************)
EXTENDS Integers

CONSTANTS
  AddrMod,   \* size of the address space: addresses wrap, as uint32_t does
  Ops,       \* the accesses a program may make
  MaxSeq     \* bound on the sequence numbers explored

Addr == 0 .. AddrMod - 1
Seqs == 1 .. MaxSeq

AllOps == [kind : {"load", "store"}, addr : Addr, size : 1 .. AddrMod]

VARIABLES
  mem,       \* Memory: a byte per address
  retired    \* the access that committed last, a load with the bytes it read

(***************************************************************************)
(* Bytes are told apart by who wrote them: byte k of the store numbered    *)
(* seq, or the initial byte of address k for seq = 0.  A read of any wrong *)
(* byte, stale, too young or from the wrong position, shows.               *)
(***************************************************************************)
Byte == [seq : 0 .. MaxSeq, k : Addr]
Stored(seq, size) == [k \in 0 .. size - 1 |-> [seq |-> seq, k |-> k]]

\* Memory::load_u8, load_u16 and load_u32: little-endian, byte by byte, each
\* address computed modulo the address space.
Read(m, addr, size) == [k \in 0 .. size - 1 |-> m[(addr + k) % AddrMod]]

\* Memory::store_u8, store_u16 and store_u32.
Write(m, addr, size, data) ==
  [a \in Addr |->
     LET k == (a - addr) % AddrMod IN IF k < size THEN data[k] ELSE m[a]]

\* Nothing retired yet.
Nothing == [seq |-> 0, value |-> <<>>]

Init ==
  /\ mem = [a \in Addr |-> [seq |-> 0, k |-> a]]
  /\ retired = Nothing

\* step(), a load: it reads memory as every earlier store left it.
Load(op, seq) ==
  /\ op.kind = "load"
  /\ retired' = [seq |-> seq, value |-> Read(mem, op.addr, op.size)]
  /\ mem' = mem

\* step(), a store: the write is complete before the next access.
Store(op, seq) ==
  /\ op.kind = "store"
  /\ mem' = Write(mem, op.addr, op.size, Stored(seq, op.size))
  /\ retired' = [seq |-> seq, value |-> <<>>]

Next ==
  \E op \in Ops, seq \in Seqs :
    /\ retired.seq < seq
    /\ Load(op, seq) \/ Store(op, seq)

Spec == Init /\ [][Next]_<<mem, retired>>
=============================================================================
