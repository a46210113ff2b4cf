------------------------------- MODULE Memory --------------------------------
(***************************************************************************)
(* memory.h and the hex loader of loader.h.  Memory is the bytes that were *)
(* ever written; a byte of a page never allocated, or of an allocated page *)
(* never written, reads as zero.  Little-endian, any alignment, addresses  *)
(* wrapping at XLen bits.                                                  *)
(***************************************************************************)
EXTENDS Instruction

load_u8(m, addr) == IF addr \in DOMAIN m THEN m[addr] ELSE 0

\* load_u8, load_u16 and load_u32: `size` bytes in memory order.
LoadBytes(m, addr, size) == [k \in 0 .. size - 1 |-> load_u8(m, Wrap(addr + k))]

\* store_u8, store_u16, store_u32 and write_bytes.
StoreBytes(m, addr, bytes) ==
  [x \in DOMAIN m \cup {Wrap(addr + k) : k \in DOMAIN bytes} |->
     LET k == Wrap(x - addr) IN IF k \in DOMAIN bytes THEN bytes[k] ELSE m[x]]

\* The bytes of a register value, and the value bytes make (bits past XLen drop).
BytesOf(v, size) == [k \in 0 .. size - 1 |-> IF 8 * k < XLen THEN (v \div 2 ^ (8 * k)) % 256 ELSE 0]
ValueOf(bytes) ==
  LET part(k) == IF k \in DOMAIN bytes /\ 8 * k < XLen THEN Wrap(bytes[k] * 2 ^ (8 * k)) ELSE 0
  IN  part(0) + part(1) + part(2) + part(3)

\* The four bytes of an instruction word, and back.
BytesOfWord(w) ==
  [k \in 0 .. 3 |->
     CASE k = 0 -> (w.rd % 2) * 128 + w.opcode
       [] k = 1 -> (w.rs1 % 2) * 128 + w.f3 * 16 + w.rd \div 2
       [] k = 2 -> (w.rs2 % 16) * 16 + w.rs1 \div 2
       [] k = 3 -> w.f7 * 2 + w.rs2 \div 16]
WordOfBytes(b) ==
  [f7 |-> b[3] \div 2, rs2 |-> (b[3] % 2) * 16 + b[2] \div 16,
   rs1 |-> (b[2] % 16) * 2 + b[1] \div 128, f3 |-> (b[1] \div 16) % 8,
   rd |-> (b[1] % 16) * 2 + b[0] \div 128, opcode |-> b[0] % 128]

\* What fetch reads.
WordAt(m, addr) == WordOfBytes(LoadBytes(m, addr, 4))

\* load_hex(): one word after the other from `base`, the first one the entry.
load_hex(words, base) ==
  [a \in {Wrap(base + i) : i \in 0 .. 4 * Len(words) - 1} |->
     LET i == Wrap(a - base) IN BytesOfWord(words[i \div 4 + 1])[i % 4]]
=============================================================================
