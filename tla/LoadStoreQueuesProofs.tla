------------------------ MODULE LoadStoreQueuesProofs ------------------------
(***************************************************************************)
(* The load and store queues, proved for every size of either queue, every *)
(* size of the address space and every set of accesses: each access keeps  *)
(* its own entry, and, where no access runs over the end of the address    *)
(* space, loads read what program order gives them and memory behaves as   *)
(* under in-order execution.                                               *)
(***************************************************************************)
EXTENDS LoadStoreQueues, NumberFacts

-----------------------------------------------------------------------------
(* Counting the accesses of one kind. *)

Kinds == {"load", "store"}

\* Nothing is older than the first access.
LEMMA BeforeFirst ==
  ASSUME NEW w, NEW kind
  PROVE  Before(w, 1, kind) = 0
<1>1. {j \in 1 .. 1 - 1 : w[j].kind = kind} = {}
  OBVIOUS
<1> QED
  BY <1>1, FS_EmptySet DEF Before

\* The count is a number, and one more past an access of the kind.
LEMMA BeforeNext ==
  ASSUME NEW w, NEW kind, NEW i \in Nat \ {0}
  PROVE  /\ Before(w, i, kind) \in 0 .. i - 1
         /\ Before(w, i + 1, kind) = Before(w, i, kind) + IF w[i].kind = kind THEN 1 ELSE 0
<1> DEFINE S == {j \in 1 .. i - 1 : w[j].kind = kind}
           T == {j \in 1 .. (i + 1) - 1 : w[j].kind = kind}
<1>1. IsFiniteSet(1 .. i - 1) /\ Cardinality(1 .. i - 1) = i - 1
  BY FS_Interval
<1>2. S \in SUBSET (1 .. i - 1)
  OBVIOUS
<1>3. IsFiniteSet(S) /\ Cardinality(S) <= i - 1
  BY <1>1, <1>2, FS_Subset
<1>4. Cardinality(S) \in Nat
  BY <1>3, FS_CardinalityType
<1>5. T = IF w[i].kind = kind THEN S \cup {i} ELSE S
  OBVIOUS
<1>6. i \notin S
  OBVIOUS
<1> HIDE DEF S, T
<1>7. Cardinality(T) = Cardinality(S) + IF w[i].kind = kind THEN 1 ELSE 0
  <2>1. Cardinality(S \cup {i}) = Cardinality(S) + 1
    BY <1>3, <1>6, FS_AddElement
  <2> QED
    BY <2>1, <1>5, <1>4
<1> QED
  BY <1>3, <1>4, <1>7 DEF Before, S, T

\* An access further on has no fewer before it, and more when it passes one.
LEMMA BeforeGrows ==
  ASSUME NEW w, NEW kind, NEW j \in Nat \ {0}, NEW i \in 1 .. j
  PROVE  /\ Before(w, i, kind) <= Before(w, j, kind)
         /\ i < j /\ w[i].kind = kind => Before(w, i, kind) < Before(w, j, kind)
<1>1. ASSUME NEW a \in 1 .. j
      PROVE  Before(w, a, kind) <= Before(w, j, kind)
  <2> DEFINE S == {l \in 1 .. a - 1 : w[l].kind = kind}
             T == {l \in 1 .. j - 1 : w[l].kind = kind}
  <2>1. S \in SUBSET T
    OBVIOUS
  <2>2. IsFiniteSet(T)
    <3>1. T \in SUBSET (1 .. j - 1)
      OBVIOUS
    <3>2. IsFiniteSet(1 .. j - 1)
      BY FS_Interval
    <3> QED
      BY <3>1, <3>2, FS_Subset
  <2>3. Cardinality(S) <= Cardinality(T)
    BY <2>1, <2>2, FS_Subset
  <2> QED
    BY <2>3 DEF Before
<1>2. ASSUME i < j, w[i].kind = kind
      PROVE  Before(w, i, kind) < Before(w, j, kind)
  <2>1. Before(w, i + 1, kind) = Before(w, i, kind) + 1
    BY <1>2, BeforeNext
  <2>2. Before(w, i + 1, kind) <= Before(w, j, kind)
    BY <1>2, <1>1
  <2>3. Before(w, i, kind) \in Nat /\ Before(w, j, kind) \in Nat
    BY BeforeNext
  <2> QED
    BY <2>1, <2>2, <2>3
<1> QED
  BY <1>1, <1>2

\* Two accesses of one kind never count the same.
LEMMA BeforeDistinct ==
  ASSUME NEW w, NEW kind, NEW i \in Nat \ {0}, NEW j \in Nat \ {0},
         w[i].kind = kind, w[j].kind = kind,
         Before(w, i, kind) = Before(w, j, kind)
  PROVE  i = j
<1>1. Before(w, i, kind) \in Nat
  BY BeforeNext
<1>2. CASE i < j
  BY <1>1, <1>2, BeforeGrows
<1>3. CASE j < i
  BY <1>1, <1>3, BeforeGrows
<1> QED
  BY <1>2, <1>3

\* The count depends on the kinds of the older accesses only.
LEMMA BeforeSame ==
  ASSUME NEW w, NEW v, NEW kind, NEW i \in Nat \ {0},
         \A j \in 1 .. i - 1 : v[j].kind = w[j].kind
  PROVE  Before(v, i, kind) = Before(w, i, kind)
<1>1. {j \in 1 .. i - 1 : v[j].kind = kind} = {j \in 1 .. i - 1 : w[j].kind = kind}
  OBVIOUS
<1> QED
  BY <1>1 DEF Before

\* Once the oldest has left, every count is one less if it was of the kind.
LEMMA BeforeShift ==
  ASSUME NEW w, NEW v, NEW kind, NEW i \in Nat \ {0},
         \A j \in 1 .. i - 1 : v[j].kind = w[j + 1].kind
  PROVE  Before(v, i, kind) =
           Before(w, i + 1, kind) - IF w[1].kind = kind THEN 1 ELSE 0
<1> DEFINE S == {j \in 1 .. i - 1 : v[j].kind = kind}
           T == {j \in 2 .. i : w[j].kind = kind}
           U == {j \in 1 .. (i + 1) - 1 : w[j].kind = kind}
           f == [j \in S |-> j + 1]
<1>1. f \in [S -> T]
  OBVIOUS
<1>2. \A a, b \in S : f[a] = f[b] => a = b
  OBVIOUS
<1>3. \A t \in T : \E s \in S : f[s] = t
  <2> SUFFICES ASSUME NEW t \in T
               PROVE  \E s \in S : f[s] = t
    OBVIOUS
  <2>1. t - 1 \in S /\ f[t - 1] = t
    OBVIOUS
  <2> QED
    BY <2>1
<1>4. IsFiniteSet(S)
  <2>1. S \in SUBSET (1 .. i - 1)
    OBVIOUS
  <2>2. IsFiniteSet(1 .. i - 1)
    BY FS_Interval
  <2> QED
    BY <2>1, <2>2, FS_Subset
<1>5. IsFiniteSet(T) /\ Cardinality(T) = Cardinality(S)
  <2>1. f \in Bijection(S, T)
    BY <1>1, <1>2, <1>3 DEF Bijection, Injection, Surjection, IsInjective
  <2>2. ExistsBijection(S, T)
    BY <2>1 DEF ExistsBijection
  <2> QED
    BY <2>2, <1>4, FS_Bijection
<1> HIDE DEF f
<1>6. U = IF w[1].kind = kind THEN T \cup {1} ELSE T
  OBVIOUS
<1>7. 1 \notin T
  OBVIOUS
<1> HIDE DEF S, T, U
<1>8. Cardinality(T) \in Nat
  BY <1>5, FS_CardinalityType
<1>9. Cardinality(U) = Cardinality(T) + IF w[1].kind = kind THEN 1 ELSE 0
  <2>1. Cardinality(T \cup {1}) = Cardinality(T) + 1
    BY <1>5, <1>7, FS_AddElement
  <2> QED
    BY <2>1, <1>6, <1>8
<1> QED
  BY <1>5, <1>8, <1>9 DEF Before, S, U

-----------------------------------------------------------------------------
(* The operations of LsqQueue, field by field. *)

\* The part of the window a recovery keeps.
LEMMA PrefixFacts ==
  ASSUME NEW S, NEW s \in Seq(S), NEW n \in 0 .. Len(s)
  PROVE  /\ SubSeq(s, 1, n) \in Seq(S)
         /\ Len(SubSeq(s, 1, n)) = n
         /\ \A i \in 1 .. n : SubSeq(s, 1, n)[i] = s[i]
  OBVIOUS

\* Two positions of a ring are two slots.
LEMMA RingDistinct ==
  ASSUME NEW c \in Nat \ {0}, NEW h \in 0 .. c - 1,
         NEW a \in 0 .. c - 1, NEW b \in 0 .. c - 1, a # b
  PROVE  (h + a) % c # (h + b) % c
<1>1. a \in 0 .. c /\ b \in 0 .. c
  OBVIOUS
<1>2. (h + a) % c = IF h + a < c THEN h + a ELSE h + a - c
  BY <1>1, RingSlot
<1>3. (h + b) % c = IF h + b < c THEN h + b ELSE h + b - c
  BY <1>1, RingSlot
<1> QED
  BY <1>2, <1>3

\* A slot keeps its place while the head moves on.
LEMMA RingNext ==
  ASSUME NEW c \in Nat \ {0}, NEW h \in 0 .. c - 1, NEW b \in 1 .. c
  PROVE  (((h + 1) % c) + (b - 1)) % c = (h + b) % c
<1> DEFINE g == (h + 1) % c
<1>1. 1 \in 0 .. c /\ b \in 0 .. c /\ b - 1 \in 0 .. c
  OBVIOUS
<1>2. g = (IF h + 1 < c THEN h + 1 ELSE h + 1 - c) /\ g \in 0 .. c - 1
  BY <1>1, RingSlot
<1>3. (h + b) % c = IF h + b < c THEN h + b ELSE h + b - c
  BY <1>1, RingSlot
<1> HIDE DEF g
<1>4. (g + (b - 1)) % c = IF g + (b - 1) < c THEN g + (b - 1) ELSE g + (b - 1) - c
  BY <1>1, <1>2, RingSlot
<1> QED
  BY <1>2, <1>3, <1>4 DEF g

\* alloc() fills the slot behind the youngest.
LEMMA AllocFacts ==
  ASSUME NEW cap \in Nat \ {0}, NEW q \in LsqQueue(cap), ~Full(q),
         NEW seq \in 0 .. MaxSeq, NEW size \in 1 .. AddrMod
  PROVE  /\ Alloc(q, seq, size) \in LsqQueue(cap)
         /\ Alloc(q, seq, size).head = q.head
         /\ Alloc(q, seq, size).count = q.count + 1
         /\ q.count < cap
         /\ Tailed(q) \in 0 .. cap - 1
         /\ Alloc(q, seq, size).slots[Tailed(q)] = Fresh(seq, size)
         /\ \A k \in 0 .. cap - 1 : k # Tailed(q) => Alloc(q, seq, size).slots[k] = q.slots[k]
<1>1. q.cap = cap /\ q.head \in 0 .. cap - 1 /\ q.count \in 0 .. cap /\ q.count < cap
  BY DEF LsqQueue, Full
<1>2. Tailed(q) \in 0 .. cap - 1
  BY <1>1, RingSlot DEF Tailed
<1>3. Fresh(seq, size) \in LsqEntry
  <2>1. NoData \in Bytes
    BY DEF Bytes
  <2>2. 0 \in Addr
    BY QueuesAssumption DEF Addr, Promise!Addr
  <2> QED
    BY <2>1, <2>2 DEF Fresh, LsqEntry
<1> DEFINE t == Tailed(q)
           e == Fresh(seq, size)
<1>4. Alloc(q, seq, size) = [q EXCEPT !.slots[t] = e, !.count = @ + 1]
  BY DEF Alloc
<1>5. q = [cap |-> q.cap, head |-> q.head, count |-> q.count, slots |-> q.slots]
  BY DEF LsqQueue
<1>6. q.slots \in [0 .. cap - 1 -> LsqEntry]
  BY DEF LsqQueue
<1> HIDE DEF t, e
<1>7. [q.slots EXCEPT ![t] = e] \in [0 .. cap - 1 -> LsqEntry]
  BY <1>3, <1>6 DEF e
<1>8. Alloc(q, seq, size) = [cap |-> q.cap, head |-> q.head, count |-> q.count + 1,
                             slots |-> [q.slots EXCEPT ![t] = e]]
  BY <1>4, <1>5
<1>9. Alloc(q, seq, size) \in LsqQueue(cap)
  BY <1>1, <1>7, <1>8 DEF LsqQueue
<1>10. /\ Alloc(q, seq, size).slots[t] = e
       /\ \A k \in 0 .. cap - 1 : k # t => Alloc(q, seq, size).slots[k] = q.slots[k]
  BY <1>2, <1>6, <1>8 DEF t
<1> QED
  BY <1>1, <1>2, <1>8, <1>9, <1>10 DEF t, e

\* pop_head() moves the head on.
LEMMA PopFacts ==
  ASSUME NEW cap \in Nat \ {0}, NEW q \in LsqQueue(cap), q.count # 0
  PROVE  /\ PopHead(q) \in LsqQueue(cap)
         /\ PopHead(q).head = (q.head + 1) % cap
         /\ PopHead(q).count = q.count - 1
         /\ PopHead(q).slots = q.slots
<1>1. q.cap = cap /\ q.head \in 0 .. cap - 1 /\ q.count \in 1 .. cap
  BY DEF LsqQueue
<1> DEFINE g == (q.head + 1) % cap
<1>2. g \in 0 .. cap - 1
  <2>1. q.head + 1 \in Int
    BY <1>1
  <2> QED
    BY <2>1, ModRange
<1>3. PopHead(q) = [cap |-> q.cap, head |-> g, count |-> q.count - 1, slots |-> q.slots]
  <2>1. q = [cap |-> q.cap, head |-> q.head, count |-> q.count, slots |-> q.slots]
    BY DEF LsqQueue
  <2>2. PopHead(q) = [q EXCEPT !.head = g, !.count = @ - 1]
    BY <1>1 DEF PopHead, LsqQueue
  <2> HIDE DEF g
  <2> QED
    BY <2>1, <2>2
<1>4. q.slots \in [0 .. cap - 1 -> LsqEntry]
  BY DEF LsqQueue
<1> HIDE DEF g
<1> QED
  BY <1>1, <1>2, <1>3, <1>4 DEF LsqQueue, g

\* resolve_addr() and resolve_load_addr() touch one entry.
LEMMA ResolveAddrFacts ==
  ASSUME NEW cap \in Nat \ {0}, NEW q \in LsqQueue(cap), NEW idx \in 0 .. cap - 1,
         NEW addr \in Addr
  PROVE  /\ ResolveAddr(q, idx, addr) \in LsqQueue(cap)
         /\ ResolveAddr(q, idx, addr).head = q.head
         /\ ResolveAddr(q, idx, addr).count = q.count
         /\ ResolveAddr(q, idx, addr).slots[idx].addr = addr
         /\ ResolveAddr(q, idx, addr).slots[idx].addrReady
         /\ \A f \in {"seq", "size", "data", "dataReady"} :
              ResolveAddr(q, idx, addr).slots[idx][f] = q.slots[idx][f]
         /\ \A k \in 0 .. cap - 1 : k # idx => ResolveAddr(q, idx, addr).slots[k] = q.slots[k]
<1> DEFINE e == [q.slots[idx] EXCEPT !.addr = addr, !.addrReady = TRUE]
           p == ResolveAddr(q, idx, addr)
<1>1. /\ q = [cap |-> q.cap, head |-> q.head, count |-> q.count, slots |-> q.slots]
      /\ q.cap = cap /\ q.slots \in [0 .. cap - 1 -> LsqEntry]
      /\ q.head \in 0 .. cap - 1 /\ q.count \in 0 .. cap
  BY DEF LsqQueue
<1>2. e \in LsqEntry
  <2>1. q.slots[idx] \in LsqEntry
    BY <1>1
  <2> QED
    BY <2>1 DEF LsqEntry
<1>3. p = [q EXCEPT !.slots = [q.slots EXCEPT ![idx] = e]]
  BY <1>1 DEF ResolveAddr, LsqEntry
<1> HIDE DEF e, p
<1>4. p = [cap |-> q.cap, head |-> q.head, count |-> q.count,
           slots |-> [q.slots EXCEPT ![idx] = e]]
  BY <1>1, <1>3
<1>5. [q.slots EXCEPT ![idx] = e] \in [0 .. cap - 1 -> LsqEntry]
  BY <1>1, <1>2
<1>6. p \in LsqQueue(cap)
  BY <1>1, <1>4, <1>5 DEF LsqQueue
<1>7. p.slots[idx] = e /\ \A k \in 0 .. cap - 1 : k # idx => p.slots[k] = q.slots[k]
  BY <1>1, <1>4
<1>8. p.head = q.head /\ p.count = q.count
  BY <1>4
<1>9. /\ e.addr = addr /\ e.addrReady
      /\ \A f \in {"seq", "size", "data", "dataReady"} : e[f] = q.slots[idx][f]
  <2>1. q.slots[idx] \in LsqEntry
    BY <1>1
  <2> QED
    BY <2>1 DEF LsqEntry, e
<1> QED
  BY <1>6, <1>7, <1>8, <1>9 DEF p

\* resolve_data() touches one entry.
LEMMA ResolveDataFacts ==
  ASSUME NEW cap \in Nat \ {0}, NEW q \in LsqQueue(cap), NEW idx \in 0 .. cap - 1,
         NEW data \in Bytes
  PROVE  /\ ResolveData(q, idx, data) \in LsqQueue(cap)
         /\ ResolveData(q, idx, data).head = q.head
         /\ ResolveData(q, idx, data).count = q.count
         /\ ResolveData(q, idx, data).slots[idx].data = data
         /\ ResolveData(q, idx, data).slots[idx].dataReady
         /\ \A f \in {"seq", "size", "addr", "addrReady"} :
              ResolveData(q, idx, data).slots[idx][f] = q.slots[idx][f]
         /\ \A k \in 0 .. cap - 1 : k # idx => ResolveData(q, idx, data).slots[k] = q.slots[k]
<1> DEFINE e == [q.slots[idx] EXCEPT !.data = data, !.dataReady = TRUE]
           p == ResolveData(q, idx, data)
<1>1. /\ q = [cap |-> q.cap, head |-> q.head, count |-> q.count, slots |-> q.slots]
      /\ q.cap = cap /\ q.slots \in [0 .. cap - 1 -> LsqEntry]
      /\ q.head \in 0 .. cap - 1 /\ q.count \in 0 .. cap
  BY DEF LsqQueue
<1>2. e \in LsqEntry
  <2>1. q.slots[idx] \in LsqEntry
    BY <1>1
  <2> QED
    BY <2>1 DEF LsqEntry
<1>3. p = [q EXCEPT !.slots = [q.slots EXCEPT ![idx] = e]]
  BY <1>1 DEF ResolveData, LsqEntry
<1> HIDE DEF e, p
<1>4. p = [cap |-> q.cap, head |-> q.head, count |-> q.count,
           slots |-> [q.slots EXCEPT ![idx] = e]]
  BY <1>1, <1>3
<1>5. [q.slots EXCEPT ![idx] = e] \in [0 .. cap - 1 -> LsqEntry]
  BY <1>1, <1>2
<1>6. p \in LsqQueue(cap)
  BY <1>1, <1>4, <1>5 DEF LsqQueue
<1>7. p.slots[idx] = e /\ \A k \in 0 .. cap - 1 : k # idx => p.slots[k] = q.slots[k]
  BY <1>1, <1>4
<1>8. p.head = q.head /\ p.count = q.count
  BY <1>4
<1>9. /\ e.data = data /\ e.dataReady
      /\ \A f \in {"seq", "size", "addr", "addrReady"} : e[f] = q.slots[idx][f]
  <2>1. q.slots[idx] \in LsqEntry
    BY <1>1
  <2> QED
    BY <2>1 DEF LsqEntry, e
<1> QED
  BY <1>6, <1>7, <1>8, <1>9 DEF p

-----------------------------------------------------------------------------
(* Every access in its own entry. *)

\* Entry e is access u's own, and knows of a store exactly what has issued.
Holds(e, u) ==
  /\ e.seq = u.seq /\ e.size = u.size
  /\ u.kind = "store" =>
       IF u.done THEN /\ e.addrReady /\ e.addr = u.addr
                      /\ e.dataReady /\ e.data = Promise!Stored(u.seq, u.size)
       ELSE ~e.addrReady

(***************************************************************************)
(* SeatsAreOwn for one queue and one kind, with what it needs to be        *)
(* inductive: the contents of the entries, and that no entry counted is    *)
(* without an access.                                                      *)
(***************************************************************************)
SeatsOf(q, w, kind) ==
  /\ q.count = Before(w, Len(w) + 1, kind)
  /\ \A i \in 1 .. Len(w) : w[i].kind = kind =>
       /\ w[i].idx = (q.head + Before(w, i, kind)) % q.cap
       /\ Holds(q.slots[w[i].idx], w[i])
  /\ \A k \in 0 .. q.count - 1 :
       \E i \in 1 .. Len(w) : w[i].kind = kind /\ Before(w, i, kind) = k

\* An access counts fewer before it than the queue holds, so its index is a slot.
LEMMA SeatFacts ==
  ASSUME NEW cap \in Nat \ {0}, NEW q \in LsqQueue(cap), NEW w \in Seq(InFlight),
         NEW kind, SeatsOf(q, w, kind),
         NEW i \in 1 .. Len(w), w[i].kind = kind
  PROVE  /\ Before(w, i, kind) \in 0 .. q.count - 1
         /\ q.count \in 1 .. cap /\ q.cap = cap /\ q.head \in 0 .. cap - 1
         /\ w[i].idx = (q.head + Before(w, i, kind)) % cap
         /\ w[i].idx \in 0 .. cap - 1
         /\ Nth(q, Before(w, i, kind)) = q.slots[w[i].idx]
<1>1. /\ q.cap = cap /\ q.head \in 0 .. cap - 1 /\ q.count \in 0 .. cap
      /\ Len(w) \in Nat
  BY DEF LsqQueue
<1>2. Before(w, i, kind) \in Nat
  BY BeforeNext
<1>3. Before(w, i, kind) < q.count
  <2>1. i \in 1 .. Len(w) + 1 /\ i < Len(w) + 1 /\ Len(w) + 1 \in Nat \ {0}
    BY <1>1
  <2>2. Before(w, i, kind) < Before(w, Len(w) + 1, kind)
    BY <2>1, BeforeGrows
  <2> QED
    BY <2>2 DEF SeatsOf
<1>4. w[i].idx = (q.head + Before(w, i, kind)) % cap
  BY <1>1 DEF SeatsOf
<1>5. Before(w, i, kind) \in 0 .. cap
  BY <1>1, <1>2, <1>3
<1>6. w[i].idx \in 0 .. cap - 1
  <2> DEFINE b == Before(w, i, kind)
             h == q.head
  <2>1. b \in 0 .. cap /\ h \in 0 .. cap - 1 /\ w[i].idx = (h + b) % cap
    BY <1>1, <1>4, <1>5
  <2> HIDE DEF b, h
  <2>2. (h + b) % cap \in 0 .. cap - 1
    BY <2>1, RingSlot
  <2> QED
    BY <2>1, <2>2
<1>7. Before(w, i, kind) \in 0 .. q.count - 1 /\ q.count \in 1 .. cap
  BY <1>1, <1>2, <1>3
<1>8. Nth(q, Before(w, i, kind)) = q.slots[w[i].idx]
  BY <1>1, <1>4 DEF Nth
<1> QED
  BY <1>1, <1>4, <1>6, <1>7, <1>8

\* Two accesses of one kind sit in two slots.
LEMMA SeatsDiffer ==
  ASSUME NEW cap \in Nat \ {0}, NEW q \in LsqQueue(cap), NEW w \in Seq(InFlight),
         NEW kind, SeatsOf(q, w, kind),
         NEW i \in 1 .. Len(w), w[i].kind = kind,
         NEW j \in 1 .. Len(w), w[j].kind = kind, i # j
  PROVE  w[i].idx # w[j].idx
<1> DEFINE a == Before(w, i, kind)
           b == Before(w, j, kind)
<1>1. /\ a \in 0 .. q.count - 1 /\ q.count \in 1 .. cap /\ q.head \in 0 .. cap - 1
      /\ w[i].idx = (q.head + a) % cap
  BY SeatFacts
<1>2. b \in 0 .. q.count - 1 /\ w[j].idx = (q.head + b) % cap
  BY SeatFacts
<1>3. a # b
  BY BeforeDistinct
<1> HIDE DEF a, b
<1>4. a \in 0 .. cap - 1 /\ b \in 0 .. cap - 1
  BY <1>1, <1>2
<1>5. (q.head + a) % cap # (q.head + b) % cap
  BY <1>1, <1>3, <1>4, RingDistinct
<1> QED
  BY <1>1, <1>2, <1>5

\* Seats stay while the window keeps its accesses and the queue its counters.
LEMMA SeatsKept ==
  ASSUME NEW q, NEW w, NEW p, NEW v, NEW kind, SeatsOf(q, w, kind),
         p.head = q.head, p.count = q.count, p.cap = q.cap,
         Len(v) = Len(w), Len(w) \in Nat,
         \A i \in 1 .. Len(w) : v[i].kind = w[i].kind,
         \A i \in 1 .. Len(w) : w[i].kind = kind =>
            v[i].idx = w[i].idx /\ Holds(p.slots[v[i].idx], v[i])
  PROVE  SeatsOf(p, v, kind)
<1>1. ASSUME NEW i \in 1 .. Len(w) + 1
      PROVE  Before(v, i, kind) = Before(w, i, kind)
  BY BeforeSame
<1>2. p.count = Before(v, Len(v) + 1, kind)
  BY <1>1 DEF SeatsOf
<1>3. ASSUME NEW i \in 1 .. Len(v), v[i].kind = kind
      PROVE  /\ v[i].idx = (p.head + Before(v, i, kind)) % p.cap
             /\ Holds(p.slots[v[i].idx], v[i])
  <2>1. Before(v, i, kind) = Before(w, i, kind)
    BY <1>1
  <2> QED
    BY <1>3, <2>1 DEF SeatsOf
<1>4. ASSUME NEW k \in 0 .. p.count - 1
      PROVE  \E i \in 1 .. Len(v) : v[i].kind = kind /\ Before(v, i, kind) = k
  <2>1. PICK i \in 1 .. Len(w) : w[i].kind = kind /\ Before(w, i, kind) = k
    BY <1>4 DEF SeatsOf
  <2>2. Before(v, i, kind) = Before(w, i, kind)
    BY <1>1
  <2> QED
    BY <2>1, <2>2
<1> QED
  BY <1>2, <1>3, <1>4 DEF SeatsOf

\* dispatch() seats an access of the queue's own kind.
LEMMA SeatsAlloc ==
  ASSUME NEW cap \in Nat \ {0}, NEW q \in LsqQueue(cap), NEW w \in Seq(InFlight),
         NEW kind, SeatsOf(q, w, kind), ~Full(q),
         NEW u \in InFlight, u.kind = kind, ~u.done, u.idx = Tailed(q)
  PROVE  SeatsOf(Alloc(q, u.seq, u.size), Append(w, u), kind)
<1> DEFINE v == Append(w, u)
           p == Alloc(q, u.seq, u.size)
           n == Len(w)
<1>1. n \in Nat /\ Len(v) = n + 1 /\ v[n + 1] = u /\ \A i \in 1 .. n : v[i] = w[i]
  OBVIOUS
<1>2. u.seq \in 0 .. MaxSeq /\ u.size \in 1 .. AddrMod
  BY QueuesAssumption DEF InFlight
<1>3. /\ p \in LsqQueue(cap) /\ p.head = q.head /\ p.count = q.count + 1 /\ q.count < cap
      /\ p.slots[Tailed(q)] = Fresh(u.seq, u.size)
      /\ \A k \in 0 .. cap - 1 : k # Tailed(q) => p.slots[k] = q.slots[k]
  BY <1>2, AllocFacts
<1>4. q.cap = cap /\ p.cap = cap /\ q.head \in 0 .. cap - 1 /\ q.count \in 0 .. cap - 1
  BY <1>3 DEF LsqQueue
<1>5. q.count = Before(w, n + 1, kind)
  BY DEF SeatsOf
<1> HIDE DEF v, p, n
<1>6. ASSUME NEW i \in 1 .. n + 1
      PROVE  Before(v, i, kind) = Before(w, i, kind)
  <2>1. \A j \in 1 .. i - 1 : v[j].kind = w[j].kind
    BY <1>1
  <2> QED
    BY <1>1, <2>1, BeforeSame
<1>7. p.count = Before(v, Len(v) + 1, kind)
  <2>1. Before(v, n + 1, kind) = q.count
    BY <1>1, <1>5, <1>6
  <2>2. Before(v, (n + 1) + 1, kind) = Before(v, n + 1, kind) + 1
    <3>1. n + 1 \in Nat \ {0} /\ v[n + 1].kind = kind
      BY <1>1
    <3> QED
      BY <3>1, BeforeNext
  <2> QED
    BY <1>1, <1>3, <2>1, <2>2
<1>8. ASSUME NEW i \in 1 .. Len(v), v[i].kind = kind
      PROVE  /\ v[i].idx = (p.head + Before(v, i, kind)) % p.cap
             /\ Holds(p.slots[v[i].idx], v[i])
  <2>1. CASE i = n + 1
    <3>1. Before(v, i, kind) = q.count
      BY <2>1, <1>1, <1>5, <1>6
    <3>2. v[i] = u
      BY <2>1, <1>1
    <3> QED
      BY <3>1, <3>2, <1>3, <1>4 DEF Holds, Fresh, Tailed
  <2>2. CASE i # n + 1
    <3>1. i \in 1 .. n /\ v[i] = w[i] /\ Before(v, i, kind) = Before(w, i, kind)
      BY <2>2, <1>1, <1>6
    <3>2. /\ Before(w, i, kind) \in 0 .. q.count - 1
          /\ w[i].idx = (q.head + Before(w, i, kind)) % cap
          /\ w[i].idx \in 0 .. cap - 1
      BY <3>1, <1>8, SeatFacts DEF n
    <3>3. w[i].idx # Tailed(q)
      <4>1. /\ Before(w, i, kind) \in 0 .. cap - 1
            /\ Before(w, i, kind) # q.count
        BY <3>2, <1>4
      <4>2. (q.head + Before(w, i, kind)) % cap # (q.head + q.count) % cap
        BY <4>1, <1>4, RingDistinct
      <4> QED
        BY <4>2, <3>2, <1>4 DEF Tailed
    <3>4. Holds(q.slots[w[i].idx], w[i])
      BY <3>1, <1>8 DEF SeatsOf, n
    <3> QED
      BY <3>1, <3>2, <3>3, <3>4, <1>3, <1>4
  <2> QED
    BY <2>1, <2>2
<1>9. ASSUME NEW k \in 0 .. p.count - 1
      PROVE  \E i \in 1 .. Len(v) : v[i].kind = kind /\ Before(v, i, kind) = k
  <2>1. CASE k = q.count
    <3>1. n + 1 \in 1 .. Len(v) /\ v[n + 1].kind = kind /\ Before(v, n + 1, kind) = k
      BY <2>1, <1>1, <1>5, <1>6
    <3> QED
      BY <3>1
  <2>2. CASE k # q.count
    <3>1. k \in 0 .. q.count - 1
      BY <2>2, <1>3, <1>4
    <3>2. PICK i \in 1 .. n : w[i].kind = kind /\ Before(w, i, kind) = k
      BY <3>1 DEF SeatsOf, n
    <3>3. i \in 1 .. Len(v) /\ v[i].kind = kind /\ Before(v, i, kind) = k
      BY <3>2, <1>1, <1>6
    <3> QED
      BY <3>3
  <2> QED
    BY <2>1, <2>2
<1>10. SeatsOf(p, v, kind)
  BY <1>7, <1>8, <1>9 DEF SeatsOf
<1> QED
  BY <1>10 DEF p, v

\* An access of the other kind takes no seat here.
LEMMA SeatsOther ==
  ASSUME NEW q, NEW w \in Seq(InFlight), NEW kind, SeatsOf(q, w, kind),
         NEW u \in InFlight, u.kind # kind
  PROVE  SeatsOf(q, Append(w, u), kind)
<1> DEFINE v == Append(w, u)
           n == Len(w)
<1>1. n \in Nat /\ Len(v) = n + 1 /\ v[n + 1] = u /\ \A i \in 1 .. n : v[i] = w[i]
  OBVIOUS
<1>2. q.count = Before(w, n + 1, kind)
  BY DEF SeatsOf
<1> HIDE DEF v, n
<1>3. ASSUME NEW i \in 1 .. n + 1
      PROVE  Before(v, i, kind) = Before(w, i, kind)
  <2>1. \A j \in 1 .. i - 1 : v[j].kind = w[j].kind
    BY <1>1
  <2> QED
    BY <1>1, <2>1, BeforeSame
<1>4. q.count = Before(v, Len(v) + 1, kind)
  <2>1. Before(v, n + 1, kind) = q.count
    BY <1>1, <1>2, <1>3
  <2>2. /\ Before(v, (n + 1) + 1, kind) = Before(v, n + 1, kind) + 0
        /\ Before(v, n + 1, kind) \in Nat
    <3>1. n + 1 \in Nat \ {0} /\ v[n + 1].kind # kind
      BY <1>1
    <3>2. /\ Before(v, n + 1, kind) \in 0 .. (n + 1) - 1
          /\ Before(v, (n + 1) + 1, kind) =
               Before(v, n + 1, kind) + IF v[n + 1].kind = kind THEN 1 ELSE 0
      BY <3>1, BeforeNext
    <3> QED
      BY <3>1, <3>2
  <2> QED
    BY <1>1, <2>1, <2>2
<1>5. ASSUME NEW i \in 1 .. Len(v), v[i].kind = kind
      PROVE  /\ v[i].idx = (q.head + Before(v, i, kind)) % q.cap
             /\ Holds(q.slots[v[i].idx], v[i])
  <2>1. i \in 1 .. n /\ v[i] = w[i] /\ Before(v, i, kind) = Before(w, i, kind)
    BY <1>1, <1>3, <1>5
  <2> QED
    BY <2>1, <1>5 DEF SeatsOf, n
<1>6. ASSUME NEW k \in 0 .. q.count - 1
      PROVE  \E i \in 1 .. Len(v) : v[i].kind = kind /\ Before(v, i, kind) = k
  <2>1. PICK i \in 1 .. n : w[i].kind = kind /\ Before(w, i, kind) = k
    BY <1>6 DEF SeatsOf, n
  <2>2. i \in 1 .. Len(v) /\ v[i].kind = kind /\ Before(v, i, kind) = k
    BY <2>1, <1>1, <1>3
  <2> QED
    BY <2>2
<1>7. SeatsOf(q, v, kind)
  BY <1>4, <1>5, <1>6 DEF SeatsOf
<1> QED
  BY <1>7 DEF v

\* What Tail does to the window, index by index.
LEMMA WindowTail ==
  ASSUME NEW w \in Seq(InFlight), w # <<>>
  PROVE  /\ Len(w) \in Nat \ {0} /\ w[1] \in InFlight
         /\ Tail(w) \in Seq(InFlight)
         /\ Len(Tail(w)) = Len(w) - 1
         /\ \A i \in 1 .. Len(w) - 1 : Tail(w)[i] = w[i + 1]
  OBVIOUS

\* commit() pops the head when the oldest access is of the queue's own kind.
LEMMA SeatsPop ==
  ASSUME NEW cap \in Nat \ {0}, NEW q \in LsqQueue(cap), NEW w \in Seq(InFlight),
         NEW kind, SeatsOf(q, w, kind), w # <<>>, w[1].kind = kind
  PROVE  /\ q.count # 0
         /\ Nth(q, 0) = q.slots[w[1].idx]
         /\ SeatsOf(PopHead(q), Tail(w), kind)
<1> DEFINE v == Tail(w)
           p == PopHead(q)
           n == Len(w)
<1>1. n \in Nat \ {0} /\ Len(v) = n - 1 /\ \A i \in 1 .. n - 1 : v[i] = w[i + 1]
  BY WindowTail
<1>2. Before(w, 1, kind) = 0
  BY BeforeFirst
<1>3. q.count \in 1 .. cap /\ q.cap = cap /\ q.head \in 0 .. cap - 1
  BY <1>1, SeatFacts
<1>4. Nth(q, 0) = q.slots[w[1].idx]
  BY <1>1, <1>2, SeatFacts
<1>5. /\ p \in LsqQueue(cap) /\ p.head = (q.head + 1) % cap
      /\ p.count = q.count - 1 /\ p.slots = q.slots
  BY <1>3, PopFacts
<1>6. p.cap = cap
  BY <1>5 DEF LsqQueue
<1>7. q.count = Before(w, n + 1, kind)
  BY DEF SeatsOf
<1> HIDE DEF v, p, n
<1>8. ASSUME NEW i \in 1 .. n
      PROVE  Before(v, i, kind) = Before(w, i + 1, kind) - 1
  <2>1. \A j \in 1 .. i - 1 : v[j].kind = w[j + 1].kind
    BY <1>1
  <2>2. Before(v, i, kind) = Before(w, i + 1, kind) - IF w[1].kind = kind THEN 1 ELSE 0
    BY <1>1, <2>1, BeforeShift
  <2> QED
    BY <2>2
<1>9. p.count = Before(v, Len(v) + 1, kind)
  BY <1>1, <1>5, <1>7, <1>8
<1>10. ASSUME NEW i \in 1 .. Len(v), v[i].kind = kind
       PROVE  /\ v[i].idx = (p.head + Before(v, i, kind)) % p.cap
              /\ Holds(p.slots[v[i].idx], v[i])
  <2> DEFINE b == Before(w, i + 1, kind)
             h == q.head
  <2>1. i + 1 \in 1 .. n /\ v[i] = w[i + 1] /\ i \in 1 .. n
    BY <1>1
  <2>2. w[i + 1].kind = kind
    BY <2>1, <1>10
  <2>3. b \in 0 .. q.count - 1 /\ w[i + 1].idx = (h + b) % cap
    BY <2>1, <2>2, SeatFacts DEF n
  <2>4. Before(w, 1, kind) < b
    <3>1. 1 \in 1 .. i + 1 /\ 1 < i + 1 /\ i + 1 \in Nat \ {0}
      BY <2>1, <1>1
    <3> QED
      BY <3>1, BeforeGrows
  <2>5. Holds(q.slots[w[i + 1].idx], w[i + 1])
    BY <2>1, <2>2 DEF SeatsOf, n
  <2>6. Before(v, i, kind) = b - 1
    BY <2>1, <1>8
  <2>7. b \in 1 .. cap /\ h \in 0 .. cap - 1
    BY <2>3, <2>4, <1>2, <1>3
  <2> HIDE DEF b, h
  <2>8. (((h + 1) % cap) + (b - 1)) % cap = (h + b) % cap
    BY <2>7, RingNext
  <2>9. p.head = (h + 1) % cap
    BY <1>5 DEF h
  <2> QED
    BY <2>1, <2>3, <2>5, <2>6, <2>8, <2>9, <1>5, <1>6
<1>11. ASSUME NEW k \in 0 .. p.count - 1
       PROVE  \E i \in 1 .. Len(v) : v[i].kind = kind /\ Before(v, i, kind) = k
  <2>1. k + 1 \in 0 .. q.count - 1
    BY <1>3, <1>5
  <2>2. PICK i \in 1 .. n : w[i].kind = kind /\ Before(w, i, kind) = k + 1
    BY <2>1 DEF SeatsOf, n
  <2>3. i # 1
    BY <2>2, <1>2, <2>1
  <2>4. i - 1 \in 1 .. n - 1 /\ (i - 1) + 1 = i
    BY <2>3, <1>1
  <2>5. v[i - 1] = w[i] /\ i - 1 \in 1 .. Len(v) /\ i - 1 \in 1 .. n
    BY <2>4, <1>1
  <2>6. Before(v, i - 1, kind) = k
    BY <2>2, <2>4, <2>5, <1>8
  <2> QED
    BY <2>2, <2>5, <2>6
<1>12. SeatsOf(p, v, kind)
  BY <1>9, <1>10, <1>11 DEF SeatsOf
<1> QED
  BY <1>3, <1>4, <1>12 DEF p, v

\* The oldest access, of the other kind, leaves this queue as it is.
LEMMA SeatsLeave ==
  ASSUME NEW cap \in Nat \ {0}, NEW q \in LsqQueue(cap), NEW w \in Seq(InFlight),
         NEW kind, SeatsOf(q, w, kind), w # <<>>, w[1].kind # kind
  PROVE  SeatsOf(q, Tail(w), kind)
<1> DEFINE v == Tail(w)
           n == Len(w)
<1>1. n \in Nat \ {0} /\ Len(v) = n - 1 /\ \A i \in 1 .. n - 1 : v[i] = w[i + 1]
  BY WindowTail
<1>2. q.count = Before(w, n + 1, kind) /\ q.count \in Nat
  BY DEF SeatsOf, LsqQueue
<1> HIDE DEF v, n
<1>3. ASSUME NEW i \in 1 .. n
      PROVE  Before(v, i, kind) = Before(w, i + 1, kind)
  <2>1. \A j \in 1 .. i - 1 : v[j].kind = w[j + 1].kind
    BY <1>1
  <2>2. Before(v, i, kind) = Before(w, i + 1, kind) - IF w[1].kind = kind THEN 1 ELSE 0
    BY <1>1, <2>1, BeforeShift
  <2>3. Before(w, i + 1, kind) \in 0 .. (i + 1) - 1
    BY <1>1, BeforeNext
  <2> QED
    BY <2>2, <2>3
<1>4. q.count = Before(v, Len(v) + 1, kind)
  BY <1>1, <1>2, <1>3
<1>5. ASSUME NEW i \in 1 .. Len(v), v[i].kind = kind
      PROVE  /\ v[i].idx = (q.head + Before(v, i, kind)) % q.cap
             /\ Holds(q.slots[v[i].idx], v[i])
  <2>1. i + 1 \in 1 .. n /\ v[i] = w[i + 1] /\ Before(v, i, kind) = Before(w, i + 1, kind)
    BY <1>1, <1>3
  <2> QED
    BY <2>1, <1>5 DEF SeatsOf, n
<1>6. ASSUME NEW k \in 0 .. q.count - 1
      PROVE  \E i \in 1 .. Len(v) : v[i].kind = kind /\ Before(v, i, kind) = k
  <2>1. PICK i \in 1 .. n : w[i].kind = kind /\ Before(w, i, kind) = k
    BY DEF SeatsOf, n
  <2>2. i - 1 \in 1 .. n - 1 /\ (i - 1) + 1 = i
    BY <2>1, <1>1
  <2>3. v[i - 1] = w[i] /\ i - 1 \in 1 .. Len(v) /\ i - 1 \in 1 .. n
    BY <2>2, <1>1
  <2>4. Before(v, i - 1, kind) = k
    BY <2>1, <2>2, <2>3, <1>3
  <2> QED
    BY <2>1, <2>3, <2>4
<1>7. SeatsOf(q, v, kind)
  BY <1>4, <1>5, <1>6 DEF SeatsOf
<1> QED
  BY <1>7 DEF v

\* recover() cuts the queue exactly where it cuts the window.
LEMMA SeatsSquash ==
  ASSUME NEW cap \in Nat \ {0}, NEW q \in LsqQueue(cap), NEW w \in Seq(InFlight),
         NEW kind, SeatsOf(q, w, kind),
         NEW keep \in 0 .. Len(w), NEW seq \in Int,
         \A i \in 1 .. Len(w) : w[i].seq <= seq <=> i <= keep
  PROVE  /\ SquashAfter(q, seq) \in LsqQueue(cap)
         /\ SeatsOf(SquashAfter(q, seq), SubSeq(w, 1, keep), kind)
<1> DEFINE v == SubSeq(w, 1, keep)
           n == Len(w)
           c == Before(w, keep + 1, kind)
           Cut(m) == /\ \A k \in m .. q.count - 1 : Nth(q, k).seq > seq
                     /\ m > 0 => Nth(q, m - 1).seq <= seq
           d == CHOOSE m \in 0 .. q.count : Cut(m)
<1>1. n \in Nat /\ Len(v) = keep /\ \A i \in 1 .. keep : v[i] = w[i]
  BY PrefixFacts
<1>2. /\ q.cap = cap /\ q.head \in 0 .. cap - 1 /\ q.count \in 0 .. cap
      /\ q = [cap |-> q.cap, head |-> q.head, count |-> q.count, slots |-> q.slots]
      /\ q.slots \in [0 .. cap - 1 -> LsqEntry]
  BY DEF LsqQueue
<1>3. q.count = Before(w, n + 1, kind)
  BY DEF SeatsOf
<1>4. c \in 0 .. q.count
  <2>1. keep + 1 \in 1 .. n + 1 /\ n + 1 \in Nat \ {0} /\ keep + 1 \in Nat \ {0}
    BY <1>1
  <2>2. c <= Before(w, n + 1, kind) /\ c \in 0 .. (keep + 1) - 1
    BY <2>1, BeforeGrows, BeforeNext
  <2> QED
    BY <2>2, <1>2, <1>3
<1>5. ASSUME NEW k \in 0 .. q.count - 1
      PROVE  Nth(q, k).seq \in Int /\ (k < c <=> Nth(q, k).seq <= seq)
  <2>1. PICK i \in 1 .. n : w[i].kind = kind /\ Before(w, i, kind) = k
    BY <1>5 DEF SeatsOf
  <2>2. Nth(q, k) = q.slots[w[i].idx]
    BY <2>1, SeatFacts
  <2>3. q.slots[w[i].idx].seq = w[i].seq
    BY <2>1 DEF SeatsOf, Holds
  <2>4. w[i].seq \in Int
    <3>1. w[i] \in InFlight
      BY <2>1
    <3> QED
      BY <3>1 DEF InFlight
  <2>5. ASSUME i <= keep
        PROVE  k < c
    <3>1. i \in 1 .. keep + 1 /\ i < keep + 1 /\ keep + 1 \in Nat \ {0}
      BY <2>5, <1>1
    <3> QED
      BY <2>1, <3>1, BeforeGrows
  <2>6. ASSUME ~(i <= keep)
        PROVE  ~(k < c)
    <3>1. keep + 1 \in 1 .. i /\ i \in Nat \ {0}
      BY <2>6, <1>1
    <3>2. c <= k
      BY <2>1, <3>1, BeforeGrows
    <3> QED
      BY <3>2, <1>4
  <2>7. w[i].seq <= seq <=> i <= keep
    BY <2>1
  <2> HIDE DEF c
  <2> QED
    BY <2>2, <2>3, <2>4, <2>5, <2>6, <2>7
<1> HIDE DEF v, n, c
<1>6. Cut(c)
  <2>1. ASSUME NEW k \in c .. q.count - 1
        PROVE  Nth(q, k).seq > seq
    <3>1. k \in 0 .. q.count - 1 /\ ~(k < c)
      BY <1>2, <1>4
    <3> QED
      BY <3>1, <1>5
  <2>2. ASSUME c > 0
        PROVE  Nth(q, c - 1).seq <= seq
    <3>1. c - 1 \in 0 .. q.count - 1 /\ c - 1 < c
      BY <2>2, <1>2, <1>4
    <3> QED
      BY <3>1, <1>5
  <2> QED
    BY <2>1, <2>2
<1>7. d \in 0 .. q.count /\ Cut(d)
  BY <1>4, <1>6
<1>8. d = c
  <2>1. ASSUME d < c
        PROVE  FALSE
    <3>1. d \in d .. q.count - 1 /\ d \in 0 .. q.count - 1
      BY <2>1, <1>2, <1>4, <1>7
    <3>2. Nth(q, d).seq > seq
      BY <3>1, <1>7
    <3> HIDE DEF d
    <3> QED
      BY <2>1, <3>1, <3>2, <1>5
  <2>2. ASSUME c < d
        PROVE  FALSE
    <3>1. d > 0 /\ d - 1 \in 0 .. q.count - 1 /\ ~(d - 1 < c)
      BY <2>2, <1>2, <1>4, <1>7
    <3>2. Nth(q, d - 1).seq <= seq
      BY <3>1, <1>7
    <3> HIDE DEF d
    <3> QED
      BY <3>1, <3>2, <1>5
  <2> HIDE DEF d
  <2> QED
    BY <2>1, <2>2, <1>2, <1>4, <1>7
<1>9. SquashAfter(q, seq) = [q EXCEPT !.count = c]
  BY <1>8 DEF SquashAfter
<1> DEFINE p == SquashAfter(q, seq)
<1>10. p = [cap |-> q.cap, head |-> q.head, count |-> c, slots |-> q.slots]
  BY <1>2, <1>9
<1>11. p \in LsqQueue(cap)
  BY <1>2, <1>4, <1>10 DEF LsqQueue
<1> HIDE DEF p, d
<1>12. ASSUME NEW i \in 1 .. keep + 1
       PROVE  Before(v, i, kind) = Before(w, i, kind)
  <2>1. \A j \in 1 .. i - 1 : v[j].kind = w[j].kind
    BY <1>1
  <2> QED
    BY <1>1, <2>1, BeforeSame
<1>13. p.count = Before(v, Len(v) + 1, kind)
  <2>1. keep + 1 \in 1 .. keep + 1 /\ Len(v) + 1 = keep + 1
    BY <1>1
  <2> QED
    BY <2>1, <1>10, <1>12 DEF c
<1>14. ASSUME NEW i \in 1 .. Len(v), v[i].kind = kind
       PROVE  /\ v[i].idx = (p.head + Before(v, i, kind)) % p.cap
              /\ Holds(p.slots[v[i].idx], v[i])
  <2>1. i \in 1 .. n /\ v[i] = w[i] /\ Before(v, i, kind) = Before(w, i, kind)
    BY <1>1, <1>12 DEF n
  <2> QED
    BY <2>1, <1>10, <1>14 DEF SeatsOf, n
<1>15. ASSUME NEW k \in 0 .. p.count - 1
       PROVE  \E i \in 1 .. Len(v) : v[i].kind = kind /\ Before(v, i, kind) = k
  <2>1. k \in 0 .. c - 1 /\ k \in 0 .. q.count - 1
    BY <1>2, <1>4, <1>10
  <2>2. PICK i \in 1 .. n : w[i].kind = kind /\ Before(w, i, kind) = k
    BY <2>1 DEF SeatsOf, n
  <2>3. i <= keep
    <3> SUFFICES ASSUME ~(i <= keep)
                 PROVE  FALSE
      OBVIOUS
    <3>1. keep + 1 \in 1 .. i /\ i \in Nat \ {0}
      BY <1>1
    <3>2. c <= Before(w, i, kind)
      BY <3>1, BeforeGrows DEF c
    <3> QED
      BY <3>2, <2>1, <2>2, <1>4
  <2>4. i \in 1 .. Len(v) /\ v[i] = w[i] /\ Before(v, i, kind) = k
    BY <2>2, <2>3, <1>1, <1>12
  <2> QED
    BY <2>2, <2>4
<1>16. SeatsOf(p, v, kind)
  BY <1>13, <1>14, <1>15 DEF SeatsOf
<1> QED
  BY <1>11, <1>16 DEF p, v

\* squash_in_flight() and the constructor leave empty queues.
LEMMA SeatsNone ==
  ASSUME NEW q, NEW kind, q.count = 0
  PROVE  SeatsOf(q, <<>>, kind)
<1>1. Before(<<>>, 0 + 1, kind) = 0
  BY BeforeFirst
<1> QED
  BY <1>1 DEF SeatsOf

-----------------------------------------------------------------------------
(* The search among the older stores. *)

\* Accesses are numbered in program order.
Ordered(w) == \A i, j \in 1 .. Len(w) : i < j => w[i].seq < w[j].seq

\* A store's entry says of a load what the store itself does.
LEMMA EntryOfStore ==
  ASSUME NEW cap \in Nat \ {0}, NEW q \in LsqQueue(cap), NEW w \in Seq(InFlight),
         SeatsOf(q, w, "store"), Ordered(w),
         NEW i \in 1 .. Len(w), NEW ld, ld.seq = w[i].seq, ld.addr = w[i].addr,
         ld.size = w[i].size,
         NEW j \in 1 .. Len(w), w[j].kind = "store"
  PROVE  LET e == Nth(q, Before(w, j, "store")) IN
           /\ Before(w, j, "store") \in 0 .. q.count - 1
           /\ w[i].kind = "load" => (e.seq < ld.seq <=> j < i)
           /\ MayConflict(e, ld) <=> ~w[j].done \/ ~Disjoint(w[j], w[i])
           /\ Settles(e, ld) => w[j].done /\ Covers(w[j], w[i])
           /\ w[j].done => e.addr = w[j].addr /\ e.data = Promise!Stored(w[j].seq, w[j].size)
<1> DEFINE e == Nth(q, Before(w, j, "store"))
<1>1. Before(w, j, "store") \in 0 .. q.count - 1 /\ e = q.slots[w[j].idx]
  BY SeatFacts
<1>2. Holds(e, w[j])
  BY <1>1 DEF SeatsOf
<1> HIDE DEF e
<1>3. w[i] \in InFlight /\ w[j] \in InFlight /\ Len(w) \in Nat
  OBVIOUS
<1>4. w[i].kind = "load" => (e.seq < ld.seq <=> j < i)
  <2> SUFFICES ASSUME w[i].kind = "load"
               PROVE  e.seq < ld.seq <=> j < i
    OBVIOUS
  <2>1. i # j
    OBVIOUS
  <2>2. e.seq = w[j].seq
    BY <1>2 DEF Holds
  <2>3. w[i].seq \in Int /\ w[j].seq \in Int
    <3>1. \A v \in InFlight : v.seq \in Int
      BY DEF InFlight
    <3> QED
      BY <1>3, <3>1
  <2>4. CASE j < i
    <3>1. w[j].seq < w[i].seq
      BY <2>4 DEF Ordered
    <3> QED
      BY <2>2, <2>4, <3>1
  <2>5. CASE i < j
    <3>1. w[i].seq < w[j].seq
      BY <2>5 DEF Ordered
    <3> QED
      BY <2>2, <2>3, <2>5, <3>1
  <2> QED
    BY <2>1, <2>4, <2>5, <1>3
<1>5. MayConflict(e, ld) <=> ~w[j].done \/ ~Disjoint(w[j], w[i])
  BY <1>2 DEF Holds, MayConflict, Disjoint
<1>6. Settles(e, ld) => w[j].done /\ Covers(w[j], w[i])
  BY <1>2 DEF Holds, Settles, Covers
<1>7. w[j].done => e.addr = w[j].addr /\ e.data = Promise!Stored(w[j].seq, w[j].size)
  BY <1>2 DEF Holds
<1> QED
  BY <1>1, <1>4, <1>5, <1>6, <1>7 DEF e

(***************************************************************************)
(* What search_older_stores() has found when it answers: for NO_MATCH, that*)
(* every older store is resolved and elsewhere; for FORWARD, the bytes of  *)
(* an older store that covers the load, with every store between the two   *)
(* resolved and elsewhere.                                                 *)
(***************************************************************************)
LEMMA SearchFacts ==
  ASSUME NEW cap \in Nat \ {0}, NEW q \in LsqQueue(cap), NEW w \in Seq(InFlight),
         SeatsOf(q, w, "store"), Ordered(w),
         NEW i \in 1 .. Len(w), w[i].kind = "load",
         NEW ld, ld.addrReady, ld.seq = w[i].seq, ld.addr = w[i].addr, ld.size = w[i].size
  PROVE  LET found == SearchOlderStores(q, ld) IN
           /\ found.kind \in {"NO_MATCH", "FORWARD", "REPLAY"}
           /\ found.kind = "NO_MATCH" =>
                \A j \in 1 .. i - 1 : w[j].kind = "store" => w[j].done /\ Disjoint(w[j], w[i])
           /\ found.kind = "FORWARD" =>
                \E j \in 1 .. i - 1 :
                  /\ w[j].kind = "store" /\ w[j].done /\ Covers(w[j], w[i])
                  /\ found.data = [k \in 0 .. w[i].size - 1 |->
                       Promise!Stored(w[j].seq, w[j].size)[w[i].addr - w[j].addr + k]]
                  /\ \A l \in j + 1 .. i - 1 : w[l].kind = "store" => Disjoint(w[l], w[i])
<1> DEFINE C == {k \in 0 .. q.count - 1 : Nth(q, k).seq < ld.seq /\ MayConflict(Nth(q, k), ld)}
           y == CHOOSE k \in C : \A j \in C : j <= k
           found == SearchOlderStores(q, ld)
<1>1. found = IF C = {} THEN NoMatch
              ELSE IF Settles(Nth(q, y), ld) THEN Forward(Nth(q, y), ld)
              ELSE Replay
  BY DEF SearchOlderStores
<1>2. Len(w) \in Nat /\ q.count \in Nat
  BY DEF LsqQueue
<1>3. ASSUME NEW j \in 1 .. i - 1, w[j].kind = "store"
      PROVE  Before(w, j, "store") \in C <=> ~w[j].done \/ ~Disjoint(w[j], w[i])
  <2>1. j \in 1 .. Len(w) /\ j < i
    BY <1>2
  <2>2. /\ Before(w, j, "store") \in 0 .. q.count - 1
        /\ Nth(q, Before(w, j, "store")).seq < ld.seq
        /\ MayConflict(Nth(q, Before(w, j, "store")), ld) <=>
             ~w[j].done \/ ~Disjoint(w[j], w[i])
    BY <1>3, <2>1, EntryOfStore
  <2> QED
    BY <2>2
<1>4. ASSUME C = {}
      PROVE  \A j \in 1 .. i - 1 : w[j].kind = "store" => w[j].done /\ Disjoint(w[j], w[i])
  BY <1>3, <1>4
<1>5. ASSUME C # {}
      PROVE  /\ y \in C /\ \A k \in C : k <= y
             /\ \E j \in 1 .. i - 1 : w[j].kind = "store" /\ Before(w, j, "store") = y
  <2>1. C \in SUBSET (0 .. q.count)
    BY <1>2
  <2>2. \E x \in C : \A k \in C : k <= x
    BY <1>2, <1>5, <2>1, GreatestElement
  <2>3. y \in C /\ \A k \in C : k <= y
    BY <2>2
  <2>4. y \in 0 .. q.count - 1 /\ Nth(q, y).seq < ld.seq
    BY <2>3
  <2> HIDE DEF y, C
  <2>5. PICK j \in 1 .. Len(w) : w[j].kind = "store" /\ Before(w, j, "store") = y
    BY <2>4 DEF SeatsOf
  <2>6. j < i
    BY <2>4, <2>5, EntryOfStore
  <2>7. j \in 1 .. i - 1
    BY <2>6, <1>2
  <2> QED
    BY <2>3, <2>5, <2>7
<1> HIDE DEF y, C
<1>6. ASSUME C # {}, Settles(Nth(q, y), ld)
      PROVE  \E j \in 1 .. i - 1 :
               /\ w[j].kind = "store" /\ w[j].done /\ Covers(w[j], w[i])
               /\ Extract(Nth(q, y), ld) = [k \in 0 .. w[i].size - 1 |->
                    Promise!Stored(w[j].seq, w[j].size)[w[i].addr - w[j].addr + k]]
               /\ \A l \in j + 1 .. i - 1 : w[l].kind = "store" => Disjoint(w[l], w[i])
  <2>1. PICK j \in 1 .. i - 1 : w[j].kind = "store" /\ Before(w, j, "store") = y
    BY <1>5, <1>6
  <2>2. j \in 1 .. Len(w)
    BY <1>2
  <2>3. /\ w[j].done /\ Covers(w[j], w[i])
        /\ Nth(q, y).addr = w[j].addr
        /\ Nth(q, y).data = Promise!Stored(w[j].seq, w[j].size)
    BY <1>6, <2>1, <2>2, EntryOfStore
  <2>4. ASSUME NEW l \in j + 1 .. i - 1, w[l].kind = "store"
        PROVE  Disjoint(w[l], w[i])
    <3>1. j \in 1 .. l /\ j < l /\ l \in Nat \ {0} /\ l \in 1 .. i - 1
      OBVIOUS
    <3>2. y < Before(w, l, "store")
      BY <2>1, <3>1, BeforeGrows
    <3>3. Before(w, l, "store") \in Nat /\ y \in Nat
      BY <2>1, <3>1, BeforeNext
    <3>4. Before(w, l, "store") \notin C
      BY <1>5, <1>6, <3>2, <3>3
    <3> QED
      BY <3>1, <3>4, <1>3, <2>4
  <2> QED
    BY <2>1, <2>3, <2>4 DEF Extract
<1>7. CASE C = {}
  BY <1>1, <1>4, <1>7 DEF NoMatch
<1>8. CASE C # {} /\ Settles(Nth(q, y), ld)
  BY <1>1, <1>6, <1>8 DEF Forward
<1>9. CASE C # {} /\ ~Settles(Nth(q, y), ld)
  BY <1>1, <1>9 DEF Replay
<1> QED
  BY <1>7, <1>8, <1>9

-----------------------------------------------------------------------------
(* Memory as the older accesses leave it. *)

\* An access that stays inside the address space covers plain intervals.
LEMMA InsideCovers ==
  ASSUME NEW addr \in Addr, NEW size \in 1 .. AddrMod, addr + size <= AddrMod, NEW a \in Addr
  PROVE  /\ (a - addr) % AddrMod < size <=> addr <= a /\ a < addr + size
         /\ addr <= a => (a - addr) % AddrMod = a - addr
<1>1. AddrMod \in Nat \ {0} /\ addr \in 0 .. AddrMod - 1 /\ a \in 0 .. AddrMod - 1
  BY QueuesAssumption DEF Addr, Promise!Addr
<1>2. CASE addr <= a
  <2>1. a - addr \in 0 .. AddrMod - 1
    BY <1>1, <1>2
  <2>2. (a - addr) % AddrMod = a - addr
    BY <1>1, <2>1, ModInside
  <2> QED
    BY <1>1, <1>2, <2>2
<1>3. CASE a < addr
  <2>1. a - addr \in -AddrMod .. -1
    BY <1>1, <1>3
  <2>2. (a - addr) % AddrMod = a - addr + AddrMod
    BY <1>1, <2>1, ModBefore
  <2> QED
    BY <1>1, <1>3, <2>2
<1> QED
  BY <1>1, <1>2, <1>3

\* No older store writes the byte: memory has it.
LEMMA MemoryUntouched ==
  ASSUME NEW m, NEW w, NEW i, NEW a \in Addr, Writers(w, i, a) = {}
  PROVE  MemoryBefore(m, w, i)[a] = m[a]
  BY DEF MemoryBefore

\* The youngest older store that writes the byte decides it.
LEMMA MemoryYoungest ==
  ASSUME NEW m, NEW w, NEW i \in Nat \ {0}, NEW a \in Addr,
         NEW j \in Writers(w, i, a), \A l \in Writers(w, i, a) : l <= j
  PROVE  MemoryBefore(m, w, i)[a] = ByteAt(w[j], a)
<1> DEFINE S == Writers(w, i, a)
<1>1. S \in SUBSET Nat
  BY DEF Writers
<1>2. Max(S) = j
  <2>1. Max(S) \in S /\ \A l \in S : Max(S) >= l
    BY <1>1 DEF Max
  <2> QED
    BY <1>1, <2>1
<1> HIDE DEF S
<1>3. S # {}
  BY DEF S
<1> QED
  BY <1>2, <1>3 DEF MemoryBefore, S

\* Some older store writes the byte last, or none writes it.
LEMMA MemoryCases ==
  ASSUME NEW w, NEW i \in Nat \ {0}, NEW a
  PROVE  \/ Writers(w, i, a) = {}
         \/ \E j \in Writers(w, i, a) : \A l \in Writers(w, i, a) : l <= j
<1>1. Writers(w, i, a) \in SUBSET (0 .. i)
  BY DEF Writers
<1> QED
  BY <1>1, GreatestElement

\* Only kinds, addresses, sizes and numbers of the older accesses matter.
LEMMA MemorySame ==
  ASSUME NEW m, NEW w, NEW v, NEW i \in Nat \ {0},
         \A j \in 1 .. i - 1 : /\ v[j].kind = w[j].kind /\ v[j].addr = w[j].addr
                               /\ v[j].size = w[j].size /\ v[j].seq = w[j].seq
  PROVE  MemoryBefore(m, v, i) = MemoryBefore(m, w, i)
<1>1. ASSUME NEW a \in Addr
      PROVE  MemoryBefore(m, v, i)[a] = MemoryBefore(m, w, i)[a]
  <2>1. Writers(v, i, a) = Writers(w, i, a)
    <3>1. \A j \in 1 .. i - 1 : Writes(v[j], a) <=> Writes(w[j], a)
      BY DEF Writes
    <3> QED
      BY <3>1 DEF Writers
  <2>2. CASE Writers(w, i, a) = {}
    BY <2>1, <2>2, MemoryUntouched
  <2>3. CASE \E j \in Writers(w, i, a) : \A l \in Writers(w, i, a) : l <= j
    <3>1. PICK j \in Writers(w, i, a) : \A l \in Writers(w, i, a) : l <= j
      BY <2>3
    <3>2. j \in 1 .. i - 1 /\ ByteAt(v[j], a) = ByteAt(w[j], a)
      BY DEF Writers, ByteAt
    <3>3. MemoryBefore(m, w, i)[a] = ByteAt(w[j], a)
      BY <3>1, MemoryYoungest
    <3>4. MemoryBefore(m, v, i)[a] = ByteAt(v[j], a)
      BY <2>1, <3>1, MemoryYoungest
    <3> QED
      BY <3>2, <3>3, <3>4
  <2> QED
    BY <2>2, <2>3, MemoryCases
<1> QED
  BY <1>1 DEF MemoryBefore

\* The memory a committed access leaves: the store's bytes, where it wrote.
Committed(m, u) ==
  IF u.kind = "store" THEN Promise!Write(m, u.addr, u.size, Promise!Stored(u.seq, u.size))
  ELSE m

\* When the oldest access commits, the younger ones see the memory they saw.
LEMMA MemoryShift ==
  ASSUME NEW m \in [Addr -> Byte], NEW w \in Seq(InFlight), w # <<>>, NEW i \in 1 .. Len(w)
  PROVE  MemoryBefore(Committed(m, w[1]), Tail(w), i) = MemoryBefore(m, w, i + 1)
<1> DEFINE v == Tail(w)
           n == Committed(m, w[1])
<1>1. /\ Len(w) \in Nat \ {0} /\ Len(v) = Len(w) - 1
      /\ \A j \in 1 .. Len(w) - 1 : v[j] = w[j + 1]
  BY WindowTail
<1>2. \A j \in 1 .. i - 1 : v[j] = w[j + 1]
  BY <1>1
<1>3. i \in Nat \ {0} /\ i + 1 \in Nat \ {0}
  BY <1>1
<1>4. ASSUME NEW a \in Addr
      PROVE  n[a] = IF Writes(w[1], a)
                      THEN ByteAt(w[1], a)
                      ELSE m[a]
  BY DEF Committed, Promise!Write, Addr, Writes, ByteAt
<1> HIDE DEF v, n
<1>5. ASSUME NEW a \in Addr
      PROVE  MemoryBefore(n, v, i)[a] = MemoryBefore(m, w, i + 1)[a]
  <2> DEFINE S == Writers(v, i, a)
             T == Writers(w, i + 1, a)
  <2>1. \A j \in 1 .. i - 1 : j \in S <=> j + 1 \in T
    BY <1>2, <1>3 DEF Writers
  <2>2. 1 \in T <=> Writes(w[1], a)
    BY <1>3 DEF Writers
  <2>3. S \in SUBSET (1 .. i - 1) /\ T \in SUBSET (1 .. i)
    BY <1>3 DEF Writers
  <2>4. CASE S = {}
    <3>1. MemoryBefore(n, v, i)[a] = n[a]
      BY <2>4, MemoryUntouched
    <3>2. \A j \in T : j = 1
      <4> SUFFICES ASSUME NEW j \in T, j # 1
                   PROVE  FALSE
        OBVIOUS
      <4>1. j - 1 \in 1 .. i - 1 /\ (j - 1) + 1 = j
        BY <1>3, <2>3
      <4> QED
        BY <2>1, <2>4, <4>1
    <3>3. CASE 1 \in T
      <4>1. MemoryBefore(m, w, i + 1)[a] = ByteAt(w[1], a)
        BY <1>3, <3>2, <3>3, MemoryYoungest
      <4> QED
        BY <1>4, <2>2, <3>1, <3>3, <4>1
    <3>4. CASE 1 \notin T
      <4>1. MemoryBefore(m, w, i + 1)[a] = m[a]
        BY <3>2, <3>4, MemoryUntouched
      <4> QED
        BY <1>4, <2>2, <3>1, <3>4, <4>1
    <3> QED
      BY <3>3, <3>4
  <2>5. CASE \E j \in S : \A l \in S : l <= j
    <3>1. PICK j \in S : \A l \in S : l <= j
      BY <2>5
    <3>2. j \in 1 .. i - 1 /\ j + 1 \in T
      BY <2>1, <2>3
    <3>3. ASSUME NEW l \in T
          PROVE  l <= j + 1
      <4>1. CASE l = 1
        BY <3>2, <4>1
      <4>2. CASE l # 1
        <5>1. l - 1 \in 1 .. i - 1 /\ (l - 1) + 1 = l
          BY <1>3, <2>3, <4>2
        <5>2. l - 1 \in S
          BY <2>1, <5>1
        <5> QED
          BY <3>1, <3>2, <5>1, <5>2
      <4> QED
        BY <4>1, <4>2
    <3>4. MemoryBefore(n, v, i)[a] = ByteAt(v[j], a)
      BY <1>3, <3>1, MemoryYoungest
    <3>5. MemoryBefore(m, w, i + 1)[a] = ByteAt(w[j + 1], a)
      BY <1>3, <3>2, <3>3, MemoryYoungest
    <3> QED
      BY <1>2, <3>2, <3>4, <3>5
  <2> QED
    BY <2>4, <2>5, <1>3, MemoryCases
<1>6. MemoryBefore(n, v, i) = MemoryBefore(m, w, i + 1)
  BY <1>5 DEF MemoryBefore
<1> QED
  BY <1>6 DEF n, v

-----------------------------------------------------------------------------
(* The inductive invariant, one lemma per action. *)

Seats == SeatsOf(lq, window, "load") /\ SeatsOf(sq, window, "store")

\* The window lists accesses of the program in the order of their numbers, all
\* of them behind what retired; a store carries no loaded bytes.
Order ==
  /\ retired.seq < nextSeq
  /\ Ordered(window)
  /\ \A i \in 1 .. Len(window) :
       /\ retired.seq < window[i].seq /\ window[i].seq < nextSeq
       /\ [kind |-> window[i].kind, addr |-> window[i].addr, size |-> window[i].size] \in Ops
       /\ window[i].kind = "store" => window[i].value = NoData

Inv == TypeOK /\ Seats /\ Order

\* The bytes a store writes are bytes.
LEMMA StoredType ==
  ASSUME NEW seq \in 0 .. MaxSeq, NEW size \in 1 .. AddrMod
  PROVE  /\ Promise!Stored(seq, size) \in [0 .. size - 1 -> Byte]
         /\ Promise!Stored(seq, size) \in Bytes
<1>1. Promise!Stored(seq, size) \in [0 .. size - 1 -> Byte]
  BY QueuesAssumption DEF Promise!Stored, Byte, Promise!Byte, Promise!Addr
<1> QED
  BY <1>1 DEF Bytes

\* What a load reads from memory are bytes, and so is what a store leaves there.
LEMMA MemoryTypes ==
  ASSUME NEW m \in [Addr -> Byte], NEW addr \in Addr, NEW size \in 1 .. AddrMod,
         NEW seq \in 0 .. MaxSeq
  PROVE  /\ Promise!Read(m, addr, size) \in Bytes
         /\ Promise!Write(m, addr, size, Promise!Stored(seq, size)) \in [Addr -> Byte]
<1>1. AddrMod \in Nat \ {0} /\ Addr = 0 .. AddrMod - 1
  BY QueuesAssumption DEF Addr, Promise!Addr
<1>2. ASSUME NEW x \in Int
      PROVE  x % AddrMod \in Addr
  BY <1>1, ModRange
<1>3. Promise!Read(m, addr, size) \in [0 .. size - 1 -> Byte]
  <2>1. \A k \in 0 .. size - 1 : (addr + k) % AddrMod \in Addr
    <3>1. \A k \in 0 .. size - 1 : addr + k \in Int
      BY <1>1
    <3> QED
      BY <3>1, <1>2
  <2> QED
    BY <2>1 DEF Promise!Read
<1>4. ASSUME NEW a \in Addr
      PROVE  (IF (a - addr) % AddrMod < size
                THEN Promise!Stored(seq, size)[(a - addr) % AddrMod] ELSE m[a]) \in Byte
  <2> DEFINE k == (a - addr) % AddrMod
  <2>1. k \in 0 .. AddrMod - 1
    <3>1. a - addr \in Int
      BY <1>1
    <3> QED
      BY <3>1, <1>1, <1>2
  <2> HIDE DEF k
  <2>2. k < size => k \in 0 .. size - 1
    BY <2>1
  <2>3. k < size => Promise!Stored(seq, size)[k] \in Byte
    BY <2>2, StoredType
  <2> QED
    BY <2>3 DEF k
<1>5. Promise!Write(m, addr, size, Promise!Stored(seq, size)) \in [Addr -> Byte]
  BY <1>4 DEF Promise!Write, Addr
<1> QED
  BY <1>3, <1>5 DEF Bytes

\* The window after a store has issued.
LEMMA WindowDone ==
  ASSUME NEW w \in Seq(InFlight), NEW i \in 1 .. Len(w)
  PROVE  LET v == [w EXCEPT ![i].done = TRUE]
         IN /\ v \in Seq(InFlight) /\ Len(v) = Len(w)
            /\ v[i] = [w[i] EXCEPT !.done = TRUE]
            /\ \A j \in 1 .. Len(w) : j # i => v[j] = w[j]
<1> DEFINE e == [w[i] EXCEPT !.done = TRUE]
<1>1. e \in InFlight
  <2>1. w[i] \in InFlight
    OBVIOUS
  <2> QED
    BY <2>1 DEF InFlight
<1>2. [w EXCEPT ![i].done = TRUE] = [w EXCEPT ![i] = e]
  OBVIOUS
<1> HIDE DEF e
<1>3. [w EXCEPT ![i] = e] \in Seq(InFlight) /\ Len([w EXCEPT ![i] = e]) = Len(w)
  BY <1>1
<1>4. /\ [w EXCEPT ![i] = e][i] = e
      /\ \A j \in 1 .. Len(w) : j # i => [w EXCEPT ![i] = e][j] = w[j]
  OBVIOUS
<1> QED
  BY <1>2, <1>3, <1>4 DEF e

\* An access that has its bytes.
LEMMA LoadedFacts ==
  ASSUME NEW u \in InFlight, NEW b \in Bytes
  PROVE  LET e == [u EXCEPT !.done = TRUE, !.value = b]
         IN /\ e \in InFlight /\ e.done /\ e.value = b
            /\ \A f \in {"kind", "addr", "size", "seq", "idx"} : e[f] = u[f]
  BY DEF InFlight

\* The window around an access that has changed.
LEMMA WindowChanged ==
  ASSUME NEW w \in Seq(InFlight), NEW i \in 1 .. Len(w), NEW e \in InFlight
  PROVE  /\ [w EXCEPT ![i] = e] \in Seq(InFlight) /\ Len([w EXCEPT ![i] = e]) = Len(w)
         /\ [w EXCEPT ![i] = e][i] = e
         /\ \A j \in 1 .. Len(w) : j # i => [w EXCEPT ![i] = e][j] = w[j]
  OBVIOUS

\* The constructors.
LEMMA InitInv == Init => Inv
<1> SUFFICES ASSUME Init
             PROVE  Inv
  OBVIOUS
<1> USE DEF Init
<1>1. NoData \in Bytes /\ 0 \in Addr /\ 0 \in 0 .. MaxSeq
  <2>1. NoData \in Bytes
    BY DEF Bytes
  <2>2. 0 \in Addr /\ 0 \in 0 .. MaxSeq
    BY QueuesAssumption DEF Addr, Promise!Addr
  <2> QED
    BY <2>1, <2>2
<1>2. Fresh(0, 4) \in LsqEntry
  BY <1>1 DEF Fresh, LsqEntry
<1>3. lq \in LsqQueue(LqSize) /\ sq \in LsqQueue(SqSize) /\ lq.count = 0 /\ sq.count = 0
  BY <1>2, QueuesAssumption DEF LsqQueue, EmptyQueue
<1>4. mem \in [Addr -> Byte]
  BY QueuesAssumption DEF Promise!Init, Addr, Promise!Addr, Byte, Promise!Byte
<1>5. retired \in [seq : 0 .. MaxSeq, value : Bytes] /\ retired.seq = 0
  BY <1>1 DEF Promise!Init, Promise!Nothing, NoData
<1>6. TypeOK
  BY <1>3, <1>4, <1>5, QueuesAssumption DEF TypeOK
<1>7. Seats
  BY <1>3, SeatsNone DEF Seats
<1>8. Order
  BY <1>5 DEF Order, Ordered
<1> QED
  BY <1>6, <1>7, <1>8 DEF Inv

\* A seat taken at dispatch.
LEMMA DispatchInv ==
  ASSUME Inv, NEW op \in Ops, Dispatch(op)
  PROVE  Inv'
<1> DEFINE q == IF op.kind = "load" THEN lq ELSE sq
           cap == IF op.kind = "load" THEN LqSize ELSE SqSize
           u == [kind |-> op.kind, addr |-> op.addr, size |-> op.size, seq |-> nextSeq,
                 idx |-> Tailed(q), done |-> FALSE, value |-> NoData]
<1>1. /\ ~Full(q) /\ nextSeq <= MaxSeq
      /\ IF op.kind = "load"
           THEN lq' = Alloc(lq, nextSeq, op.size) /\ sq' = sq
           ELSE sq' = Alloc(sq, nextSeq, op.size) /\ lq' = lq
      /\ window' = Append(window, u)
      /\ nextSeq' = nextSeq + 1
      /\ mem' = mem /\ retired' = retired /\ mode' = mode
  BY DEF Dispatch
<1>2. op.kind \in Kinds /\ op.addr \in Addr /\ op.size \in 1 .. AddrMod
      /\ op = [kind |-> op.kind, addr |-> op.addr, size |-> op.size]
  BY QueuesAssumption DEF Kinds, Promise!AllOps, Addr
<1>3. /\ lq \in LsqQueue(LqSize) /\ sq \in LsqQueue(SqSize) /\ window \in Seq(InFlight)
      /\ nextSeq \in 1 .. MaxSeq
      /\ LqSize \in Nat \ {0} /\ SqSize \in Nat \ {0} /\ MaxSeq \in Nat
  BY <1>1, QueuesAssumption DEF Inv, TypeOK
<1>4. q \in LsqQueue(cap) /\ cap \in Nat \ {0}
  BY <1>3
<1>5. u \in InFlight
  <2>1. NoData \in Bytes
    BY DEF Bytes
  <2>2. Tailed(q) \in Nat
    <3>1. nextSeq \in 0 .. MaxSeq
      BY <1>3
    <3>2. Tailed(q) \in 0 .. cap - 1
      BY <1>1, <1>2, <1>4, <3>1, AllocFacts
    <3> QED
      BY <1>4, <3>2
  <2> QED
    BY <1>2, <1>3, <2>1, <2>2 DEF InFlight, Kinds
<1>6. u.kind = op.kind /\ u.seq = nextSeq /\ u.size = op.size /\ ~u.done
      /\ u.idx = Tailed(q) /\ u.addr = op.addr /\ u.value = NoData
  OBVIOUS
<1> HIDE DEF u
<1>7. /\ window' \in Seq(InFlight) /\ Len(window') = Len(window) + 1
      /\ Len(window) \in Nat /\ window'[Len(window) + 1] = u
      /\ \A i \in 1 .. Len(window) : window'[i] = window[i]
  BY <1>1, <1>3, <1>5
<1>8. ASSUME op.kind = "load"
      PROVE  lq' \in LsqQueue(LqSize) /\ sq' \in LsqQueue(SqSize) /\ Seats'
  <2>1. ~Full(lq) /\ lq' = Alloc(lq, u.seq, u.size) /\ sq' = sq /\ u.idx = Tailed(lq)
        /\ u.kind = "load"
    BY <1>1, <1>6, <1>8
  <2>2. lq' \in LsqQueue(LqSize)
    <3>1. u.seq \in 0 .. MaxSeq /\ u.size \in 1 .. AddrMod
      BY <1>2, <1>3, <1>6
    <3> QED
      BY <2>1, <1>3, <3>1, AllocFacts
  <2>3. SeatsOf(lq', window', "load")
    BY <2>1, <1>1, <1>3, <1>5, <1>6, SeatsAlloc DEF Inv, Seats
  <2>4. SeatsOf(sq', window', "store")
    BY <2>1, <1>1, <1>3, <1>5, SeatsOther DEF Inv, Seats
  <2> QED
    BY <2>1, <2>2, <2>3, <2>4, <1>3 DEF Seats
<1>9. ASSUME op.kind # "load"
      PROVE  lq' \in LsqQueue(LqSize) /\ sq' \in LsqQueue(SqSize) /\ Seats'
  <2>1. ~Full(sq) /\ sq' = Alloc(sq, u.seq, u.size) /\ lq' = lq /\ u.idx = Tailed(sq)
        /\ u.kind = "store"
    BY <1>1, <1>2, <1>6, <1>9 DEF Kinds
  <2>2. sq' \in LsqQueue(SqSize)
    <3>1. u.seq \in 0 .. MaxSeq /\ u.size \in 1 .. AddrMod
      BY <1>2, <1>3, <1>6
    <3> QED
      BY <2>1, <1>3, <3>1, AllocFacts
  <2>3. SeatsOf(sq', window', "store")
    BY <2>1, <1>1, <1>3, <1>5, <1>6, SeatsAlloc DEF Inv, Seats
  <2>4. SeatsOf(lq', window', "load")
    BY <2>1, <1>1, <1>3, <1>5, SeatsOther DEF Inv, Seats
  <2> QED
    BY <2>1, <2>2, <2>3, <2>4, <1>3 DEF Seats
<1>10. TypeOK'
  BY <1>1, <1>3, <1>7, <1>8, <1>9 DEF Inv, TypeOK
<1>11. Order'
  <2>1. /\ retired.seq < nextSeq
        /\ \A i, j \in 1 .. Len(window) : i < j => window[i].seq < window[j].seq
        /\ \A i \in 1 .. Len(window) :
             /\ retired.seq < window[i].seq /\ window[i].seq < nextSeq
             /\ [kind |-> window[i].kind, addr |-> window[i].addr, size |-> window[i].size] \in Ops
             /\ window[i].kind = "store" => window[i].value = NoData
    BY DEF Inv, Order, Ordered
  <2>2. retired.seq \in Int /\ retired'.seq < nextSeq'
    BY <1>1, <1>3, <2>1 DEF Inv, TypeOK
  <2>3. \A i \in 1 .. Len(window) : window[i].seq \in Int
    <3>1. \A i \in 1 .. Len(window) : window[i] \in InFlight
      BY <1>3
    <3> QED
      BY <3>1 DEF InFlight
  <2>4. ASSUME NEW i \in 1 .. Len(window'), NEW j \in 1 .. Len(window'), i < j
        PROVE  window'[i].seq < window'[j].seq
    <3>1. i \in 1 .. Len(window) /\ window'[i] = window[i]
      BY <1>7, <2>4
    <3>2. CASE j \in 1 .. Len(window)
      BY <3>1, <3>2, <1>7, <2>1, <2>4
    <3>3. CASE j = Len(window) + 1
      BY <3>1, <3>3, <1>6, <1>7, <2>1
    <3> QED
      BY <3>2, <3>3, <1>7
  <2>5. ASSUME NEW i \in 1 .. Len(window')
        PROVE  /\ retired'.seq < window'[i].seq /\ window'[i].seq < nextSeq'
               /\ [kind |-> window'[i].kind, addr |-> window'[i].addr,
                   size |-> window'[i].size] \in Ops
               /\ window'[i].kind = "store" => window'[i].value = NoData
    <3>1. CASE i \in 1 .. Len(window)
      BY <3>1, <1>1, <1>3, <1>7, <2>1, <2>2, <2>3
    <3>2. CASE i = Len(window) + 1
      BY <3>2, <1>1, <1>2, <1>3, <1>6, <1>7, <2>1
    <3> QED
      BY <3>1, <3>2, <1>7
  <2> QED
    BY <2>2, <2>4, <2>5 DEF Order, Ordered
<1> QED
  BY <1>8, <1>9, <1>10, <1>11 DEF Inv

\* A store resolved at issue.
LEMMA IssueStoreInv ==
  ASSUME Inv, NEW i \in 1 .. Len(window), IssueStore(i)
  PROVE  Inv'
<1> DEFINE u == window[i]
           data == Promise!Stored(u.seq, u.size)
           mid == ResolveAddr(sq, u.idx, u.addr)
<1>1. /\ u.kind = "store" /\ ~u.done
      /\ sq' = ResolveData(mid, u.idx, data)
      /\ window' = [window EXCEPT ![i].done = TRUE]
      /\ lq' = lq /\ mem' = mem /\ nextSeq' = nextSeq /\ retired' = retired /\ mode' = mode
  BY DEF IssueStore
<1>2. /\ lq \in LsqQueue(LqSize) /\ sq \in LsqQueue(SqSize) /\ window \in Seq(InFlight)
      /\ LqSize \in Nat \ {0} /\ SqSize \in Nat \ {0} /\ MaxSeq \in Nat
      /\ SeatsOf(lq, window, "load") /\ SeatsOf(sq, window, "store")
  BY QueuesAssumption DEF Inv, TypeOK, Seats
<1>3. \A j \in 1 .. Len(window) : window[j] \in InFlight
  BY <1>2
<1>4. u.addr \in Addr /\ u.seq \in 0 .. MaxSeq /\ u.size \in 1 .. AddrMod
  BY <1>2, <1>3 DEF InFlight
<1>5. data \in Bytes
  BY <1>4, StoredType
<1>6. u.idx \in 0 .. SqSize - 1
  BY <1>1, <1>2, SeatFacts
<1> HIDE DEF data
<1>7. /\ mid \in LsqQueue(SqSize) /\ mid.head = sq.head /\ mid.count = sq.count
      /\ mid.slots[u.idx].addr = u.addr /\ mid.slots[u.idx].addrReady
      /\ \A f \in {"seq", "size", "data", "dataReady"} :
           mid.slots[u.idx][f] = sq.slots[u.idx][f]
      /\ \A k \in 0 .. SqSize - 1 : k # u.idx => mid.slots[k] = sq.slots[k]
  <2> DEFINE x == u.idx
             a == u.addr
  <2>1. /\ SqSize \in Nat \ {0} /\ sq \in LsqQueue(SqSize)
        /\ x \in 0 .. SqSize - 1 /\ a \in Addr
    BY <1>2, <1>4, <1>6
  <2> HIDE DEF x, a
  <2>2. /\ ResolveAddr(sq, x, a) \in LsqQueue(SqSize)
        /\ ResolveAddr(sq, x, a).head = sq.head /\ ResolveAddr(sq, x, a).count = sq.count
        /\ ResolveAddr(sq, x, a).slots[x].addr = a /\ ResolveAddr(sq, x, a).slots[x].addrReady
        /\ \A f \in {"seq", "size", "data", "dataReady"} :
             ResolveAddr(sq, x, a).slots[x][f] = sq.slots[x][f]
        /\ \A k \in 0 .. SqSize - 1 :
             k # x => ResolveAddr(sq, x, a).slots[k] = sq.slots[k]
    BY <2>1, ResolveAddrFacts
  <2>3. mid = ResolveAddr(sq, x, a) /\ x = u.idx /\ a = u.addr
    BY DEF x, a
  <2> HIDE DEF mid, u
  <2> QED
    BY <2>2, <2>3
<1> HIDE DEF mid
<1>8. /\ sq' \in LsqQueue(SqSize) /\ sq'.head = sq.head /\ sq'.count = sq.count
      /\ sq'.slots[u.idx].data = data /\ sq'.slots[u.idx].dataReady
      /\ \A f \in {"seq", "size", "addr", "addrReady"} :
           sq'.slots[u.idx][f] = mid.slots[u.idx][f]
      /\ \A k \in 0 .. SqSize - 1 : k # u.idx => sq'.slots[k] = sq.slots[k]
  <2>1. /\ SqSize \in Nat \ {0} /\ mid \in LsqQueue(SqSize)
        /\ u.idx \in 0 .. SqSize - 1 /\ data \in Bytes
    BY <1>2, <1>5, <1>6, <1>7
  <2> HIDE DEF u
  <2> QED
    BY <2>1, <1>1, <1>7, ResolveDataFacts
<1>9. sq'.cap = sq.cap
  BY <1>2, <1>8 DEF LsqQueue
<1>10. /\ window' \in Seq(InFlight) /\ Len(window') = Len(window)
       /\ window'[i] = [window[i] EXCEPT !.done = TRUE]
       /\ \A j \in 1 .. Len(window) : j # i => window'[j] = window[j]
  BY <1>1, <1>2, WindowDone
<1>11. \A j \in 1 .. Len(window) :
         /\ window'[j].kind = window[j].kind /\ window'[j].idx = window[j].idx
         /\ window'[j].seq = window[j].seq /\ window'[j].size = window[j].size
         /\ window'[j].addr = window[j].addr /\ window'[j].value = window[j].value
         /\ window'[j].done <=> window[j].done \/ j = i
  <2> SUFFICES ASSUME NEW j \in 1 .. Len(window)
               PROVE  /\ window'[j].kind = window[j].kind /\ window'[j].idx = window[j].idx
                      /\ window'[j].seq = window[j].seq /\ window'[j].size = window[j].size
                      /\ window'[j].addr = window[j].addr /\ window'[j].value = window[j].value
                      /\ window'[j].done <=> window[j].done \/ j = i
    OBVIOUS
  <2>1. CASE j = i
    <3>1. window[j] \in InFlight /\ window'[j] = [window[j] EXCEPT !.done = TRUE]
      BY <2>1, <1>3, <1>10
    <3> QED
      BY <2>1, <3>1 DEF InFlight
  <2>2. CASE j # i
    BY <2>2, <1>10
  <2> QED
    BY <2>1, <2>2
<1>12. Len(window) \in Nat
  BY <1>2
<1>13. SeatsOf(lq', window', "load")
  <2>1. ASSUME NEW j \in 1 .. Len(window), window[j].kind = "load"
        PROVE  window'[j].idx = window[j].idx /\ Holds(lq.slots[window'[j].idx], window'[j])
    <3>1. Holds(lq.slots[window[j].idx], window[j])
      BY <2>1, <1>2 DEF SeatsOf
    <3> QED
      BY <2>1, <3>1, <1>11 DEF Holds
  <2>2. SeatsOf(lq, window', "load")
    BY <2>1, <1>2, <1>10, <1>11, <1>12, SeatsKept
  <2> QED
    BY <2>2, <1>1
<1>14. SeatsOf(sq', window', "store")
  <2>1. ASSUME NEW j \in 1 .. Len(window), window[j].kind = "store"
        PROVE  Holds(sq'.slots[window'[j].idx], window'[j])
    <3>1. Holds(sq.slots[window[j].idx], window[j]) /\ window[j].idx \in 0 .. SqSize - 1
      BY <2>1, <1>2, SeatFacts DEF SeatsOf
    <3>2. CASE j = i
      <4>1. /\ sq'.slots[u.idx].seq = sq.slots[u.idx].seq
            /\ sq'.slots[u.idx].size = sq.slots[u.idx].size
            /\ sq'.slots[u.idx].addr = u.addr /\ sq'.slots[u.idx].addrReady
            /\ sq'.slots[u.idx].data = data /\ sq'.slots[u.idx].dataReady
        BY <1>7, <1>8
      <4> QED
        BY <3>1, <3>2, <4>1, <1>11 DEF Holds, data
    <3>3. CASE j # i
      <4>1. window[j].idx # u.idx
        BY <2>1, <3>3, <1>1, <1>2, SeatsDiffer
      <4> QED
        BY <3>1, <3>3, <4>1, <1>8, <1>10
    <3> QED
      BY <3>2, <3>3
  <2> QED
    BY <2>1, <1>2, <1>8, <1>9, <1>10, <1>11, <1>12, SeatsKept
<1>15. TypeOK'
  BY <1>1, <1>2, <1>8, <1>10 DEF Inv, TypeOK
<1>16. Order'
  BY <1>1, <1>10, <1>11 DEF Inv, Order, Ordered
<1> QED
  BY <1>13, <1>14, <1>15, <1>16 DEF Inv, Seats

\* The bytes a forwarding store hands over.
LEMMA ForwardType ==
  ASSUME NEW u \in InFlight, NEW s \in InFlight, Covers(s, u)
  PROVE  [k \in 0 .. u.size - 1 |-> Promise!Stored(s.seq, s.size)[u.addr - s.addr + k]] \in Bytes
<1>1. /\ u.size \in 1 .. AddrMod /\ s.size \in 1 .. AddrMod /\ s.seq \in 0 .. MaxSeq
      /\ u.addr \in Int /\ s.addr \in Int /\ AddrMod \in Nat
  BY QueuesAssumption DEF InFlight, Addr, Promise!Addr
<1>2. Promise!Stored(s.seq, s.size) \in [0 .. s.size - 1 -> Byte]
  BY <1>1, StoredType
<1>3. ASSUME NEW k \in 0 .. u.size - 1
      PROVE  u.addr - s.addr + k \in 0 .. s.size - 1
  BY <1>1 DEF Covers
<1>4. [k \in 0 .. u.size - 1 |-> Promise!Stored(s.seq, s.size)[u.addr - s.addr + k]]
        \in [0 .. u.size - 1 -> Byte]
  BY <1>2, <1>3
<1> QED
  BY <1>1, <1>4 DEF Bytes

\* What a load in flight shows the search once its address is known.
LEMMA IssuedLoad ==
  ASSUME Inv, NEW i \in 1 .. Len(window), IssueLoad(i)
  PROVE  LET u == window[i]
             ld == lq'.slots[u.idx]
         IN /\ u.kind = "load" /\ u.idx \in 0 .. LqSize - 1
            /\ lq' \in LsqQueue(LqSize) /\ lq'.head = lq.head /\ lq'.count = lq.count
            /\ lq'.cap = lq.cap
            /\ ld.addrReady /\ ld.seq = u.seq /\ ld.addr = u.addr /\ ld.size = u.size
            /\ \A k \in 0 .. LqSize - 1 : k # u.idx => lq'.slots[k] = lq.slots[k]
<1> DEFINE u == window[i]
<1>1. u.kind = "load" /\ lq' = ResolveAddr(lq, u.idx, u.addr)
  BY DEF IssueLoad
<1>2. /\ lq \in LsqQueue(LqSize) /\ window \in Seq(InFlight) /\ LqSize \in Nat \ {0}
      /\ SeatsOf(lq, window, "load")
  BY QueuesAssumption DEF Inv, TypeOK, Seats
<1>3. u \in InFlight
  BY <1>2
<1>4. u.addr \in Addr
  BY <1>3 DEF InFlight
<1>5. u.idx \in 0 .. LqSize - 1 /\ Holds(lq.slots[u.idx], u)
  BY <1>1, <1>2, SeatFacts DEF SeatsOf
<1>6. /\ lq' \in LsqQueue(LqSize) /\ lq'.head = lq.head /\ lq'.count = lq.count
      /\ lq'.slots[u.idx].addr = u.addr /\ lq'.slots[u.idx].addrReady
      /\ \A f \in {"seq", "size", "data", "dataReady"} :
           lq'.slots[u.idx][f] = lq.slots[u.idx][f]
      /\ \A k \in 0 .. LqSize - 1 : k # u.idx => lq'.slots[k] = lq.slots[k]
  <2>1. /\ LqSize \in Nat \ {0} /\ lq \in LsqQueue(LqSize)
        /\ u.idx \in 0 .. LqSize - 1 /\ u.addr \in Addr
    BY <1>2, <1>4, <1>5
  <2> DEFINE idx  == u.idx
             addr == u.addr
  <2>2. /\ LqSize \in Nat \ {0} /\ lq \in LsqQueue(LqSize)
        /\ idx \in 0 .. LqSize - 1 /\ addr \in Addr /\ lq' = ResolveAddr(lq, idx, addr)
    BY <1>1, <2>1
  <2> HIDE DEF idx, addr
  <2>3. /\ lq' \in LsqQueue(LqSize) /\ lq'.head = lq.head /\ lq'.count = lq.count
        /\ lq'.slots[idx].addr = addr /\ lq'.slots[idx].addrReady
        /\ \A f \in {"seq", "size", "data", "dataReady"} : lq'.slots[idx][f] = lq.slots[idx][f]
        /\ \A k \in 0 .. LqSize - 1 : k # idx => lq'.slots[k] = lq.slots[k]
    BY <2>2, ResolveAddrFacts
  <2> QED
    BY <2>3 DEF idx, addr
<1>7. lq'.cap = lq.cap
  BY <1>2, <1>6 DEF LsqQueue
<1> QED
  BY <1>1, <1>5, <1>6, <1>7 DEF Holds

\* The three ends of execute_load(), with the bytes the load goes away with.
LEMMA IssueLoadCases ==
  ASSUME Inv, NEW i \in 1 .. Len(window), IssueLoad(i)
  PROVE  LET u == window[i] IN
           \/ window' = window
           \/ \E j \in 1 .. i - 1 :
                /\ window[j].kind = "store" /\ Covers(window[j], u)
                /\ \A l \in j + 1 .. i - 1 :
                     window[l].kind = "store" => Disjoint(window[l], u)
                /\ window' = [window EXCEPT ![i].done = TRUE, ![i].value =
                     [k \in 0 .. u.size - 1 |->
                        Promise!Stored(window[j].seq, window[j].size)[u.addr - window[j].addr + k]]]
           \/ /\ \A j \in 1 .. i - 1 : window[j].kind = "store" => Disjoint(window[j], u)
              /\ window' = [window EXCEPT ![i].done = TRUE,
                                          ![i].value = Promise!Read(mem, u.addr, u.size)]
<1> DEFINE u == window[i]
           ld == lq'.slots[u.idx]
           found == SearchOlderStores(sq, ld)
<1>1. u.kind = "load" /\ ld.addrReady /\ ld.seq = u.seq /\ ld.addr = u.addr /\ ld.size = u.size
  BY IssuedLoad
<1>2. /\ sq \in LsqQueue(SqSize) /\ window \in Seq(InFlight) /\ SqSize \in Nat \ {0}
      /\ SeatsOf(sq, window, "store") /\ Ordered(window)
  BY QueuesAssumption DEF Inv, TypeOK, Seats, Order
<1>3. window' =
        CASE found.kind = "REPLAY"   -> window
          [] found.kind = "FORWARD"  -> [window EXCEPT ![i].done = TRUE, ![i].value = found.data]
          [] found.kind = "NO_MATCH" ->
               [window EXCEPT ![i].done = TRUE, ![i].value = Promise!Read(mem, u.addr, u.size)]
  BY DEF IssueLoad
<1> HIDE DEF ld
<1>4. /\ found.kind \in {"NO_MATCH", "FORWARD", "REPLAY"}
      /\ found.kind = "NO_MATCH" =>
           \A j \in 1 .. i - 1 :
             window[j].kind = "store" => window[j].done /\ Disjoint(window[j], u)
      /\ found.kind = "FORWARD" =>
           \E j \in 1 .. i - 1 :
             /\ window[j].kind = "store" /\ window[j].done /\ Covers(window[j], u)
             /\ found.data = [k \in 0 .. u.size - 1 |->
                  Promise!Stored(window[j].seq, window[j].size)[u.addr - window[j].addr + k]]
             /\ \A l \in j + 1 .. i - 1 : window[l].kind = "store" => Disjoint(window[l], u)
  BY <1>1, <1>2, SearchFacts
<1> HIDE DEF found
<1>5. CASE found.kind = "REPLAY"
  BY <1>3, <1>5
<1>6. CASE found.kind = "FORWARD"
  <2>1. window' = [window EXCEPT ![i].done = TRUE, ![i].value = found.data]
    BY <1>3, <1>6
  <2> QED
    BY <2>1, <1>4, <1>6
<1>7. CASE found.kind = "NO_MATCH"
  <2>1. window' = [window EXCEPT ![i].done = TRUE,
                                 ![i].value = Promise!Read(mem, u.addr, u.size)]
    BY <1>3, <1>7
  <2> QED
    BY <2>1, <1>4, <1>7
<1> QED
  BY <1>4, <1>5, <1>6, <1>7

\* A load offered to execute_load(): replayed, forwarded to, or read.
LEMMA IssueLoadInv ==
  ASSUME Inv, NEW i \in 1 .. Len(window), IssueLoad(i)
  PROVE  Inv'
<1> DEFINE u == window[i]
<1>1. /\ u.kind = "load" /\ u.idx \in 0 .. LqSize - 1
      /\ lq' \in LsqQueue(LqSize) /\ lq'.head = lq.head /\ lq'.count = lq.count
      /\ lq'.cap = lq.cap
      /\ lq'.slots[u.idx].seq = u.seq /\ lq'.slots[u.idx].size = u.size
      /\ \A k \in 0 .. LqSize - 1 : k # u.idx => lq'.slots[k] = lq.slots[k]
  BY IssuedLoad
<1>2. sq' = sq /\ mem' = mem /\ nextSeq' = nextSeq /\ retired' = retired /\ mode' = mode
  BY DEF IssueLoad
<1>3. /\ lq \in LsqQueue(LqSize) /\ sq \in LsqQueue(SqSize) /\ window \in Seq(InFlight)
      /\ mem \in [Addr -> Byte]
      /\ LqSize \in Nat \ {0} /\ SqSize \in Nat \ {0}
      /\ SeatsOf(lq, window, "load") /\ SeatsOf(sq, window, "store")
  BY QueuesAssumption DEF Inv, TypeOK, Seats
<1>4. \A j \in 1 .. Len(window) : window[j] \in InFlight
  BY <1>3
<1>5. \/ window' = window
      \/ \E b \in Bytes : window' = [window EXCEPT ![i].done = TRUE, ![i].value = b]
  <2>1. CASE window' = window
    BY <2>1
  <2>2. CASE \E j \in 1 .. i - 1 :
               /\ window[j].kind = "store" /\ Covers(window[j], u)
               /\ \A l \in j + 1 .. i - 1 :
                    window[l].kind = "store" => Disjoint(window[l], u)
               /\ window' = [window EXCEPT ![i].done = TRUE, ![i].value =
                    [k \in 0 .. u.size - 1 |->
                       Promise!Stored(window[j].seq, window[j].size)[u.addr - window[j].addr + k]]]
    <3>1. PICK j \in 1 .. i - 1 :
               /\ Covers(window[j], u)
               /\ window' = [window EXCEPT ![i].done = TRUE, ![i].value =
                    [k \in 0 .. u.size - 1 |->
                       Promise!Stored(window[j].seq, window[j].size)[u.addr - window[j].addr + k]]]
      BY <2>2
    <3>2. u \in InFlight /\ window[j] \in InFlight
      BY <1>3, <1>4
    <3>3. [k \in 0 .. u.size - 1 |->
             Promise!Stored(window[j].seq, window[j].size)[u.addr - window[j].addr + k]] \in Bytes
      BY <3>1, <3>2, ForwardType
    <3> QED
      BY <3>1, <3>3
  <2>3. CASE window' = [window EXCEPT ![i].done = TRUE,
                                      ![i].value = Promise!Read(mem, u.addr, u.size)]
    <3>1. u.addr \in Addr /\ u.size \in 1 .. AddrMod /\ 0 \in 0 .. MaxSeq
      BY <1>4, QueuesAssumption DEF InFlight
    <3>2. Promise!Read(mem, u.addr, u.size) \in Bytes
      BY <3>1, <1>3, MemoryTypes
    <3> QED
      BY <2>3, <3>2
  <2> QED
    BY <2>1, <2>2, <2>3, IssueLoadCases
<1>6. /\ window' \in Seq(InFlight) /\ Len(window') = Len(window)
      /\ \A j \in 1 .. Len(window) :
           /\ window'[j].kind = window[j].kind /\ window'[j].idx = window[j].idx
           /\ window'[j].seq = window[j].seq /\ window'[j].size = window[j].size
           /\ window'[j].addr = window[j].addr
           /\ j # i => window'[j] = window[j]
  <2>1. CASE window' = window
    BY <2>1, <1>3
  <2>2. CASE \E b \in Bytes : window' = [window EXCEPT ![i].done = TRUE, ![i].value = b]
    <3>1. PICK b \in Bytes : window' = [window EXCEPT ![i].done = TRUE, ![i].value = b]
      BY <2>2
    <3> DEFINE e == [window[i] EXCEPT !.done = TRUE, !.value = b]
    <3>2. window' = [window EXCEPT ![i] = e]
      BY <3>1
    <3>3. /\ e \in InFlight
          /\ \A f \in {"kind", "addr", "size", "seq", "idx"} : e[f] = window[i][f]
      BY <1>4, LoadedFacts
    <3> HIDE DEF e
    <3>4. /\ window' \in Seq(InFlight) /\ Len(window') = Len(window)
          /\ window'[i] = e
          /\ \A j \in 1 .. Len(window) : j # i => window'[j] = window[j]
      BY <3>2, <3>3, <1>3, WindowChanged
    <3>5. /\ window'[i].kind = window[i].kind /\ window'[i].idx = window[i].idx
          /\ window'[i].seq = window[i].seq /\ window'[i].size = window[i].size
          /\ window'[i].addr = window[i].addr
      BY <3>3, <3>4
    <3> QED
      BY <3>4, <3>5
  <2> QED
    BY <2>1, <2>2, <1>5
<1>7. Len(window) \in Nat
  BY <1>3
<1>8. SeatsOf(lq', window', "load")
  <2>1. ASSUME NEW j \in 1 .. Len(window), window[j].kind = "load"
        PROVE  window'[j].idx = window[j].idx /\ Holds(lq'.slots[window'[j].idx], window'[j])
    <3>1. Holds(lq.slots[window[j].idx], window[j]) /\ window[j].idx \in 0 .. LqSize - 1
      BY <2>1, <1>3, SeatFacts DEF SeatsOf
    <3>2. CASE j = i
      BY <2>1, <3>1, <3>2, <1>1, <1>6 DEF Holds
    <3>3. CASE j # i
      <4>1. window[j].idx # u.idx
        BY <2>1, <3>3, <1>1, <1>3, SeatsDiffer
      <4> QED
        BY <3>1, <3>3, <4>1, <1>1, <1>6
    <3> QED
      BY <3>2, <3>3
  <2> QED
    BY <2>1, <1>1, <1>3, <1>6, <1>7, SeatsKept
<1>9. SeatsOf(sq', window', "store")
  <2>1. ASSUME NEW j \in 1 .. Len(window), window[j].kind = "store"
        PROVE  window'[j].idx = window[j].idx /\ Holds(sq.slots[window'[j].idx], window'[j])
    <3>1. j # i
      BY <2>1, <1>1
    <3> QED
      BY <2>1, <3>1, <1>3, <1>6 DEF SeatsOf
  <2>2. SeatsOf(sq, window', "store")
    BY <2>1, <1>3, <1>6, <1>7, SeatsKept
  <2> QED
    BY <2>2, <1>2
<1>10. TypeOK'
  BY <1>1, <1>2, <1>3, <1>6 DEF Inv, TypeOK
<1>11. Order'
  <2>1. \A j \in 1 .. Len(window) :
          window'[j].kind = "store" => window'[j].value = window[j].value
    BY <1>1, <1>6
  <2> QED
    BY <2>1, <1>2, <1>6 DEF Inv, Order, Ordered
<1> QED
  BY <1>8, <1>9, <1>10, <1>11 DEF Inv, Seats

\* What commit() does to memory is what the store at the head said.
LEMMA CommitFacts ==
  ASSUME Inv, Commit
  PROVE  /\ window # <<>> /\ window[1].done /\ window' = Tail(window)
         /\ retired' = [seq |-> window[1].seq, value |-> window[1].value]
         /\ mem' = Committed(mem, window[1])
         /\ lq' = IF window[1].kind = "load" THEN PopHead(lq) ELSE lq
         /\ sq' = IF window[1].kind = "load" THEN sq ELSE PopHead(sq)
         /\ nextSeq' = nextSeq /\ mode' = mode
<1> DEFINE u == window[1]
<1>1. /\ window # <<>> /\ Head(window).done /\ window' = Tail(window)
      /\ retired' = [seq |-> Head(window).seq, value |-> Head(window).value]
      /\ IF Head(window).kind = "load"
           THEN lq' = PopHead(lq) /\ sq' = sq /\ mem' = mem
           ELSE /\ mem' = Promise!Write(mem, Nth(sq, 0).addr, Head(window).size, Nth(sq, 0).data)
                /\ sq' = PopHead(sq) /\ lq' = lq
      /\ nextSeq' = nextSeq /\ mode' = mode
  BY DEF Commit
<1>2. window \in Seq(InFlight) /\ sq \in LsqQueue(SqSize) /\ SqSize \in Nat \ {0}
      /\ SeatsOf(sq, window, "store")
  BY QueuesAssumption DEF Inv, TypeOK, Seats
<1>3. Head(window) = u /\ u \in InFlight /\ 1 \in 1 .. Len(window)
  BY <1>1, <1>2
<1>4. u.kind \in {"load", "store"}
  BY <1>3 DEF InFlight
<1>5. CASE u.kind = "load"
  BY <1>1, <1>3, <1>5 DEF Committed
<1>6. CASE u.kind = "store"
  <2>1. Nth(sq, 0) = sq.slots[u.idx]
    BY <1>1, <1>2, <1>6, SeatsPop
  <2>2. Holds(sq.slots[u.idx], u)
    BY <1>2, <1>3, <1>6 DEF SeatsOf
  <2>3. Nth(sq, 0).addr = u.addr /\ Nth(sq, 0).data = Promise!Stored(u.seq, u.size)
    BY <1>1, <1>3, <1>6, <2>1, <2>2 DEF Holds
  <2> QED
    BY <1>1, <1>3, <1>6, <2>3 DEF Committed
<1> QED
  BY <1>4, <1>5, <1>6

\* The oldest access leaves.
LEMMA CommitInv ==
  ASSUME Inv, Commit
  PROVE  Inv'
<1> DEFINE u == window[1]
<1>1. /\ window # <<>> /\ window' = Tail(window)
      /\ retired' = [seq |-> u.seq, value |-> u.value]
      /\ mem' = Committed(mem, u)
      /\ lq' = IF u.kind = "load" THEN PopHead(lq) ELSE lq
      /\ sq' = IF u.kind = "load" THEN sq ELSE PopHead(sq)
      /\ nextSeq' = nextSeq /\ mode' = mode
  BY CommitFacts
<1>2. /\ lq \in LsqQueue(LqSize) /\ sq \in LsqQueue(SqSize) /\ window \in Seq(InFlight)
      /\ mem \in [Addr -> Byte]
      /\ LqSize \in Nat \ {0} /\ SqSize \in Nat \ {0}
      /\ SeatsOf(lq, window, "load") /\ SeatsOf(sq, window, "store")
  BY QueuesAssumption DEF Inv, TypeOK, Seats
<1>3. /\ Len(window) \in Nat \ {0} /\ u \in InFlight
      /\ window' \in Seq(InFlight) /\ Len(window') = Len(window) - 1
      /\ \A i \in 1 .. Len(window) - 1 : window'[i] = window[i + 1]
  BY <1>1, <1>2, WindowTail
<1>4. /\ u.kind \in {"load", "store"} /\ u.seq \in 1 .. MaxSeq /\ u.value \in Bytes
      /\ u.addr \in Addr /\ u.size \in 1 .. AddrMod
  BY <1>3 DEF InFlight
<1>5. SeatsOf(lq', window', "load") /\ lq' \in LsqQueue(LqSize)
  <2>1. CASE u.kind = "load"
    <3>1. lq.count # 0 /\ SeatsOf(PopHead(lq), Tail(window), "load")
      BY <2>1, <1>1, <1>2, SeatsPop
    <3>2. PopHead(lq) \in LsqQueue(LqSize)
      BY <3>1, <1>2, PopFacts
    <3> QED
      BY <2>1, <3>1, <3>2, <1>1
  <2>2. CASE u.kind # "load"
    <3>1. SeatsOf(lq, Tail(window), "load")
      BY <2>2, <1>1, <1>2, SeatsLeave
    <3> QED
      BY <2>2, <3>1, <1>1, <1>2
  <2> QED
    BY <2>1, <2>2
<1>6. SeatsOf(sq', window', "store") /\ sq' \in LsqQueue(SqSize)
  <2>1. CASE u.kind = "store"
    <3>1. sq.count # 0 /\ SeatsOf(PopHead(sq), Tail(window), "store")
      BY <2>1, <1>1, <1>2, SeatsPop
    <3>2. PopHead(sq) \in LsqQueue(SqSize)
      BY <3>1, <1>2, PopFacts
    <3> QED
      BY <2>1, <3>1, <3>2, <1>1
  <2>2. CASE u.kind = "load"
    <3>1. SeatsOf(sq, Tail(window), "store")
      BY <2>2, <1>1, <1>2, SeatsLeave
    <3> QED
      BY <2>2, <3>1, <1>1, <1>2
  <2> QED
    BY <2>1, <2>2, <1>4
<1>7. mem' \in [Addr -> Byte]
  <2>1. u.seq \in 0 .. MaxSeq
    BY <1>4
  <2> QED
    BY <2>1, <1>1, <1>2, <1>4, MemoryTypes DEF Committed
<1>8. retired' \in [seq : 0 .. MaxSeq, value : Bytes] /\ retired'.seq = u.seq
  BY <1>1, <1>4
<1>9. TypeOK'
  BY <1>1, <1>3, <1>5, <1>6, <1>7, <1>8 DEF Inv, TypeOK
<1>10. Order'
  <2>1. /\ \A i, j \in 1 .. Len(window) : i < j => window[i].seq < window[j].seq
        /\ \A i \in 1 .. Len(window) :
             /\ window[i].seq < nextSeq
             /\ [kind |-> window[i].kind, addr |-> window[i].addr, size |-> window[i].size] \in Ops
             /\ window[i].kind = "store" => window[i].value = NoData
    BY DEF Inv, Order, Ordered
  <2>2. 1 \in 1 .. Len(window)
    BY <1>3
  <2>3. retired'.seq < nextSeq'
    BY <2>1, <2>2, <1>1, <1>8
  <2>4. ASSUME NEW i \in 1 .. Len(window')
        PROVE  /\ i + 1 \in 1 .. Len(window) /\ 1 < i + 1 /\ window'[i] = window[i + 1]
    BY <1>3
  <2>5. ASSUME NEW i \in 1 .. Len(window'), NEW j \in 1 .. Len(window'), i < j
        PROVE  window'[i].seq < window'[j].seq
    <3>1. i + 1 < j + 1
      BY <2>5, <1>3
    <3> QED
      BY <3>1, <2>1, <2>4
  <2>6. ASSUME NEW i \in 1 .. Len(window')
        PROVE  /\ retired'.seq < window'[i].seq /\ window'[i].seq < nextSeq'
               /\ [kind |-> window'[i].kind, addr |-> window'[i].addr,
                   size |-> window'[i].size] \in Ops
               /\ window'[i].kind = "store" => window'[i].value = NoData
    <3>1. u.seq < window[i + 1].seq
      BY <2>1, <2>2, <2>4
    <3> QED
      BY <3>1, <2>1, <2>4, <1>1, <1>8
  <2> QED
    BY <2>3, <2>5, <2>6 DEF Order, Ordered
<1> QED
  BY <1>5, <1>6, <1>9, <1>10 DEF Inv, Seats

\* A recovery: what the branch kept of the window is what the queues keep.
LEMMA RecoverInv ==
  ASSUME Inv, NEW keep \in 0 .. Len(window) - 1, Recover(keep)
  PROVE  Inv'
<1> DEFINE seq == IF keep = 0 THEN window[1].seq - 1 ELSE window[keep].seq
<1>1. /\ lq' = SquashAfter(lq, seq) /\ sq' = SquashAfter(sq, seq)
      /\ window' = SubSeq(window, 1, keep)
      /\ mem' = mem /\ nextSeq' = nextSeq /\ retired' = retired /\ mode' = mode
  BY DEF Recover
<1>2. /\ lq \in LsqQueue(LqSize) /\ sq \in LsqQueue(SqSize) /\ window \in Seq(InFlight)
      /\ LqSize \in Nat \ {0} /\ SqSize \in Nat \ {0}
      /\ SeatsOf(lq, window, "load") /\ SeatsOf(sq, window, "store")
  BY QueuesAssumption DEF Inv, TypeOK, Seats
<1>3. Len(window) \in Nat /\ keep \in 0 .. Len(window) /\ 1 \in 1 .. Len(window)
  BY <1>2
<1>4. \A i \in 1 .. Len(window) : window[i].seq \in Int
  <2>1. \A i \in 1 .. Len(window) : window[i] \in InFlight
    BY <1>2
  <2> QED
    BY <2>1 DEF InFlight
<1>5. \A i, j \in 1 .. Len(window) : i < j => window[i].seq < window[j].seq
  BY DEF Inv, Order, Ordered
<1>6. seq \in Int
  BY <1>3, <1>4
<1>7. ASSUME NEW i \in 1 .. Len(window)
      PROVE  window[i].seq <= seq <=> i <= keep
  <2>1. CASE keep = 0
    <3>1. seq = window[1].seq - 1
      BY <2>1
    <3>2. i = 1 \/ window[1].seq < window[i].seq
      BY <1>3, <1>5
    <3> HIDE DEF seq
    <3> QED
      BY <2>1, <3>1, <3>2, <1>3, <1>4
  <2>2. CASE keep # 0
    <3>1. seq = window[keep].seq /\ keep \in 1 .. Len(window)
      BY <2>2, <1>3
    <3>2. i < keep => window[i].seq < window[keep].seq
      BY <3>1, <1>5
    <3>3. keep < i => window[keep].seq < window[i].seq
      BY <3>1, <1>5
    <3> HIDE DEF seq
    <3> QED
      BY <3>1, <3>2, <3>3, <1>3, <1>4
  <2> QED
    BY <2>1, <2>2
<1> HIDE DEF seq
<1>8. SeatsOf(lq', window', "load") /\ lq' \in LsqQueue(LqSize)
  BY <1>1, <1>2, <1>3, <1>6, <1>7, SeatsSquash
<1>9. SeatsOf(sq', window', "store") /\ sq' \in LsqQueue(SqSize)
  BY <1>1, <1>2, <1>3, <1>6, <1>7, SeatsSquash
<1>10. /\ window' \in Seq(InFlight) /\ Len(window') = keep
       /\ \A i \in 1 .. keep : i \in 1 .. Len(window) /\ window'[i] = window[i]
  BY <1>1, <1>2, <1>3, PrefixFacts
<1>11. TypeOK'
  BY <1>1, <1>8, <1>9, <1>10 DEF Inv, TypeOK
<1>12. Order'
  BY <1>1, <1>10 DEF Inv, Order, Ordered
<1> QED
  BY <1>8, <1>9, <1>11, <1>12 DEF Inv, Seats

\* A halt empties both queues.
LEMMA HaltInv ==
  ASSUME Inv, Halt
  PROVE  Inv'
<1>1. /\ lq' = Clear(lq) /\ sq' = Clear(sq) /\ window' = <<>> /\ mode' = "done"
      /\ mem' = mem /\ nextSeq' = nextSeq /\ retired' = retired
  BY DEF Halt
<1>2. ASSUME NEW cap \in Nat \ {0}, NEW q \in LsqQueue(cap)
      PROVE  Clear(q) \in LsqQueue(cap) /\ Clear(q).count = 0
  <2> DEFINE zero == 0
  <2>1. /\ q = [cap |-> q.cap, head |-> q.head, count |-> q.count, slots |-> q.slots]
        /\ q.cap = cap /\ q.slots \in [0 .. cap - 1 -> LsqEntry]
    BY DEF LsqQueue
  <2>2. Clear(q) = [q EXCEPT !.head = zero, !.count = zero]
    BY DEF Clear
  <2>3. zero \in 0 .. cap - 1 /\ zero \in 0 .. cap
    OBVIOUS
  <2> HIDE DEF zero
  <2>4. Clear(q) = [cap |-> q.cap, head |-> zero, count |-> zero, slots |-> q.slots]
    BY <2>1, <2>2
  <2> QED
    BY <2>1, <2>3, <2>4 DEF LsqQueue, zero
<1>3. /\ lq' \in LsqQueue(LqSize) /\ lq'.count = 0
      /\ sq' \in LsqQueue(SqSize) /\ sq'.count = 0
  BY <1>1, <1>2, QueuesAssumption DEF Inv, TypeOK
<1>4. SeatsOf(lq', <<>>, "load") /\ SeatsOf(sq', <<>>, "store")
  BY <1>3, SeatsNone
<1>5. TypeOK'
  BY <1>1, <1>3 DEF Inv, TypeOK
<1>6. Order'
  BY <1>1 DEF Inv, Order, Ordered
<1> QED
  BY <1>1, <1>4, <1>5, <1>6 DEF Inv, Seats

\* No step leaves the invariant.
LEMMA NextInv == Inv /\ [Next]_vars => Inv'
<1> SUFFICES ASSUME Inv, [Next]_vars
             PROVE  Inv'
  OBVIOUS
<1>1. ASSUME NEW op \in Ops, Dispatch(op)
      PROVE  Inv'
  BY <1>1, DispatchInv
<1>2. ASSUME NEW i \in 1 .. Len(window), IssueStore(i)
      PROVE  Inv'
  BY <1>2, IssueStoreInv
<1>3. ASSUME NEW i \in 1 .. Len(window), IssueLoad(i)
      PROVE  Inv'
  BY <1>3, IssueLoadInv
<1>4. CASE Commit
  BY <1>4, CommitInv
<1>5. ASSUME NEW keep \in 0 .. Len(window) - 1, Recover(keep)
      PROVE  Inv'
  BY <1>5, RecoverInv
<1>6. CASE Halt
  BY <1>6, HaltInv
<1>7. CASE UNCHANGED vars
  <2>1. /\ lq' = lq /\ sq' = sq /\ mem' = mem /\ window' = window /\ nextSeq' = nextSeq
        /\ retired' = retired /\ mode' = mode
    BY <1>7 DEF vars
  <2> QED
    BY <2>1 DEF Inv, TypeOK, Seats, Order, Ordered
<1> QED
  BY <1>1, <1>2, <1>3, <1>4, <1>5, <1>6, <1>7 DEF Next, Advance

\* What the invariant says of the seats.
LEMMA SeatsFromInv == Inv => SeatsAreOwn
<1> SUFFICES ASSUME Inv
             PROVE  SeatsAreOwn
  OBVIOUS
<1>1. window \in Seq(InFlight) /\ SeatsOf(lq, window, "load") /\ SeatsOf(sq, window, "store")
  BY DEF Inv, TypeOK, Seats
<1>2. \A i \in 1 .. Len(window) : window[i].kind \in {"load", "store"}
  <2>1. \A i \in 1 .. Len(window) : window[i] \in InFlight
    BY <1>1
  <2> QED
    BY <2>1 DEF InFlight
<1>3. ASSUME NEW i \in 1 .. Len(window)
      PROVE  LET u == window[i]
                 q == IF u.kind = "load" THEN lq ELSE sq
             IN /\ u.idx = (q.head + Before(window, i, u.kind)) % q.cap
                /\ q.slots[u.idx].seq = u.seq
  <2>1. CASE window[i].kind = "load"
    BY <2>1, <1>1 DEF SeatsOf, Holds
  <2>2. CASE window[i].kind = "store"
    BY <2>2, <1>1 DEF SeatsOf, Holds
  <2> QED
    BY <2>1, <2>2, <1>2
<1> QED
  BY <1>1, <1>3 DEF SeatsAreOwn, SeatsOf

\* The queues keep it from their construction on, whatever order loads and stores
\* execute, commit and are squashed in.
LEMMA InvHolds == Spec => []Inv
<1> QED
  BY InitInv, NextInv, PTL DEF Spec

(***************************************************************************)
(* The queues, memory and the accesses in flight keep their types: no      *)
(* allocation overfills a queue, whatever was squashed and popped between. *)
(***************************************************************************)
THEOREM TypeCorrect == Spec => []TypeOK
<1>1. Inv => TypeOK
  BY DEF Inv
<1> QED
  BY <1>1, InvHolds, PTL

(***************************************************************************)
(* Each access in flight keeps the entry dispatch() gave it, at the index  *)
(* it was told, in a ring of any size, through every wrap, pop and squash: *)
(* issue() resolves its own entry and commit() pops and writes its own.    *)
(***************************************************************************)
THEOREM OwnSeats == Spec => []SeatsAreOwn
BY InvHolds, SeatsFromInv, PTL

-----------------------------------------------------------------------------
(* Loads and memory. *)

(***************************************************************************)
(* No access of the program runs over the end of the address space.  The   *)
(* search compares 64 bit sums while memory wraps at 32 bits, so without   *)
(* this a load may read stale bytes (MCLoadStoreQueuesWrap.cfg).           *)
(***************************************************************************)
OpsInside == \A op \in Ops : op.addr + op.size <= AddrMod

\* An access in flight stays inside the address space.
LEMMA FlightInside ==
  ASSUME Inv, OpsInside, NEW i \in 1 .. Len(window)
  PROVE  /\ window[i] \in InFlight
         /\ window[i].addr + window[i].size <= AddrMod
<1>1. window[i] \in InFlight
  BY DEF Inv, TypeOK
<1>2. [kind |-> window[i].kind, addr |-> window[i].addr, size |-> window[i].size] \in Ops
  BY DEF Inv, Order
<1> QED
  BY <1>1, <1>2 DEF OpsInside

\* A store that is disjoint from a load writes none of its bytes, one that
\* covers it writes them all, each from its own place.
LEMMA DisjointOrCovered ==
  ASSUME NEW u \in InFlight, u.addr + u.size <= AddrMod,
         NEW s \in InFlight, s.addr + s.size <= AddrMod,
         NEW k \in 0 .. u.size - 1
  PROVE  /\ (u.addr + k) % AddrMod = u.addr + k /\ u.addr + k \in Addr
         /\ Disjoint(s, u) => ~Writes(s, u.addr + k)
         /\ Covers(s, u) /\ s.kind = "store" =>
              /\ Writes(s, u.addr + k)
              /\ ByteAt(s, u.addr + k) = Promise!Stored(s.seq, s.size)[u.addr - s.addr + k]
<1>1. /\ AddrMod \in Nat \ {0} /\ Addr = 0 .. AddrMod - 1
      /\ u.addr \in Addr /\ u.size \in 1 .. AddrMod /\ s.addr \in Addr /\ s.size \in 1 .. AddrMod
  BY QueuesAssumption DEF InFlight, Addr, Promise!Addr
<1> DEFINE a == u.addr + k
<1>2. a \in 0 .. AddrMod - 1
  BY <1>1
<1>3. a % AddrMod = a
  BY <1>1, <1>2, ModInside
<1>4. /\ (a - s.addr) % AddrMod < s.size <=> s.addr <= a /\ a < s.addr + s.size
      /\ s.addr <= a => (a - s.addr) % AddrMod = a - s.addr
  <2>1. a \in Addr /\ s.addr \in Addr /\ s.size \in 1 .. AddrMod
    BY <1>1, <1>2
  <2> HIDE DEF a
  <2> QED
    BY <2>1, InsideCovers
<1>5. Disjoint(s, u) => ~(s.addr <= a /\ a < s.addr + s.size)
  BY <1>1 DEF Disjoint
<1>6. Covers(s, u) => s.addr <= a /\ a < s.addr + s.size /\ a - s.addr = u.addr - s.addr + k
  BY <1>1 DEF Covers
<1>7. a \in Addr
  BY <1>1, <1>2
<1> DEFINE r == (a - s.addr) % AddrMod
<1>8. (r < s.size <=> s.addr <= a /\ a < s.addr + s.size) /\ (s.addr <= a => r = a - s.addr)
  BY <1>4
<1>9. (Writes(s, a) <=> s.kind = "store" /\ r < s.size)
      /\ ByteAt(s, a) = Promise!Stored(s.seq, s.size)[r]
  BY DEF Writes, ByteAt
<1> HIDE DEF a, r
<1>10. /\ a % AddrMod = a /\ a \in Addr
       /\ Disjoint(s, u) => ~Writes(s, a)
       /\ Covers(s, u) /\ s.kind = "store" =>
            /\ Writes(s, a)
            /\ ByteAt(s, a) = Promise!Stored(s.seq, s.size)[u.addr - s.addr + k]
  BY <1>3, <1>5, <1>6, <1>7, <1>8, <1>9
<1> QED
  BY <1>10 DEF a

\* A load read from memory while every older store was elsewhere.
LEMMA ReadIsRight ==
  ASSUME Inv, OpsInside, NEW i \in 1 .. Len(window), NEW m,
         \A j \in 1 .. i - 1 : window[j].kind = "store" => Disjoint(window[j], window[i])
  PROVE  Promise!Read(m, window[i].addr, window[i].size) =
           Promise!Read(MemoryBefore(m, window, i), window[i].addr, window[i].size)
<1> DEFINE u == window[i]
<1>0. Len(window) \in Nat
  BY DEF Inv, TypeOK
<1>1. ASSUME NEW k \in 0 .. u.size - 1
      PROVE  m[(u.addr + k) % AddrMod] = MemoryBefore(m, window, i)[(u.addr + k) % AddrMod]
  <2>1. u \in InFlight /\ u.addr + u.size <= AddrMod
    BY FlightInside
  <2>2. ASSUME NEW j \in 1 .. i - 1, window[j].kind = "store"
        PROVE  /\ (u.addr + k) % AddrMod = u.addr + k /\ u.addr + k \in Addr
               /\ ~Writes(window[j], u.addr + k)
    <3>1. j \in 1 .. Len(window)
      BY <1>0
    <3>2. window[j] \in InFlight /\ window[j].addr + window[j].size <= AddrMod
      BY <3>1, FlightInside
    <3>3. Disjoint(window[j], u)
      BY <2>2
    <3> HIDE DEF u
    <3> QED
      BY <2>1, <3>2, <3>3, DisjointOrCovered
  <2>3. (u.addr + k) % AddrMod = u.addr + k /\ u.addr + k \in Addr
    <3> HIDE DEF u
    <3> QED
      BY <2>1, DisjointOrCovered
  <2>4. Writers(window, i, u.addr + k) = {}
    <3>1. \A j \in 1 .. i - 1 : ~Writes(window[j], u.addr + k)
      BY <2>2 DEF Writes
    <3> QED
      BY <3>1 DEF Writers
  <2> QED
    BY <2>3, <2>4, MemoryUntouched
<1> QED
  BY <1>1 DEF Promise!Read

\* A load whose bytes a covering store handed over, nothing between the two
\* in the way.
LEMMA ForwardIsRight ==
  ASSUME Inv, OpsInside, NEW i \in 1 .. Len(window), NEW m,
         NEW j \in 1 .. i - 1, window[j].kind = "store", Covers(window[j], window[i]),
         \A l \in j + 1 .. i - 1 : window[l].kind = "store" => Disjoint(window[l], window[i])
  PROVE  [k \in 0 .. window[i].size - 1 |->
            Promise!Stored(window[j].seq, window[j].size)[window[i].addr - window[j].addr + k]]
         = Promise!Read(MemoryBefore(m, window, i), window[i].addr, window[i].size)
<1> DEFINE u == window[i]
           s == window[j]
<1>0. Len(window) \in Nat /\ i \in Nat \ {0} /\ j \in 1 .. Len(window)
  BY DEF Inv, TypeOK
<1>1. ASSUME NEW k \in 0 .. u.size - 1
      PROVE  Promise!Stored(s.seq, s.size)[u.addr - s.addr + k] =
               MemoryBefore(m, window, i)[(u.addr + k) % AddrMod]
  <2>1. /\ u \in InFlight /\ u.addr + u.size <= AddrMod
        /\ s \in InFlight /\ s.addr + s.size <= AddrMod
    BY <1>0, FlightInside
  <2>2. /\ (u.addr + k) % AddrMod = u.addr + k /\ u.addr + k \in Addr
        /\ Writes(s, u.addr + k)
        /\ ByteAt(s, u.addr + k) = Promise!Stored(s.seq, s.size)[u.addr - s.addr + k]
    <3>1. Covers(s, u) /\ s.kind = "store"
      OBVIOUS
    <3> HIDE DEF u, s
    <3> QED
      BY <2>1, <3>1, DisjointOrCovered
  <2>3. ASSUME NEW l \in j + 1 .. i - 1, window[l].kind = "store"
        PROVE  ~Writes(window[l], u.addr + k)
    <3>1. l \in 1 .. Len(window)
      BY <1>0
    <3>2. window[l] \in InFlight /\ window[l].addr + window[l].size <= AddrMod
      BY <3>1, FlightInside
    <3>3. Disjoint(window[l], u)
      BY <2>3
    <3> HIDE DEF u
    <3> QED
      BY <2>1, <3>2, <3>3, DisjointOrCovered
  <2>4. j \in Writers(window, i, u.addr + k)
    BY <2>2 DEF Writers
  <2>5. \A l \in Writers(window, i, u.addr + k) : l <= j
    <3> SUFFICES ASSUME NEW l \in Writers(window, i, u.addr + k), ~(l <= j)
                 PROVE  FALSE
      OBVIOUS
    <3>1. l \in 1 .. i - 1 /\ window[l].kind = "store" /\ Writes(window[l], u.addr + k)
      BY DEF Writers, Writes
    <3>2. l \in j + 1 .. i - 1
      BY <3>1, <1>0
    <3> QED
      BY <3>1, <3>2, <2>3
  <2>6. MemoryBefore(m, window, i)[u.addr + k] = ByteAt(s, u.addr + k)
    BY <1>0, <2>2, <2>4, <2>5, MemoryYoungest
  <2> QED
    BY <2>2, <2>6
<1> QED
  BY <1>1 DEF Promise!Read

\* A load in flight reads what it read, while nothing older changes.
LEMMA ReadsKept ==
  ASSUME Inv, LoadsReadProgramOrder, NEW n \in 0 .. Len(window),
         Len(window') = n, mem' = mem,
         \A i \in 1 .. n : /\ window'[i].kind = window[i].kind
                           /\ window'[i].addr = window[i].addr
                           /\ window'[i].size = window[i].size
                           /\ window'[i].seq = window[i].seq
                           /\ window[i].kind = "load" =>
                                /\ window'[i].done <=> window[i].done
                                /\ window'[i].value = window[i].value
  PROVE  LoadsReadProgramOrder'
<1>1. Len(window) \in Nat
  BY DEF Inv, TypeOK
<1>2. ASSUME NEW i \in 1 .. n, window'[i].kind = "load", window'[i].done
      PROVE  window'[i].value =
               Promise!Read(MemoryBefore(mem, window', i), window'[i].addr, window'[i].size)
  <2>1. i \in 1 .. Len(window) /\ i \in Nat \ {0}
    BY <1>1
  <2>2. window[i].value =
          Promise!Read(MemoryBefore(mem, window, i), window[i].addr, window[i].size)
    BY <1>2, <2>1 DEF LoadsReadProgramOrder
  <2>3. MemoryBefore(mem, window', i) = MemoryBefore(mem, window, i)
    <3>1. \A j \in 1 .. i - 1 : j \in 1 .. n
      BY <2>1, <1>1
    <3> QED
      BY <2>1, <3>1, MemorySame
  <2> QED
    BY <1>2, <2>2, <2>3
<1> QED
  BY <1>2 DEF LoadsReadProgramOrder

\* A load that goes away with bytes goes away with the right ones.
LEMMA IssueLoadReads ==
  ASSUME Inv, OpsInside, LoadsReadProgramOrder, NEW i \in 1 .. Len(window), IssueLoad(i)
  PROVE  LoadsReadProgramOrder'
<1> DEFINE u == window[i]
           right == Promise!Read(MemoryBefore(mem, window, i), u.addr, u.size)
<1>1. mem' = mem
  BY DEF IssueLoad
<1>2. window \in Seq(InFlight) /\ Len(window) \in Nat
  BY DEF Inv, TypeOK
<1>3. window' = window \/ window' = [window EXCEPT ![i].done = TRUE, ![i].value = right]
  <2>1. CASE window' = window
    BY <2>1
  <2>2. CASE \E j \in 1 .. i - 1 :
               /\ window[j].kind = "store" /\ Covers(window[j], u)
               /\ \A l \in j + 1 .. i - 1 :
                    window[l].kind = "store" => Disjoint(window[l], u)
               /\ window' = [window EXCEPT ![i].done = TRUE, ![i].value =
                    [k \in 0 .. u.size - 1 |->
                       Promise!Stored(window[j].seq, window[j].size)[u.addr - window[j].addr + k]]]
    <3>1. PICK j \in 1 .. i - 1 :
               /\ window[j].kind = "store" /\ Covers(window[j], u)
               /\ \A l \in j + 1 .. i - 1 :
                    window[l].kind = "store" => Disjoint(window[l], u)
               /\ window' = [window EXCEPT ![i].done = TRUE, ![i].value =
                    [k \in 0 .. u.size - 1 |->
                       Promise!Stored(window[j].seq, window[j].size)[u.addr - window[j].addr + k]]]
      BY <2>2
    <3>2. [k \in 0 .. u.size - 1 |->
             Promise!Stored(window[j].seq, window[j].size)[u.addr - window[j].addr + k]] = right
      BY <3>1, ForwardIsRight
    <3> QED
      BY <3>1, <3>2
  <2>3. CASE /\ \A j \in 1 .. i - 1 : window[j].kind = "store" => Disjoint(window[j], u)
             /\ window' = [window EXCEPT ![i].done = TRUE,
                                         ![i].value = Promise!Read(mem, u.addr, u.size)]
    <3>1. Promise!Read(mem, u.addr, u.size) = right
      BY <2>3, ReadIsRight
    <3> QED
      BY <2>3, <3>1
  <2> QED
    BY <2>1, <2>2, <2>3, IssueLoadCases
<1> HIDE DEF right
<1>4. CASE window' = window
  BY <1>1, <1>2, <1>4, ReadsKept
<1>5. CASE window' = [window EXCEPT ![i].done = TRUE, ![i].value = right]
  <2> DEFINE e == [u EXCEPT !.done = TRUE, !.value = right]
  <2>1. u \in InFlight
    BY <1>2
  <2>2. /\ e.kind = u.kind /\ e.addr = u.addr /\ e.size = u.size /\ e.seq = u.seq
        /\ e.value = right
    BY <2>1 DEF InFlight
  <2>3. window' = [window EXCEPT ![i] = e]
    BY <1>5
  <2> HIDE DEF e
  <2>4. /\ Len(window') = Len(window) /\ window'[i] = e
        /\ \A j \in 1 .. Len(window) : j # i => window'[j] = window[j]
    BY <1>2, <2>3
  <2>5. ASSUME NEW j \in 1 .. Len(window), window'[j].kind = "load", window'[j].done
        PROVE  window'[j].value =
                 Promise!Read(MemoryBefore(mem, window', j), window'[j].addr, window'[j].size)
    <3>1. MemoryBefore(mem, window', j) = MemoryBefore(mem, window, j)
      <4>1. \A l \in 1 .. j - 1 : l \in 1 .. Len(window)
        BY <1>2
      <4>2. \A l \in 1 .. j - 1 :
              /\ window'[l].kind = window[l].kind /\ window'[l].addr = window[l].addr
              /\ window'[l].size = window[l].size /\ window'[l].seq = window[l].seq
        BY <2>2, <2>4, <4>1
      <4>3. j \in Nat \ {0}
        BY <1>2
      <4> QED
        BY <4>2, <4>3, MemorySame
    <3>2. CASE j = i
      BY <3>1, <3>2, <2>2, <2>4 DEF right
    <3>3. CASE j # i
      <4>1. window[j].value =
              Promise!Read(MemoryBefore(mem, window, j), window[j].addr, window[j].size)
        BY <2>4, <2>5, <3>3 DEF LoadsReadProgramOrder
      <4> QED
        BY <3>1, <3>3, <4>1, <2>4
    <3> QED
      BY <3>2, <3>3
  <2> QED
    BY <2>4, <2>5, <1>1 DEF LoadsReadProgramOrder
<1> QED
  BY <1>3, <1>4, <1>5

\* The oldest access commits: what it did is memory now.
LEMMA CommitReads ==
  ASSUME Inv, LoadsReadProgramOrder, Commit
  PROVE  LoadsReadProgramOrder'
<1>1. window # <<>> /\ window' = Tail(window) /\ mem' = Committed(mem, window[1])
  BY CommitFacts
<1>2. window \in Seq(InFlight) /\ mem \in [Addr -> Byte]
  BY DEF Inv, TypeOK
<1>3. /\ Len(window) \in Nat \ {0} /\ Len(window') = Len(window) - 1
      /\ \A i \in 1 .. Len(window) - 1 : window'[i] = window[i + 1]
  BY <1>1, <1>2, WindowTail
<1>4. ASSUME NEW i \in 1 .. Len(window'), window'[i].kind = "load", window'[i].done
      PROVE  window'[i].value =
               Promise!Read(MemoryBefore(mem', window', i), window'[i].addr, window'[i].size)
  <2>1. i \in 1 .. Len(window) /\ i + 1 \in 1 .. Len(window) /\ window'[i] = window[i + 1]
    BY <1>3
  <2>2. window[i + 1].value =
          Promise!Read(MemoryBefore(mem, window, i + 1), window[i + 1].addr, window[i + 1].size)
    BY <1>4, <2>1 DEF LoadsReadProgramOrder
  <2>3. MemoryBefore(mem', window', i) = MemoryBefore(mem, window, i + 1)
    BY <1>1, <1>2, <2>1, MemoryShift
  <2> QED
    BY <2>1, <2>2, <2>3
<1> QED
  BY <1>4 DEF LoadsReadProgramOrder

\* Loads keep reading what program order gives them.
LEMMA NextReads ==
  ASSUME Inv, OpsInside, LoadsReadProgramOrder, [Next]_vars
  PROVE  LoadsReadProgramOrder'
<1>0. window \in Seq(InFlight) /\ Len(window) \in Nat
  BY DEF Inv, TypeOK
<1>1. ASSUME NEW op \in Ops, Dispatch(op)
      PROVE  LoadsReadProgramOrder'
  <2>1. /\ mem' = mem
        /\ \E u : /\ window' = Append(window, u) /\ ~u.done
    BY <1>1 DEF Dispatch
  <2>2. PICK u : window' = Append(window, u) /\ ~u.done
    BY <2>1
  <2>3. /\ Len(window') = Len(window) + 1 /\ window'[Len(window) + 1] = u
        /\ \A i \in 1 .. Len(window) : window'[i] = window[i]
    BY <1>0, <2>2
  <2>4. ASSUME NEW i \in 1 .. Len(window'), window'[i].kind = "load", window'[i].done
        PROVE  window'[i].value =
                 Promise!Read(MemoryBefore(mem', window', i), window'[i].addr, window'[i].size)
    <3>1. i \in 1 .. Len(window) /\ window'[i] = window[i]
      BY <1>0, <2>2, <2>3, <2>4
    <3>2. window[i].value =
            Promise!Read(MemoryBefore(mem, window, i), window[i].addr, window[i].size)
      BY <2>4, <3>1 DEF LoadsReadProgramOrder
    <3>3. MemoryBefore(mem, window', i) = MemoryBefore(mem, window, i)
      <4>1. i \in Nat \ {0} /\ \A j \in 1 .. i - 1 : window'[j] = window[j]
        BY <1>0, <2>3, <3>1
      <4> QED
        BY <4>1, MemorySame
    <3> QED
      BY <2>1, <3>1, <3>2, <3>3
  <2> QED
    BY <2>4 DEF LoadsReadProgramOrder
<1>2. ASSUME NEW i \in 1 .. Len(window), IssueStore(i)
      PROVE  LoadsReadProgramOrder'
  <2>1. window' = [window EXCEPT ![i].done = TRUE] /\ window[i].kind = "store" /\ mem' = mem
    BY <1>2 DEF IssueStore
  <2>2. /\ Len(window') = Len(window)
        /\ window'[i] = [window[i] EXCEPT !.done = TRUE]
        /\ \A j \in 1 .. Len(window) : j # i => window'[j] = window[j]
    BY <1>0, <2>1, WindowDone
  <2>3. window[i] \in InFlight
    BY <1>0
  <2>4. /\ window'[i].kind = window[i].kind /\ window'[i].addr = window[i].addr
        /\ window'[i].size = window[i].size /\ window'[i].seq = window[i].seq
    BY <2>2, <2>3 DEF InFlight
  <2> QED
    BY <1>0, <2>1, <2>2, <2>4, ReadsKept
<1>3. ASSUME NEW i \in 1 .. Len(window), IssueLoad(i)
      PROVE  LoadsReadProgramOrder'
  BY <1>3, IssueLoadReads
<1>4. CASE Commit
  BY <1>4, CommitReads
<1>5. ASSUME NEW keep \in 0 .. Len(window) - 1, Recover(keep)
      PROVE  LoadsReadProgramOrder'
  <2>1. window' = SubSeq(window, 1, keep) /\ mem' = mem
    BY <1>5 DEF Recover
  <2>2. keep \in 0 .. Len(window)
    BY <1>0
  <2>3. Len(window') = keep /\ \A i \in 1 .. keep : window'[i] = window[i]
    BY <1>0, <2>1, <2>2, PrefixFacts
  <2> QED
    BY <2>1, <2>2, <2>3, ReadsKept
<1>6. CASE Halt
  BY <1>6 DEF Halt, LoadsReadProgramOrder
<1>7. CASE UNCHANGED vars
  BY <1>7 DEF vars, LoadsReadProgramOrder
<1> QED
  BY <1>1, <1>2, <1>3, <1>4, <1>5, <1>6, <1>7 DEF Next, Advance

\* At the start no load has its bytes.
LEMMA InitReads == Init => LoadsReadProgramOrder
BY DEF Init, LoadsReadProgramOrder

(***************************************************************************)
(* A load that has its bytes has the ones program order gives it, whatever *)
(* the order of issue, the stores that committed since and the branches    *)
(* that were squashed: what lsq.h claims of FORWARD, NO_MATCH and REPLAY.  *)
(***************************************************************************)
THEOREM ReadsAreRight ==
  ASSUME OpsInside
  PROVE  Spec => []LoadsReadProgramOrder
<1>1. Inv /\ LoadsReadProgramOrder /\ [Next]_vars => LoadsReadProgramOrder'
  BY NextReads
<1> QED
  BY <1>1, InitReads, InvHolds, PTL DEF Spec

\* Every step of the queues is a step of the in-order memory or none at all.
LEMMA NextRefines ==
  ASSUME Inv, LoadsReadProgramOrder, [Next]_vars
  PROVE  [Promise!Next]_<<mem, retired>>
<1>1. CASE Commit
  <2> DEFINE u == window[1]
             op == [kind |-> u.kind, addr |-> u.addr, size |-> u.size]
  <2>1. /\ window # <<>> /\ u.done
        /\ retired' = [seq |-> u.seq, value |-> u.value]
        /\ mem' = Committed(mem, u)
    BY <1>1, CommitFacts
  <2>2. window \in Seq(InFlight) /\ mem \in [Addr -> Byte]
    BY DEF Inv, TypeOK
  <2>3. 1 \in 1 .. Len(window) /\ u \in InFlight
    BY <2>1, <2>2
  <2>4. u.kind \in {"load", "store"} /\ u.seq \in Promise!Seqs
    BY <2>3 DEF InFlight, Promise!Seqs
  <2>5. op \in Ops /\ retired.seq < u.seq /\ (u.kind = "store" => u.value = <<>>)
    BY <2>3 DEF Inv, Order, NoData
  <2>6. MemoryBefore(mem, window, 1) = mem
    <3>1. \A a \in Addr : Writers(window, 1, a) = {}
      BY DEF Writers
    <3> QED
      BY <2>2, <3>1 DEF MemoryBefore
  <2>7. CASE u.kind = "load"
    <3>1. u.value = Promise!Read(mem, u.addr, u.size)
      BY <2>1, <2>3, <2>6, <2>7 DEF LoadsReadProgramOrder
    <3>2. Promise!Load(op, u.seq)
      BY <2>1, <2>7, <3>1 DEF Promise!Load, Committed
    <3> QED
      BY <2>4, <2>5, <3>2 DEF Promise!Next
  <2>8. CASE u.kind = "store"
    <3>1. Promise!Store(op, u.seq)
      BY <2>1, <2>5, <2>8 DEF Promise!Store, Committed
    <3> QED
      BY <2>4, <2>5, <3>1 DEF Promise!Next
  <2> QED
    BY <2>4, <2>7, <2>8
<1>2. CASE ~Commit
  <2>1. mem' = mem /\ retired' = retired
    BY <1>2 DEF Next, Advance, Dispatch, IssueStore, IssueLoad, Recover, Halt, vars
  <2> QED
    BY <2>1
<1> QED
  BY <1>1, <1>2

(***************************************************************************)
(* Out-of-order issue, forwarding, replay, squashes and halts are invisible*)
(* in memory: the accesses commit() retires, with the bytes the loads read,*)
(* are an execution of InOrderMemory, one access at a time.                *)
(***************************************************************************)
THEOREM RefinesInOrder ==
  ASSUME OpsInside
  PROVE  Spec => ImplementsInOrder
<1>1. Init => Promise!Init
  BY DEF Init
<1>2. Inv /\ LoadsReadProgramOrder /\ [Next]_vars => [Promise!Next]_<<mem, retired>>
  BY NextRefines
<1>3. Spec => []LoadsReadProgramOrder
  BY ReadsAreRight
<1> QED
  BY <1>1, <1>2, <1>3, InvHolds, PTL DEF Spec, ImplementsInOrder, Promise!Spec

-----------------------------------------------------------------------------
(* The loop of search_older_stores(), turn by turn. *)

WalkStart == [out |-> NoMatch, ambiguous |-> FALSE, over |-> FALSE]
WalkTurn(g, q, ld, k) ==
  IF k = 0 THEN WalkStart ELSE WalkStep(g[k - 1], Nth(q, k - 1), ld)

\* The loop has a result.
LEMMA WalkExists ==
  ASSUME NEW q, NEW ld, NEW n \in Nat
  PROVE  \E g : g = [k \in 0 .. n |-> WalkTurn(g, q, ld, k)]
<1> DEFINE P == {j \in Nat : \E g : /\ g = [k \in 0 .. n |-> g[k]]
                                    /\ \A k \in 0 .. n : k <= j => g[k] = WalkTurn(g, q, ld, k)}
<1>1. 0 \in P
  <2> DEFINE g == [k \in 0 .. n |-> WalkStart]
  <2>1. g = [k \in 0 .. n |-> g[k]] /\ \A k \in 0 .. n : k <= 0 => g[k] = WalkTurn(g, q, ld, k)
    BY DEF WalkTurn
  <2> HIDE DEF g
  <2> QED
    BY <2>1
<1>2. ASSUME NEW j \in Nat, j \in P PROVE j + 1 \in P
  <2>1. PICK g : /\ g = [k \in 0 .. n |-> g[k]]
                 /\ \A k \in 0 .. n : k <= j => g[k] = WalkTurn(g, q, ld, k)
    BY <1>2
  <2> DEFINE h == [k \in 0 .. n |-> IF k <= j THEN g[k] ELSE WalkTurn(g, q, ld, k)]
  <2>2. /\ h = [k \in 0 .. n |-> h[k]]
        /\ \A k \in 0 .. n : h[k] = IF k <= j THEN g[k] ELSE WalkTurn(g, q, ld, k)
    OBVIOUS
  <2> HIDE DEF h
  <2>3. ASSUME NEW k \in 0 .. n, k <= j + 1
        PROVE  h[k] = WalkTurn(h, q, ld, k)
    <3>1. h[k] = WalkTurn(g, q, ld, k)
      BY <2>1, <2>2
    <3>2. CASE k = 0
      BY <3>1, <3>2 DEF WalkTurn
    <3>3. CASE k # 0
      <4>1. k - 1 \in 0 .. n /\ k - 1 <= j
        BY <2>3, <3>3
      <4>2. h[k - 1] = g[k - 1]
        BY <2>2, <4>1
      <4> QED
        BY <3>1, <3>3, <4>2 DEF WalkTurn
    <3> QED
      BY <3>2, <3>3
  <2> QED
    BY <2>2, <2>3
<1> HIDE DEF P
<1>3. n \in P
  BY <1>1, <1>2, Induction
<1>4. PICK g : /\ g = [k \in 0 .. n |-> g[k]]
               /\ \A k \in 0 .. n : k <= n => g[k] = WalkTurn(g, q, ld, k)
  BY <1>3 DEF P
<1>5. \A k \in 0 .. n : g[k] = WalkTurn(g, q, ld, k)
  BY <1>4
<1> QED
  BY <1>4, <1>5

\* What the loop is left with after k turns.
LEMMA WalkTurns ==
  ASSUME NEW q, q.count \in Nat, NEW ld
  PROVE  \E g : /\ \A k \in 0 .. q.count : g[k] = WalkTurn(g, q, ld, k)
                /\ Walk(q, ld) = IF ~ld.addrReady \/ g[q.count].ambiguous
                                 THEN Replay ELSE g[q.count].out
<1> DEFINE g == CHOOSE f : f = [k \in 0 .. q.count |-> WalkTurn(f, q, ld, k)]
<1>1. g = [k \in 0 .. q.count |-> WalkTurn(g, q, ld, k)]
  BY WalkExists
<1>2. Walk(q, ld) = IF ~ld.addrReady \/ g[q.count].ambiguous THEN Replay ELSE g[q.count].out
  BY DEF Walk, WalkTurn, WalkStart
<1> HIDE DEF g
<1>3. \A k \in 0 .. q.count : g[k] = WalkTurn(g, q, ld, k)
  BY <1>1
<1> QED
  BY <1>2, <1>3

\* The stores among the k oldest that are older than the load and may conflict.
Conflicts(q, ld, k) ==
  {j \in 0 .. k - 1 : Nth(q, j).seq < ld.seq /\ MayConflict(Nth(q, j), ld)}

(***************************************************************************)
(* What the locals of the loop say after k turns: `over`, that a younger   *)
(* store has been met; out and ambiguous, what the youngest conflict so    *)
(* far decides.                                                            *)
(***************************************************************************)
Decides(acc, q, ld, k) ==
  /\ DOMAIN acc = {"out", "ambiguous", "over"}
  /\ acc.ambiguous \in BOOLEAN
  /\ acc.over \in BOOLEAN
  /\ acc.over <=> \E j \in 0 .. k - 1 : Nth(q, j).seq > ld.seq
  /\ Conflicts(q, ld, k) = {} => ~acc.ambiguous /\ acc.out = NoMatch
  /\ \A y \in Conflicts(q, ld, k) :
       (\A j \in Conflicts(q, ld, k) : j <= y) =>
         IF Settles(Nth(q, y), ld) THEN ~acc.ambiguous /\ acc.out = Forward(Nth(q, y), ld)
         ELSE acc.ambiguous

\* What one turn makes of the locals, on store st.
OneTurn(acc, new, st, ld) ==
  /\ DOMAIN new = {"out", "ambiguous", "over"} /\ new.ambiguous \in BOOLEAN
  /\ new.over \in BOOLEAN /\ (new.over <=> acc.over \/ st.seq > ld.seq)
  /\ new.over \/ ~MayConflict(st, ld) => new.ambiguous = acc.ambiguous /\ new.out = acc.out
  /\ ~new.over /\ MayConflict(st, ld) =>
       IF Settles(st, ld) THEN ~new.ambiguous /\ new.out = Forward(st, ld) ELSE new.ambiguous

LEMMA StepFacts ==
  ASSUME NEW acc, DOMAIN acc = {"out", "ambiguous", "over"}, acc.over \in BOOLEAN,
         acc.ambiguous \in BOOLEAN, NEW st, NEW ld
  PROVE  OneTurn(acc, WalkStep(acc, st, ld), st, ld)
<1> SUFFICES ASSUME NEW new, new = WalkStep(acc, st, ld)
             PROVE  OneTurn(acc, new, st, ld)
  OBVIOUS
<1>1. CASE acc.over \/ st.seq > ld.seq
  <2>1. new = [acc EXCEPT !.over = TRUE]
    BY <1>1 DEF WalkStep
  <2>2. /\ DOMAIN new = {"out", "ambiguous", "over"} /\ new.out = acc.out
        /\ new.ambiguous = acc.ambiguous /\ new.over = TRUE
    BY <2>1
  <2> QED
    BY <1>1, <2>2 DEF OneTurn, MayConflict, Settles
<1>2. CASE ~(acc.over \/ st.seq > ld.seq) /\ ~st.addrReady
  <2>1. new = [acc EXCEPT !.ambiguous = TRUE]
    BY <1>2 DEF WalkStep
  <2>2. /\ DOMAIN new = {"out", "ambiguous", "over"} /\ new.out = acc.out
        /\ new.ambiguous = TRUE /\ new.over = acc.over
    BY <2>1
  <2> QED
    BY <1>2, <2>2 DEF OneTurn, MayConflict, Settles
<1>3. CASE ~(acc.over \/ st.seq > ld.seq) /\ st.addrReady /\ Disjoint(st, ld)
  <2>1. new = acc
    BY <1>3 DEF WalkStep
  <2>2. /\ DOMAIN new = {"out", "ambiguous", "over"} /\ new.out = acc.out
        /\ new.ambiguous = acc.ambiguous /\ new.over = acc.over
    BY <2>1
  <2> QED
    BY <1>3, <2>2 DEF OneTurn, MayConflict, Settles
<1>4. CASE ~(acc.over \/ st.seq > ld.seq) /\ st.addrReady /\ ~Disjoint(st, ld)
           /\ Covers(st, ld) /\ st.dataReady
  <2>1. new = [acc EXCEPT !.out = Forward(st, ld), !.ambiguous = FALSE]
    BY <1>4 DEF WalkStep
  <2>2. /\ DOMAIN new = {"out", "ambiguous", "over"} /\ new.out = Forward(st, ld)
        /\ new.ambiguous = FALSE /\ new.over = acc.over
    BY <2>1
  <2> QED
    BY <1>4, <2>2 DEF OneTurn, MayConflict, Settles
<1>5. CASE ~(acc.over \/ st.seq > ld.seq) /\ st.addrReady /\ ~Disjoint(st, ld)
           /\ ~(Covers(st, ld) /\ st.dataReady)
  <2>1. PICK o : new = [acc EXCEPT !.out = o, !.ambiguous = TRUE]
    BY <1>5 DEF WalkStep
  <2>2. /\ DOMAIN new = {"out", "ambiguous", "over"} /\ new.out = o
        /\ new.ambiguous = TRUE /\ new.over = acc.over
    BY <2>1
  <2> QED
    BY <1>5, <2>2 DEF OneTurn, MayConflict, Settles
<1> QED
  BY <1>1, <1>2, <1>3, <1>4, <1>5

\* The stores are in program order, and none is the load.
InOrderAround(q, ld) ==
  /\ ld.seq \in Int
  /\ \A j \in 0 .. q.count - 1 : Nth(q, j).seq \in Int /\ Nth(q, j).seq # ld.seq
  /\ \A j, k \in 0 .. q.count - 1 : j < k => Nth(q, j).seq < Nth(q, k).seq

\* One turn keeps the reading of the locals.
LEMMA DecidesNext ==
  ASSUME NEW q, q.count \in Nat, NEW ld, InOrderAround(q, ld),
         NEW k \in 0 .. q.count - 1, NEW acc, Decides(acc, q, ld, k)
  PROVE  Decides(WalkStep(acc, Nth(q, k), ld), q, ld, k + 1)
<1> SUFFICES ASSUME NEW new, new = WalkStep(acc, Nth(q, k), ld)
             PROVE  Decides(new, q, ld, k + 1)
  OBVIOUS
<1> DEFINE st == Nth(q, k)
           C == Conflicts(q, ld, k)
           D == Conflicts(q, ld, k + 1)
<1>1. OneTurn(acc, new, st, ld)
  BY StepFacts DEF Decides
<1>2. \A j \in 0 .. (k + 1) - 1 : j \in 0 .. k - 1 \/ j = k
  OBVIOUS
<1>3. \A j \in 0 .. k - 1 : j \in 0 .. (k + 1) - 1 /\ j < k /\ j \in 0 .. q.count - 1
  OBVIOUS
<1>4. k \in 0 .. (k + 1) - 1
  OBVIOUS
<1>5. new.over <=> \E j \in 0 .. (k + 1) - 1 : Nth(q, j).seq > ld.seq
  BY <1>1, <1>2, <1>3, <1>4 DEF OneTurn, Decides
<1>6. new.over <=> ~(st.seq < ld.seq)
  <2>1. st.seq \in Int /\ ld.seq \in Int /\ st.seq # ld.seq
    BY DEF InOrderAround
  <2>2. ASSUME acc.over PROVE st.seq > ld.seq
    <3>1. PICK j \in 0 .. k - 1 : Nth(q, j).seq > ld.seq
      BY <2>2 DEF Decides
    <3>2. Nth(q, j).seq < st.seq /\ Nth(q, j).seq \in Int
      BY <1>3 DEF InOrderAround
    <3> QED
      BY <2>1, <3>1, <3>2
  <2> QED
    BY <1>1, <2>1, <2>2 DEF OneTurn
<1>7. D = IF ~new.over /\ MayConflict(st, ld) THEN C \cup {k} ELSE C
  BY <1>2, <1>3, <1>4, <1>6 DEF Conflicts
<1>8. \A j \in C : j < k /\ j \in Nat
  BY <1>3 DEF Conflicts
<1>9. CASE ~new.over /\ MayConflict(st, ld)
  <2>1. k \in D /\ D # {} /\ \A y \in D : (\A j \in D : j <= y) => y = k
    BY <1>7, <1>8, <1>9
  <2>2. IF Settles(st, ld) THEN ~new.ambiguous /\ new.out = Forward(st, ld) ELSE new.ambiguous
    BY <1>1, <1>9 DEF OneTurn
  <2> HIDE DEF D
  <2>3. \A y \in D : (\A j \in D : j <= y) =>
          IF Settles(Nth(q, y), ld) THEN ~new.ambiguous /\ new.out = Forward(Nth(q, y), ld)
          ELSE new.ambiguous
    BY <2>1, <2>2
  <2> QED
    BY <1>1, <1>5, <2>1, <2>3 DEF Decides, OneTurn, D
<1>10. CASE new.over \/ ~MayConflict(st, ld)
  <2>1. D = C /\ new.ambiguous = acc.ambiguous /\ new.out = acc.out
    BY <1>1, <1>7, <1>10 DEF OneTurn
  <2>2. /\ C = {} => ~acc.ambiguous /\ acc.out = NoMatch
        /\ \A y \in C : (\A j \in C : j <= y) =>
             IF Settles(Nth(q, y), ld) THEN ~acc.ambiguous /\ acc.out = Forward(Nth(q, y), ld)
             ELSE acc.ambiguous
    BY DEF Decides
  <2> HIDE DEF C
  <2>3. /\ D = {} => ~new.ambiguous /\ new.out = NoMatch
        /\ \A y \in D : (\A j \in D : j <= y) =>
             IF Settles(Nth(q, y), ld) THEN ~new.ambiguous /\ new.out = Forward(Nth(q, y), ld)
             ELSE new.ambiguous
    BY <2>1, <2>2
  <2> QED
    BY <1>1, <1>5, <2>3 DEF Decides, OneTurn
<1> QED
  BY <1>9, <1>10

\* So does the whole loop.
LEMMA WalkDecides ==
  ASSUME NEW q, q.count \in Nat, NEW ld, InOrderAround(q, ld),
         NEW g, \A k \in 0 .. q.count : g[k] = WalkTurn(g, q, ld, k)
  PROVE  Decides(g[q.count], q, ld, q.count)
<1> DEFINE P == {k \in Nat : k <= q.count => Decides(g[k], q, ld, k)}
<1>1. 0 \in P
  <2>1. g[0] = WalkStart
    BY DEF WalkTurn
  <2>2. Conflicts(q, ld, 0) = {}
    BY DEF Conflicts
  <2>3. ~\E j \in 0 .. 0 - 1 : Nth(q, j).seq > ld.seq
    OBVIOUS
  <2>4. Decides(WalkStart, q, ld, 0)
    BY <2>2, <2>3 DEF Decides, WalkStart
  <2> QED
    BY <2>1, <2>4
<1>2. ASSUME NEW k \in Nat, k \in P PROVE k + 1 \in P
  <2> SUFFICES ASSUME k + 1 <= q.count PROVE Decides(g[k + 1], q, ld, k + 1)
    OBVIOUS
  <2>1. k \in 0 .. q.count - 1 /\ k + 1 \in 0 .. q.count /\ k + 1 # 0 /\ (k + 1) - 1 = k
    OBVIOUS
  <2>2. g[k + 1] = WalkStep(g[k], Nth(q, k), ld)
    BY <2>1 DEF WalkTurn
  <2>3. Decides(g[k], q, ld, k)
    BY <1>2, <2>1
  <2> QED
    BY <2>1, <2>2, <2>3, DecidesNext
<1> HIDE DEF P
<1>3. q.count \in P
  BY <1>1, <1>2, Induction
<1> QED
  BY <1>3 DEF P

(***************************************************************************)
(* search_older_stores(): its loop, with its break, its two locals and the *)
(* store that shadows the ones before it, finds what the youngest older    *)
(* store that may conflict decides.                                        *)
(***************************************************************************)
LEMMA SearchIsWalk ==
  ASSUME NEW q, q.count \in Nat, NEW ld, InOrderAround(q, ld)
  PROVE  SearchOlderStores(q, ld) = Walk(q, ld)
<1> DEFINE C == Conflicts(q, ld, q.count)
           y == CHOOSE k \in C : \A j \in C : j <= k
<1>1. PICK g : /\ \A k \in 0 .. q.count : g[k] = WalkTurn(g, q, ld, k)
               /\ Walk(q, ld) = IF ~ld.addrReady \/ g[q.count].ambiguous
                                THEN Replay ELSE g[q.count].out
  BY WalkTurns
<1>2. Decides(g[q.count], q, ld, q.count)
  BY <1>1, WalkDecides
<1>3. SearchOlderStores(q, ld) = IF ~ld.addrReady THEN Replay
                                 ELSE IF C = {} THEN NoMatch
                                 ELSE IF Settles(Nth(q, y), ld) THEN Forward(Nth(q, y), ld)
                                 ELSE Replay
  BY DEF SearchOlderStores, Conflicts
<1>4. C # {} => y \in C /\ \A j \in C : j <= y
  <2>1. C \in SUBSET (0 .. q.count)
    BY DEF Conflicts
  <2>2. C # {} => \E k \in C : \A j \in C : j <= k
    BY <2>1, GreatestElement
  <2> QED
    BY <2>2
<1>5. CASE ~ld.addrReady
  BY <1>1, <1>3, <1>5
<1>6. CASE ld.addrReady /\ C = {}
  BY <1>1, <1>2, <1>3, <1>6 DEF Decides
<1>7. CASE ld.addrReady /\ C # {}
  <2> HIDE DEF y
  <2>1. IF Settles(Nth(q, y), ld)
        THEN ~g[q.count].ambiguous /\ g[q.count].out = Forward(Nth(q, y), ld)
        ELSE g[q.count].ambiguous
    BY <1>2, <1>4, <1>7 DEF Decides
  <2> QED
    BY <1>1, <1>3, <1>7, <2>1
<1> QED
  BY <1>5, <1>6, <1>7

\* The store queue is in program order around any load in flight.
LEMMA QueueOrdered ==
  ASSUME NEW cap \in Nat \ {0}, NEW q \in LsqQueue(cap), NEW w \in Seq(InFlight),
         SeatsOf(q, w, "store"), Ordered(w),
         NEW i \in 1 .. Len(w), w[i].kind = "load", NEW ld, ld.seq = w[i].seq
  PROVE  q.count \in Nat /\ InOrderAround(q, ld)
<1>1. q.count \in Nat /\ Len(w) \in Nat
  BY DEF LsqQueue
<1>2. \A j \in 1 .. Len(w) : w[j].seq \in Int /\ w[j] \in InFlight
  <2>1. \A v \in InFlight : v.seq \in Int
    BY DEF InFlight
  <2>2. \A j \in 1 .. Len(w) : w[j] \in InFlight
    OBVIOUS
  <2> QED
    BY <2>1, <2>2
<1>3. ASSUME NEW k \in 0 .. q.count - 1
      PROVE  \E j \in 1 .. Len(w) : /\ w[j].kind = "store" /\ Before(w, j, "store") = k
                                    /\ Nth(q, k).seq = w[j].seq
  <2>1. PICK j \in 1 .. Len(w) : w[j].kind = "store" /\ Before(w, j, "store") = k
    BY DEF SeatsOf
  <2>2. Nth(q, k) = q.slots[w[j].idx]
    BY <2>1, SeatFacts
  <2>3. Holds(q.slots[w[j].idx], w[j])
    BY <2>1 DEF SeatsOf
  <2> QED
    BY <2>1, <2>2, <2>3 DEF Holds
<1>4. ASSUME NEW k \in 0 .. q.count - 1
      PROVE  Nth(q, k).seq \in Int /\ Nth(q, k).seq # ld.seq
  <2>1. PICK j \in 1 .. Len(w) : w[j].kind = "store" /\ Nth(q, k).seq = w[j].seq
    BY <1>3
  <2>2. j # i /\ (j < i \/ i < j)
    BY <1>1, <2>1
  <2> QED
    BY <1>2, <2>1, <2>2 DEF Ordered
<1>5. ASSUME NEW j \in 0 .. q.count - 1, NEW k \in 0 .. q.count - 1, j < k
      PROVE  Nth(q, j).seq < Nth(q, k).seq
  <2>1. PICK a \in 1 .. Len(w) : /\ w[a].kind = "store" /\ Before(w, a, "store") = j
                                 /\ Nth(q, j).seq = w[a].seq
    BY <1>3
  <2>2. PICK b \in 1 .. Len(w) : /\ w[b].kind = "store" /\ Before(w, b, "store") = k
                                 /\ Nth(q, k).seq = w[b].seq
    BY <1>3
  <2>3. a < b
    <3>1. CASE b <= a
      <4>1. b \in 1 .. a /\ a \in Nat \ {0}
        BY <1>1, <3>1
      <4>2. Before(w, b, "store") <= Before(w, a, "store")
        BY <4>1, BeforeGrows
      <4> QED
        BY <1>5, <2>1, <2>2, <4>2
    <3> QED
      BY <1>1, <3>1
  <2> QED
    BY <2>1, <2>2, <2>3 DEF Ordered
<1>6. ld.seq \in Int
  BY <1>2
<1> QED
  BY <1>1, <1>4, <1>5, <1>6 DEF InOrderAround

(***************************************************************************)
(* For every load in flight and whatever the store queue holds, of any     *)
(* size and however it has wrapped, the search as the model states it and  *)
(* the loop of search_older_stores() give the same answer and bytes.       *)
(***************************************************************************)
THEOREM SearchIsTheLoop == Spec => []SearchIsTheWalk
<1>1. Inv => SearchIsTheWalk
  <2> SUFFICES ASSUME Inv, NEW i \in 1 .. Len(window), window[i].kind = "load",
                      NEW ld, ld = ResolveAddr(lq, window[i].idx, window[i].addr).slots[window[i].idx]
               PROVE  SearchOlderStores(sq, ld) = Walk(sq, ld)
    BY DEF SearchIsTheWalk
  <2>1. /\ lq \in LsqQueue(LqSize) /\ sq \in LsqQueue(SqSize) /\ window \in Seq(InFlight)
        /\ LqSize \in Nat \ {0} /\ SqSize \in Nat \ {0}
        /\ SeatsOf(lq, window, "load") /\ SeatsOf(sq, window, "store") /\ Ordered(window)
    BY QueuesAssumption DEF Inv, TypeOK, Seats, Order
  <2>2. window[i].idx \in 0 .. LqSize - 1
    BY <2>1, SeatFacts
  <2>3. window[i].addr \in Addr
    <3>1. window[i] \in InFlight
      BY <2>1
    <3> QED
      BY <3>1 DEF InFlight
  <2>4. ld.seq = lq.slots[window[i].idx].seq
    BY <2>1, <2>2, <2>3, ResolveAddrFacts
  <2>5. ld.seq = window[i].seq
    BY <2>1, <2>4 DEF SeatsOf, Holds
  <2>6. sq.count \in Nat /\ InOrderAround(sq, ld)
    BY <2>1, <2>5, QueueOrdered
  <2> QED
    BY <2>6, SearchIsWalk
<1> QED
  BY <1>1, InvHolds, PTL
=============================================================================
