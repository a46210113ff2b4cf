------------------------ MODULE PipelineQueuesProofs ------------------------
(***************************************************************************)
(* Where everything in flight is: the queues of the pipeline hold exactly  *)
(* the instructions the states of the reorder buffer say they hold, each   *)
(* once, and the memory queues the accesses dispatched, in program order   *)
(* and at the seats they remember, for every configuration and program.    *)
(***************************************************************************)
EXTENDS PipelineProofs, NumberFacts

-----------------------------------------------------------------------------
(* LsqQueue, one operation at a time, over entries whose other fields may  *)
(* hold anything.                                                          *)

Entries(X) == [seq : Nat, addr : X, size : X, data : X, addrReady : X, dataReady : X]

Rings(cap, X) ==
  [cap : {cap}, head : 0 .. cap - 1, count : 0 .. cap, slots : [0 .. cap - 1 -> Entries(X)]]

Slot(q, k) == (q.head + k) % q.cap

\* Who sits where: a sequence number with the index of its slot.
Seats(q) == {<<Q!Nth(q, k).seq, Slot(q, k)>> : k \in 0 .. q.count - 1}

\* The seats of the accesses not younger than seq, and of all but seq's.
Elders(S, seq) == {p \in S : p[1] <= seq}
Others(S, seq) == {p \in S : p[1] # seq}

\* Older accesses sit in front of younger ones.
Seniority(q) == \A j, k \in 0 .. q.count - 1 : j < k => Q!Nth(q, j).seq < Q!Nth(q, k).seq

\* A queue of the configured size.
IsRing(q, cap) == (\E X : q \in Rings(cap, X)) /\ Seniority(q)

\* Its fields.
LEMMA RingFields ==
  ASSUME NEW cap \in Nat \ {0}, NEW X, NEW q \in Rings(cap, X)
  PROVE  /\ q.cap = cap /\ q.head \in 0 .. cap - 1 /\ q.count \in 0 .. cap
         /\ q.slots \in [0 .. cap - 1 -> Entries(X)]
         /\ q = [cap |-> q.cap, head |-> q.head, count |-> q.count, slots |-> q.slots]
         /\ \A k \in 0 .. q.count - 1 :
              /\ Slot(q, k) \in 0 .. cap - 1
              /\ Q!Nth(q, k) = q.slots[Slot(q, k)]
              /\ Q!Nth(q, k) \in Entries(X) /\ Q!Nth(q, k).seq \in Nat
<1>1. /\ q.cap = cap /\ q.head \in 0 .. cap - 1 /\ q.count \in 0 .. cap
      /\ q.slots \in [0 .. cap - 1 -> Entries(X)]
      /\ q = [cap |-> q.cap, head |-> q.head, count |-> q.count, slots |-> q.slots]
  BY DEF Rings
<1>2. ASSUME NEW k \in 0 .. q.count - 1
      PROVE  /\ Slot(q, k) \in 0 .. cap - 1
             /\ Q!Nth(q, k) = q.slots[Slot(q, k)]
             /\ Q!Nth(q, k) \in Entries(X) /\ Q!Nth(q, k).seq \in Nat
  <2>1. k \in 0 .. cap
    BY <1>1
  <2>2. Slot(q, k) \in 0 .. cap - 1
    BY <1>1, <2>1, RingSlot DEF Slot
  <2>3. Q!Nth(q, k) = q.slots[Slot(q, k)]
    BY DEF Q!Nth, Slot
  <2>4. q.slots[Slot(q, k)] \in Entries(X)
    BY <1>1, <2>2
  <2> QED
    BY <2>2, <2>3, <2>4 DEF Entries
<1> QED
  BY <1>1, <1>2

\* Two positions of a ring are two slots.
LEMMA RingDistinct ==
  ASSUME NEW c \in Nat \ {0}, NEW h \in 0 .. c - 1,
         NEW a \in 0 .. c - 1, NEW b \in 0 .. c - 1, a # b
  PROVE  (h + a) % c # (h + b) % c
<1>1. a \in 0 .. c /\ b \in 0 .. c
  OBVIOUS
<1>2. (h + a) % c = IF h + a < c THEN h + a ELSE h + a - c
  BY <1>1, RingSlot
<1>3. (h + b) % c = IF h + b < c THEN h + b ELSE h + b - c
  BY <1>1, RingSlot
<1> QED
  BY <1>2, <1>3

\* A slot keeps its place while the head moves on.
LEMMA RingNext ==
  ASSUME NEW c \in Nat \ {0}, NEW h \in 0 .. c - 1, NEW b \in 1 .. c
  PROVE  (((h + 1) % c) + (b - 1)) % c = (h + b) % c
<1> DEFINE g == (h + 1) % c
<1>1. 1 \in 0 .. c /\ b \in 0 .. c /\ b - 1 \in 0 .. c
  OBVIOUS
<1>2. g = (IF h + 1 < c THEN h + 1 ELSE h + 1 - c) /\ g \in 0 .. c - 1
  BY <1>1, RingSlot
<1>3. (h + b) % c = IF h + b < c THEN h + b ELSE h + b - c
  BY <1>1, RingSlot
<1> HIDE DEF g
<1>4. (g + (b - 1)) % c = IF g + (b - 1) < c THEN g + (b - 1) ELSE g + (b - 1) - c
  BY <1>1, <1>2, RingSlot
<1> QED
  BY <1>2, <1>3, <1>4 DEF g

\* alloc() seats the youngest access behind the others.
LEMMA RingAlloc ==
  ASSUME NEW cap \in Nat \ {0}, NEW q, IsRing(q, cap), ~Q!Full(q),
         NEW seq \in Nat, NEW size, \A p \in Seats(q) : p[1] < seq
  PROVE  /\ IsRing(Q!Alloc(q, seq, size), cap)
         /\ Q!Tailed(q) \in 0 .. cap - 1
         /\ Q!Alloc(q, seq, size).slots[Q!Tailed(q)] = Q!Fresh(seq, size)
         /\ \A k \in 0 .. cap - 1 :
              k # Q!Tailed(q) => Q!Alloc(q, seq, size).slots[k] = q.slots[k]
         /\ Seats(Q!Alloc(q, seq, size)) = Seats(q) \cup {<<seq, Q!Tailed(q)>>}
         /\ \A p \in Seats(q) : p[2] # Q!Tailed(q)
<1> PICK X : q \in Rings(cap, X)
  BY DEF IsRing
<1> DEFINE t == Q!Tailed(q)
           e == Q!Fresh(seq, size)
           r == Q!Alloc(q, seq, size)
           n == q.count
           Y == X \cup {0, size, Q!NoData, FALSE}
<1>1. /\ q.cap = cap /\ q.head \in 0 .. cap - 1 /\ n \in 0 .. cap
      /\ q.slots \in [0 .. cap - 1 -> Entries(X)]
      /\ q = [cap |-> q.cap, head |-> q.head, count |-> n, slots |-> q.slots]
  BY RingFields
<1>2. n < cap /\ n \in 0 .. cap - 1
  BY <1>1 DEF Q!Full
<1>3. t = Slot(q, n) /\ t \in 0 .. cap - 1
  BY <1>1, RingSlot DEF Q!Tailed, Slot
<1>4. e \in Entries(Y) /\ e.seq = seq
  BY DEF Q!Fresh, Entries
<1>5. q.slots \in [0 .. cap - 1 -> Entries(Y)]
  <2>1. Entries(X) \subseteq Entries(Y)
    BY DEF Entries
  <2> QED
    BY <1>1, <2>1
<1>6. r = [q EXCEPT !.slots[t] = e, !.count = @ + 1]
  BY DEF Q!Alloc
<1> HIDE DEF t, e, Y
<1>7. r = [cap |-> q.cap, head |-> q.head, count |-> n + 1, slots |-> [q.slots EXCEPT ![t] = e]]
  BY <1>1, <1>6
<1> HIDE DEF r, n
<1>8. r.slots \in [0 .. cap - 1 -> Entries(Y)] /\ r.slots[t] = e
      /\ \A k \in 0 .. cap - 1 : k # t => r.slots[k] = q.slots[k]
  BY <1>3, <1>4, <1>5, <1>7
<1>9. r.cap = cap /\ r.head = q.head /\ r.count = n + 1 /\ r \in Rings(cap, Y)
  BY <1>1, <1>2, <1>7, <1>8 DEF Rings
<1>10. ASSUME NEW k \in 0 .. n - 1
       PROVE  /\ Slot(r, k) = Slot(q, k) /\ Slot(q, k) # t
              /\ Q!Nth(r, k) = Q!Nth(q, k) /\ Q!Nth(q, k).seq \in Nat
  <2>1. Slot(r, k) = Slot(q, k)
    BY <1>1, <1>9 DEF Slot
  <2>2. k \in 0 .. cap - 1 /\ k # n
    BY <1>2
  <2>3. Slot(q, k) # t
    BY <1>1, <1>2, <1>3, <2>2, RingDistinct DEF Slot
  <2>4. /\ Slot(q, k) \in 0 .. cap - 1 /\ Q!Nth(q, k) = q.slots[Slot(q, k)]
        /\ Q!Nth(q, k).seq \in Nat
    BY RingFields DEF n
  <2>5. Q!Nth(r, k) = r.slots[Slot(r, k)]
    BY DEF Q!Nth, Slot
  <2> QED
    BY <1>8, <2>1, <2>3, <2>4, <2>5
<1>11. Slot(r, n) = t /\ Q!Nth(r, n) = e
  BY <1>1, <1>3, <1>8, <1>9 DEF Slot, Q!Nth
<1>12. \A k \in 0 .. n - 1 : Q!Nth(q, k).seq < seq
  <2> TAKE k \in 0 .. n - 1
  <2>1. <<Q!Nth(q, k).seq, Slot(q, k)>> \in Seats(q)
    BY DEF Seats, n
  <2> QED
    BY <2>1
<1>13. \A k \in 0 .. r.count - 1 : k \in 0 .. n - 1 \/ k = n
  BY <1>2, <1>9
<1>14. ASSUME NEW j \in 0 .. r.count - 1, NEW k \in 0 .. r.count - 1, j < k
       PROVE  Q!Nth(r, j).seq < Q!Nth(r, k).seq
  <2>1. j \in 0 .. n - 1
    BY <1>2, <1>9, <1>14
  <2>2. CASE k \in 0 .. n - 1
    <3>1. Q!Nth(q, j).seq < Q!Nth(q, k).seq
      BY <1>14, <2>1, <2>2 DEF IsRing, Seniority, n
    <3> QED
      BY <1>10, <2>1, <2>2, <3>1
  <2>3. CASE k = n
    <3>1. Q!Nth(r, j) = Q!Nth(q, j) /\ Q!Nth(r, k).seq = seq
      BY <1>4, <1>10, <1>11, <2>1, <2>3
    <3> QED
      BY <1>12, <2>1, <3>1
  <2> QED
    BY <1>13, <2>2, <2>3
<1>15. IsRing(r, cap)
  BY <1>9, <1>14 DEF IsRing, Seniority
<1>16. Seats(r) = Seats(q) \cup {<<seq, t>>}
  <2>1. \A k \in 0 .. n - 1 : k \in 0 .. r.count - 1
    BY <1>9, <1>2
  <2>2. n \in 0 .. r.count - 1
    BY <1>9, <1>2
  <2>3. ASSUME NEW p \in Seats(r) PROVE p \in Seats(q) \cup {<<seq, t>>}
    <3>1. PICK k \in 0 .. r.count - 1 : p = <<Q!Nth(r, k).seq, Slot(r, k)>>
      BY DEF Seats
    <3>2. CASE k \in 0 .. n - 1
      BY <1>10, <3>1, <3>2 DEF Seats, n
    <3>3. CASE k = n
      BY <1>4, <1>11, <3>1, <3>3
    <3> QED
      BY <1>13, <3>2, <3>3
  <2>4. ASSUME NEW p \in Seats(q) PROVE p \in Seats(r)
    <3>1. PICK k \in 0 .. n - 1 : p = <<Q!Nth(q, k).seq, Slot(q, k)>>
      BY DEF Seats, n
    <3> QED
      BY <1>10, <2>1, <3>1 DEF Seats
  <2>5. <<seq, t>> \in Seats(r)
    BY <1>4, <1>11, <2>2 DEF Seats
  <2> QED
    BY <2>3, <2>4, <2>5
<1>17. \A p \in Seats(q) : p[2] # t
  <2> TAKE p \in Seats(q)
  <2>1. PICK k \in 0 .. n - 1 : p = <<Q!Nth(q, k).seq, Slot(q, k)>>
    BY DEF Seats, n
  <2> QED
    BY <1>10, <2>1
<1> QED
  BY <1>3, <1>8, <1>15, <1>16, <1>17 DEF t, e, r

\* pop_head() takes the seat of the oldest away.
LEMMA RingPop ==
  ASSUME NEW cap \in Nat \ {0}, NEW q, IsRing(q, cap), q.count # 0
  PROVE  /\ IsRing(Q!PopHead(q), cap)
         /\ Q!PopHead(q).slots = q.slots
         /\ <<Q!Nth(q, 0).seq, Slot(q, 0)>> \in Seats(q)
         /\ \A p \in Seats(q) : Q!Nth(q, 0).seq <= p[1]
         /\ Seats(Q!PopHead(q)) = Others(Seats(q), Q!Nth(q, 0).seq)
<1> PICK X : q \in Rings(cap, X)
  BY DEF IsRing
<1> DEFINE g == (q.head + 1) % cap
           r == Q!PopHead(q)
           n == q.count
<1>1. /\ q.cap = cap /\ q.head \in 0 .. cap - 1 /\ n \in 1 .. cap
      /\ q.slots \in [0 .. cap - 1 -> Entries(X)]
      /\ q = [cap |-> q.cap, head |-> q.head, count |-> n, slots |-> q.slots]
  BY RingFields
<1>2. g \in 0 .. cap - 1
  BY <1>1, ModRange
<1>3. r = [q EXCEPT !.head = g, !.count = n - 1]
  BY <1>1 DEF Q!PopHead
<1> HIDE DEF g
<1>4. r = [cap |-> q.cap, head |-> g, count |-> n - 1, slots |-> q.slots]
  BY <1>1, <1>3
<1> HIDE DEF r, n
<1>5. r.cap = cap /\ r.head = g /\ r.count = n - 1 /\ r.slots = q.slots /\ r \in Rings(cap, X)
  BY <1>1, <1>2, <1>4 DEF Rings
<1>6. ASSUME NEW k \in 0 .. r.count - 1
      PROVE  /\ k + 1 \in 0 .. n - 1
             /\ Slot(r, k) = Slot(q, k + 1) /\ Q!Nth(r, k) = Q!Nth(q, k + 1)
  <2>1. k + 1 \in 0 .. n - 1 /\ k + 1 \in 1 .. cap /\ (k + 1) - 1 = k
    BY <1>1, <1>5
  <2>2. (g + ((k + 1) - 1)) % cap = (q.head + (k + 1)) % cap
    BY <1>1, <2>1, RingNext DEF g
  <2>3. Slot(r, k) = Slot(q, k + 1)
    BY <1>1, <1>5, <2>1, <2>2 DEF Slot
  <2> QED
    BY <1>5, <2>1, <2>3 DEF Q!Nth, Slot
<1>7. \A k \in 0 .. n - 1 : k = 0 \/ (k - 1 \in 0 .. r.count - 1 /\ (k - 1) + 1 = k)
  BY <1>1, <1>5
<1>8. 0 \in 0 .. n - 1
  BY <1>1
<1>9. \A k \in 0 .. n - 1 : Q!Nth(q, k).seq \in Nat
  BY RingFields DEF n
<1>10. \A k \in 0 .. n - 1 : k # 0 => Q!Nth(q, 0).seq < Q!Nth(q, k).seq
  BY <1>8 DEF IsRing, Seniority, n
<1>11. IsRing(r, cap)
  <2>1. ASSUME NEW j \in 0 .. r.count - 1, NEW k \in 0 .. r.count - 1, j < k
        PROVE  Q!Nth(r, j).seq < Q!Nth(r, k).seq
    <3>1. j + 1 < k + 1
      BY <2>1
    <3>2. Q!Nth(q, j + 1).seq < Q!Nth(q, k + 1).seq
      BY <1>6, <3>1 DEF IsRing, Seniority, n
    <3> QED
      BY <1>6, <3>2
  <2> QED
    BY <1>5, <2>1 DEF IsRing, Seniority
<1>12. /\ <<Q!Nth(q, 0).seq, Slot(q, 0)>> \in Seats(q)
       /\ \A p \in Seats(q) : Q!Nth(q, 0).seq <= p[1]
  <2>1. <<Q!Nth(q, 0).seq, Slot(q, 0)>> \in Seats(q)
    BY <1>8 DEF Seats, n
  <2>2. ASSUME NEW p \in Seats(q) PROVE Q!Nth(q, 0).seq <= p[1]
    <3>1. PICK k \in 0 .. n - 1 : p = <<Q!Nth(q, k).seq, Slot(q, k)>>
      BY DEF Seats, n
    <3>2. Q!Nth(q, 0).seq <= Q!Nth(q, k).seq
      BY <1>8, <1>9, <1>10
    <3> QED
      BY <3>1, <3>2
  <2> QED
    BY <2>1, <2>2
<1>13. Seats(r) = {p \in Seats(q) : p[1] # Q!Nth(q, 0).seq}
  <2>1. ASSUME NEW p \in Seats(r) PROVE p \in Seats(q) /\ p[1] # Q!Nth(q, 0).seq
    <3>1. PICK k \in 0 .. r.count - 1 : p = <<Q!Nth(r, k).seq, Slot(r, k)>>
      BY DEF Seats
    <3>2. p = <<Q!Nth(q, k + 1).seq, Slot(q, k + 1)>> /\ k + 1 \in 0 .. n - 1 /\ k + 1 # 0
      BY <1>6, <3>1
    <3>3. Q!Nth(q, 0).seq < Q!Nth(q, k + 1).seq
      BY <1>10, <3>2
    <3> QED
      BY <1>8, <1>9, <3>2, <3>3 DEF Seats, n
  <2>2. ASSUME NEW p \in Seats(q), p[1] # Q!Nth(q, 0).seq PROVE p \in Seats(r)
    <3>1. PICK k \in 0 .. n - 1 : p = <<Q!Nth(q, k).seq, Slot(q, k)>>
      BY DEF Seats, n
    <3>2. k - 1 \in 0 .. r.count - 1 /\ (k - 1) + 1 = k
      BY <1>7, <2>2, <3>1
    <3>3. Q!Nth(r, k - 1) = Q!Nth(q, k) /\ Slot(r, k - 1) = Slot(q, k)
      BY <1>6, <3>2
    <3> QED
      BY <3>1, <3>2, <3>3 DEF Seats
  <2> QED
    BY <2>1, <2>2
<1> QED
  BY <1>5, <1>11, <1>12, <1>13 DEF r, Others

\* squash_after() takes the seats of the younger accesses away, and no others.
LEMMA RingSquash ==
  ASSUME NEW cap \in Nat \ {0}, NEW q, IsRing(q, cap), NEW seq \in Nat
  PROVE  /\ IsRing(Q!SquashAfter(q, seq), cap)
         /\ Q!SquashAfter(q, seq).slots = q.slots
         /\ Seats(Q!SquashAfter(q, seq)) = Elders(Seats(q), seq)
<1> PICK X : q \in Rings(cap, X)
  BY DEF IsRing
<1> DEFINE n == q.count
           Cut(c) == /\ \A k \in c .. n - 1 : Q!Nth(q, k).seq > seq
                     /\ c > 0 => Q!Nth(q, c - 1).seq <= seq
           d == CHOOSE c \in 0 .. n : Cut(c)
           r == Q!SquashAfter(q, seq)
<1>1. /\ q.cap = cap /\ q.head \in 0 .. cap - 1 /\ n \in 0 .. cap
      /\ q.slots \in [0 .. cap - 1 -> Entries(X)]
      /\ q = [cap |-> q.cap, head |-> q.head, count |-> n, slots |-> q.slots]
      /\ \A k \in 0 .. n - 1 : Q!Nth(q, k).seq \in Nat
  BY RingFields
<1>2. r = [q EXCEPT !.count = d]
  BY DEF Q!SquashAfter
<1>3. d \in 0 .. n /\ Cut(d)
  <2> DEFINE T == {c \in 0 .. n : \A k \in c .. n - 1 : Q!Nth(q, k).seq > seq}
  <2>1. n \in T
    BY <1>1
  <2>2. T \in SUBSET Nat /\ T # {}
    BY <1>1, <2>1
  <2>3. PICK c \in T : \A y \in T : c <= y
    <3> HIDE DEF T
    <3> QED
      BY <2>2, LeastElement, Zenon
  <2>4. ASSUME c > 0 PROVE Q!Nth(q, c - 1).seq <= seq
    <3>1. c - 1 \in 0 .. n - 1 /\ \A k \in c - 1 .. n - 1 : k = c - 1 \/ k \in c .. n - 1
      BY <1>1, <2>3, <2>4
    <3>2. c - 1 \notin T
      BY <2>3, <2>4
    <3>3. PICK k \in c - 1 .. n - 1 : ~(Q!Nth(q, k).seq > seq)
      BY <1>1, <3>1, <3>2
    <3>4. k = c - 1
      BY <2>3, <3>1, <3>3
    <3> QED
      BY <1>1, <3>1, <3>3, <3>4
  <2>5. c \in 0 .. n /\ Cut(c)
    BY <2>3, <2>4
  <2> QED
    BY <2>5
<1> HIDE DEF d
<1>4. r = [cap |-> q.cap, head |-> q.head, count |-> d, slots |-> q.slots]
  BY <1>1, <1>2
<1> HIDE DEF r, n
<1>5. r.cap = cap /\ r.head = q.head /\ r.count = d /\ r.slots = q.slots /\ r \in Rings(cap, X)
  BY <1>1, <1>3, <1>4 DEF Rings
<1>6. \A k : Slot(r, k) = Slot(q, k) /\ Q!Nth(r, k) = Q!Nth(q, k)
  BY <1>1, <1>5 DEF Slot, Q!Nth
<1>7. \A k \in 0 .. d - 1 : k \in 0 .. n - 1
  BY <1>1, <1>3
<1>8. ASSUME NEW k \in 0 .. n - 1
      PROVE  k < d <=> Q!Nth(q, k).seq <= seq
  <2>1. CASE k < d
    <3>1. d - 1 \in 0 .. n - 1 /\ d > 0 /\ (k = d - 1 \/ k < d - 1)
      BY <1>1, <1>3, <2>1
    <3>2. Q!Nth(q, d - 1).seq <= seq
      BY <1>3, <3>1
    <3>3. k # d - 1 => Q!Nth(q, k).seq < Q!Nth(q, d - 1).seq
      BY <3>1 DEF IsRing, Seniority, n
    <3> QED
      BY <1>1, <2>1, <3>1, <3>2, <3>3
  <2>2. CASE ~(k < d)
    <3>1. k \in d .. n - 1
      BY <1>1, <1>3, <2>2
    <3> QED
      BY <1>1, <1>3, <2>2, <3>1
  <2> QED
    BY <2>1, <2>2
<1>9. IsRing(r, cap)
  BY <1>5, <1>6, <1>7 DEF IsRing, Seniority, n
<1>10. Seats(r) = {p \in Seats(q) : p[1] <= seq}
  <2>1. ASSUME NEW p \in Seats(r) PROVE p \in Seats(q) /\ p[1] <= seq
    <3>1. PICK k \in 0 .. d - 1 : p = <<Q!Nth(q, k).seq, Slot(q, k)>>
      BY <1>5, <1>6 DEF Seats
    <3>2. k \in 0 .. n - 1 /\ k < d
      BY <1>3, <1>7
    <3> QED
      BY <1>8, <3>1, <3>2 DEF Seats, n
  <2>2. ASSUME NEW p \in Seats(q), p[1] <= seq PROVE p \in Seats(r)
    <3>1. PICK k \in 0 .. n - 1 : p = <<Q!Nth(q, k).seq, Slot(q, k)>>
      BY DEF Seats, n
    <3>2. k \in 0 .. d - 1
      BY <1>3, <1>8, <2>2, <3>1
    <3> QED
      BY <1>5, <1>6, <3>1, <3>2 DEF Seats
  <2> QED
    BY <2>1, <2>2
<1> QED
  BY <1>5, <1>9, <1>10 DEF r, Elders

Rewritten(q, idx, e) == [q EXCEPT !.slots = [q.slots EXCEPT ![idx] = e]]

\* An entry is rewritten and keeps its sequence number.
LEMMA RingRewrite ==
  ASSUME NEW cap \in Nat \ {0}, NEW q, IsRing(q, cap),
         NEW idx \in 0 .. cap - 1, NEW Y, NEW e \in Entries(Y), e.seq = q.slots[idx].seq,
         NEW r, r = Rewritten(q, idx, e)
  PROVE  /\ IsRing(r, cap) /\ Seats(r) = Seats(q)
         /\ r.slots[idx] = e
         /\ \A k \in 0 .. cap - 1 : k # idx => r.slots[k] = q.slots[k]
         /\ r.cap = q.cap /\ r.head = q.head /\ r.count = q.count
<1> PICK X : q \in Rings(cap, X)
  BY DEF IsRing
<1> DEFINE Z == X \cup Y
<1>1. /\ q.cap = cap /\ q.head \in 0 .. cap - 1 /\ q.count \in 0 .. cap
      /\ q.slots \in [0 .. cap - 1 -> Entries(X)]
      /\ q = [cap |-> q.cap, head |-> q.head, count |-> q.count, slots |-> q.slots]
  BY RingFields
<1>2. r = [cap |-> q.cap, head |-> q.head, count |-> q.count,
           slots |-> [q.slots EXCEPT ![idx] = e]]
  BY <1>1 DEF Rewritten
<1>3. Entries(X) \subseteq Entries(Z) /\ e \in Entries(Z)
  BY DEF Entries
<1> HIDE DEF Z
<1>4. /\ r.cap = q.cap /\ r.head = q.head /\ r.count = q.count
      /\ r.slots = [q.slots EXCEPT ![idx] = e]
  BY <1>2
<1>5. /\ r.slots \in [0 .. cap - 1 -> Entries(Z)] /\ r.slots[idx] = e
      /\ \A k \in 0 .. cap - 1 : k # idx => r.slots[k] = q.slots[k]
  BY <1>1, <1>3, <1>4
<1>6. r \in Rings(cap, Z)
  <2>1. r = [cap |-> q.cap, head |-> q.head, count |-> q.count, slots |-> r.slots]
    BY <1>2, <1>4
  <2> QED
    BY <1>1, <1>5, <2>1 DEF Rings
<1>7. ASSUME NEW k \in 0 .. q.count - 1
      PROVE  Slot(r, k) = Slot(q, k) /\ Q!Nth(r, k).seq = Q!Nth(q, k).seq
  <2>1. Slot(r, k) = Slot(q, k)
    BY <1>4 DEF Slot
  <2>2. Slot(q, k) \in 0 .. cap - 1 /\ Q!Nth(q, k) = q.slots[Slot(q, k)]
    BY RingFields
  <2>3. Q!Nth(r, k) = r.slots[Slot(q, k)]
    BY <2>1 DEF Q!Nth, Slot
  <2> QED
    BY <1>5, <2>1, <2>2, <2>3
<1>8. IsRing(r, cap)
  BY <1>4, <1>6, <1>7 DEF IsRing, Seniority
<1>9. Seats(r) = Seats(q)
  BY <1>4, <1>7 DEF Seats
<1> QED
  BY <1>4, <1>5, <1>8, <1>9

\* What an entry becomes once its address, or its data, is known.
WithAddr(e, addr) == [e EXCEPT !.addr = addr, !.addrReady = TRUE]
WithData(e, data) == [e EXCEPT !.data = data, !.dataReady = TRUE]

\* resolve_addr() and resolve_load_addr() touch one entry,
LEMMA RingAddr ==
  ASSUME NEW cap \in Nat \ {0}, NEW q, IsRing(q, cap), NEW idx \in 0 .. cap - 1, NEW addr
  PROVE  LET r == Q!ResolveAddr(q, idx, addr)
         IN  /\ IsRing(r, cap) /\ Seats(r) = Seats(q)
             /\ r.slots[idx] = WithAddr(q.slots[idx], addr)
             /\ \A k \in 0 .. cap - 1 : k # idx => r.slots[k] = q.slots[k]
             /\ r.cap = q.cap /\ r.head = q.head /\ r.count = q.count
             /\ \E Y : q.slots[idx] \in Entries(Y) /\ r.slots[idx] \in Entries(Y)
<1> PICK X : q \in Rings(cap, X)
  BY DEF IsRing
<1> DEFINE e == WithAddr(q.slots[idx], addr)
           Y == X \cup {addr, TRUE}
           r == Q!ResolveAddr(q, idx, addr)
<1>1. q.slots[idx] \in Entries(X) /\ "slots" \in DOMAIN q /\ idx \in DOMAIN q.slots
  BY RingFields DEF Rings
<1>2. e \in Entries(Y) /\ e.seq = q.slots[idx].seq
  BY <1>1 DEF Entries, WithAddr
<1>3. r = Rewritten(q, idx, e)
  BY <1>1 DEF Q!ResolveAddr, Entries, Rewritten, WithAddr
<1>4. q.slots[idx] \in Entries(Y)
  BY <1>1 DEF Entries
<1> HIDE DEF e, r, Y
<1>5. /\ IsRing(r, cap) /\ Seats(r) = Seats(q) /\ r.slots[idx] = e
      /\ \A k \in 0 .. cap - 1 : k # idx => r.slots[k] = q.slots[k]
      /\ r.cap = q.cap /\ r.head = q.head /\ r.count = q.count
  BY <1>2, <1>3, RingRewrite
<1> QED
  BY <1>2, <1>4, <1>5 DEF e, r

\* and so does resolve_data().
LEMMA RingData ==
  ASSUME NEW cap \in Nat \ {0}, NEW q, IsRing(q, cap), NEW idx \in 0 .. cap - 1, NEW data
  PROVE  LET r == Q!ResolveData(q, idx, data)
         IN  /\ IsRing(r, cap) /\ Seats(r) = Seats(q)
             /\ r.slots[idx] = WithData(q.slots[idx], data)
             /\ \A k \in 0 .. cap - 1 : k # idx => r.slots[k] = q.slots[k]
             /\ r.cap = q.cap /\ r.head = q.head /\ r.count = q.count
             /\ \E Y : q.slots[idx] \in Entries(Y) /\ r.slots[idx] \in Entries(Y)
<1> PICK X : q \in Rings(cap, X)
  BY DEF IsRing
<1> DEFINE e == WithData(q.slots[idx], data)
           Y == X \cup {data, TRUE}
           r == Q!ResolveData(q, idx, data)
<1>1. q.slots[idx] \in Entries(X) /\ "slots" \in DOMAIN q /\ idx \in DOMAIN q.slots
  BY RingFields DEF Rings
<1>2. e \in Entries(Y) /\ e.seq = q.slots[idx].seq
  BY <1>1 DEF Entries, WithData
<1>3. r = Rewritten(q, idx, e)
  BY <1>1 DEF Q!ResolveData, Entries, Rewritten, WithData
<1>4. q.slots[idx] \in Entries(Y)
  BY <1>1 DEF Entries
<1> HIDE DEF e, r, Y
<1>5. /\ IsRing(r, cap) /\ Seats(r) = Seats(q) /\ r.slots[idx] = e
      /\ \A k \in 0 .. cap - 1 : k # idx => r.slots[k] = q.slots[k]
      /\ r.cap = q.cap /\ r.head = q.head /\ r.count = q.count
  BY <1>2, <1>3, RingRewrite
<1> QED
  BY <1>2, <1>4, <1>5 DEF e, r

\* The constructor makes an empty queue.
LEMMA RingEmpty ==
  ASSUME NEW cap \in Nat \ {0}
  PROVE  IsRing(Q!EmptyQueue(cap), cap) /\ Seats(Q!EmptyQueue(cap)) = {}
<1> DEFINE q == Q!EmptyQueue(cap)
           X == {0, 4, Q!NoData, FALSE}
<1>1. Q!Fresh(0, 4) \in Entries(X)
  BY DEF Q!Fresh, Entries
<1>2. q \in Rings(cap, X) /\ q.count = 0
  BY <1>1 DEF Q!EmptyQueue, Rings
<1>3. \A k : ~(k \in 0 .. q.count - 1)
  BY <1>2
<1> HIDE DEF q, X
<1> QED
  BY <1>2, <1>3 DEF IsRing, Seniority, Seats, q

-----------------------------------------------------------------------------
(* The invariant. *)

\* Something is in flight, or may be: no trap has committed.
Live == mode \in {"run", "recover"}

Decs == {Decode(w) : w \in Words}

\* push() numbers what is in flight in program order, and each is the decoding
\* of a word.
Numbered ==
  /\ nextSeq \in Nat
  /\ \A i \in 1 .. Len(uops) :
       uops[i].seq \in Nat /\ uops[i].seq < nextSeq /\ uops[i].dec \in Decs
  /\ \A i, j \in 1 .. Len(uops) : i < j => uops[i].seq < uops[j].seq

Known == {uops[i].seq : i \in 1 .. Len(uops)}

\* The numbers of what waits for its operands, and of what is being executed.
Waiting  == Range(renameQ) \cup Range(iq)
Underway == Range(executing) \cup Range(wbFast) \cup Range(wbSlow)

Precede == {p \in Nat \X Nat : p[1] < p[2]}
Differ  == {p \in Nat \X Nat : p[1] # p[2]}

Apart(s, t) == Range(s) \cap Range(t) = {}

\* What each queue is, whatever it holds.
Listed ==
  /\ renameQ \in Seq(Nat) /\ Ranked(renameQ, Precede)
  /\ iq \in Seq(Nat) /\ cand \in Seq(Nat)
  /\ executing \in Seq(Nat) /\ Ranked(executing, Differ)
  /\ wbFast \in Seq(Nat) /\ Ranked(wbFast, Differ)
  /\ wbSlow \in Seq(Nat) /\ Ranked(wbSlow, Differ)
  /\ Apart(executing, wbFast) /\ Apart(executing, wbSlow) /\ Apart(wbFast, wbSlow)
  /\ Apart(renameQ, iq)
  /\ Range(renameQ) \subseteq Known /\ Range(iq) \subseteq Known
  /\ Range(executing) \subseteq Known /\ Range(wbFast) \subseteq Known
  /\ Range(wbSlow) \subseteq Known

\* An instruction is where the state of its entry says it is.
Placed ==
  \A i \in 1 .. Len(rob) :
    /\ rob[i].state = "waiting" <=> uops[i].seq \in Waiting
    /\ rob[i].state = "issued" <=> uops[i].seq \in Underway

\* The rename queue holds the youngest, and issue() considers no one in it.
Queued ==
  /\ \A i, j \in 1 .. Len(uops) :
       i < j /\ uops[i].seq \in Range(renameQ) => uops[j].seq \in Range(renameQ)
  /\ Range(cand) \subseteq Known \ Range(renameQ)
  /\ stage # "issue" \/ mode = "recover" => cand = <<>>

\* The seats that the instructions dispatched remember.
LoadSeats ==
  {<<uops[i].seq, uops[i].lsq>> :
     i \in {i \in 1 .. Len(uops) : uops[i].dec.is_load /\ uops[i].seq \notin Range(renameQ)}}
StoreSeats ==
  {<<uops[i].seq, uops[i].lsq>> :
     i \in {i \in 1 .. Len(uops) : uops[i].dec.is_store /\ uops[i].seq \notin Range(renameQ)}}

\* The memory queues hold those, and nobody else.
Seated ==
  /\ IsRing(lq, LqSize) /\ Seats(lq) = LoadSeats
  /\ IsRing(sq, SqSize) /\ Seats(sq) = StoreSeats

InPlace == Live => Numbered /\ Listed /\ Placed /\ Queued /\ Seated

\* What the pipeline's proofs so far establish, in every state.
Grounded == CarryWords /\ InStep /\ RP!TypeOK /\ RP!Shape /\ RP!Resolved

-----------------------------------------------------------------------------
(* inflight_, index by index. *)

\* One uop for each entry of the reorder buffer, at least.
LEMMA UopsFacts ==
  ASSUME InStep, RP!TypeOK
  PROVE  /\ Len(uops) \in Nat /\ DOMAIN uops = 1 .. Len(uops)
         /\ Len(rob) \in Nat /\ Len(rob) <= Len(uops)
         /\ \A i \in 1 .. Len(rob) : i \in 1 .. Len(uops)
         /\ mode = "run" => Len(uops) = Len(rob)
<1>1. Len(uops) \in Nat /\ DOMAIN uops = 1 .. Len(uops)
  <2>1. PICK X : uops \in Seq(UopOver(X))
    BY DEF InStep
  <2> QED
    BY <2>1
<1>2. Len(rob) \in Nat
  BY DEF RP!TypeOK
<1> QED
  BY <1>1, <1>2 DEF InStep, SameTraps

\* What decode() made of a word is not both a load and a store.
LEMMA DecodedKind ==
  ASSUME NEW d \in Decs
  PROVE  /\ ~(d.is_load /\ d.is_store)
         /\ d.is_load \in BOOLEAN /\ d.is_store \in BOOLEAN /\ d.writes_rd \in BOOLEAN
         /\ d.is_load <=> d.kind = "LOAD"
         /\ d.is_store <=> d.kind = "STORE"
         /\ d.kind \in {"ALU", "BRANCH", "MUL", "DIV", "LOAD", "STORE", "NOP", "TRAP"}
<1>1. PICK w \in Words : d = Decode(w)
  BY DEF Decs
<1> DEFINE op == OpOf(w)
<1>2. /\ d.is_load = (op \in LoadOps) /\ d.is_store = (op \in StoreOps)
      /\ d.kind = KindOf(op)
  BY <1>1 DEF Decode
<1>3. d.writes_rd \in BOOLEAN
  BY <1>1 DEF Decode
<1> HIDE DEF op
<1>4. /\ KindOf(op) = "LOAD" <=> op \in LoadOps
      /\ KindOf(op) = "STORE" <=> op \in StoreOps
      /\ KindOf(op) \in {"ALU", "BRANCH", "MUL", "DIV", "LOAD", "STORE", "NOP", "TRAP"}
      /\ ~(op \in LoadOps /\ op \in StoreOps)
  BY DEF KindOf, LoadOps, StoreOps, BranchOps, MulOps, DivOps, NopOps, TrapOps
<1> DEFINE loads == op \in LoadOps
           stores == op \in StoreOps
<1>5. d.is_load = loads /\ d.is_store = stores /\ loads \in BOOLEAN /\ stores \in BOOLEAN
  BY <1>2
<1>6. ~(loads /\ stores) /\ (loads <=> d.kind = "LOAD") /\ (stores <=> d.kind = "STORE")
  BY <1>2, <1>4
<1> HIDE DEF loads, stores
<1> QED
  BY <1>2, <1>3, <1>4, <1>5, <1>6

\* Sequence numbers find their instruction.
LEMMA AtFacts ==
  ASSUME InStep, RP!TypeOK, Numbered
  PROVE  /\ \A i \in 1 .. Len(uops) : At(uops[i].seq) = i
         /\ \A s \in Known : At(s) \in 1 .. Len(uops) /\ uops[At(s)].seq = s /\ s \in Nat
<1>1. Len(uops) \in Nat /\ DOMAIN uops = 1 .. Len(uops)
  BY UopsFacts
<1>2. ASSUME NEW i \in 1 .. Len(uops) PROVE At(uops[i].seq) = i
  <2> DEFINE k == At(uops[i].seq)
  <2>1. k \in 1 .. Len(uops) /\ uops[k].seq = uops[i].seq
    BY <1>1 DEF At
  <2> HIDE DEF k
  <2>2. ~(k < i) /\ ~(i < k)
    BY <1>1, <2>1 DEF Numbered
  <2> QED
    BY <1>1, <2>1, <2>2 DEF k
<1> QED
  BY <1>2 DEF Known, Numbered

\* One uop is replaced.
LEMMA UopsSet ==
  ASSUME NEW X, NEW us \in Seq(UopOver(X)), NEW i \in 1 .. Len(us), NEW v
  PROVE  /\ Len([us EXCEPT ![i] = v]) = Len(us)
         /\ \A k \in 1 .. Len(us) : [us EXCEPT ![i] = v][k] = IF k = i THEN v ELSE us[k]
<1> DEFINE S == UopOver(X)
<1>1. us \in Seq(S)
  OBVIOUS
<1> HIDE DEF S
<1> QED
  BY <1>1

\* A step that may write results, but leaves the numbers, the decoded
\* instructions and the seats.
SameUops ==
  /\ Len(uops') = Len(uops)
  /\ \A i \in 1 .. Len(uops) :
       uops'[i].seq = uops[i].seq /\ uops'[i].dec = uops[i].dec /\ uops'[i].lsq = uops[i].lsq

LEMMA SameNumbers ==
  ASSUME InStep, RP!TypeOK, Numbered, SameUops, nextSeq' = nextSeq
  PROVE  /\ Numbered' /\ Known' = Known
         /\ renameQ' = renameQ => LoadSeats' = LoadSeats /\ StoreSeats' = StoreSeats
BY DEF Numbered, SameUops, Known, LoadSeats, StoreSeats

\* issue() writes to the uop it starts, and nothing that places it.
LEMMA StartsUops ==
  ASSUME InStep, RP!TypeOK, NEW u, NEW lat, NEW Y, u \in UopOver(Y),
         Considered \in 1 .. Len(rob), Starts(u, lat),
         u.seq = uops[Considered].seq, u.dec = uops[Considered].dec,
         u.lsq = uops[Considered].lsq
  PROVE  /\ SameUops
         /\ uops'[Considered] = [u EXCEPT !.wb = cycle + lat]
         /\ \A k \in 1 .. Len(uops) : k # Considered => uops'[k] = uops[k]
<1> DEFINE i == Considered
           v == [u EXCEPT !.wb = cycle + lat]
<1>1. uops' = [uops EXCEPT ![i] = v]
  BY DEF Starts
<1>2. v.seq = u.seq /\ v.dec = u.dec /\ v.lsq = u.lsq
  BY DEF UopOver
<1>3. i \in 1 .. Len(uops)
  BY UopsFacts
<1>4. PICK X : uops \in Seq(UopOver(X))
  BY DEF InStep
<1> HIDE DEF i, v
<1>5. Len(uops') = Len(uops) /\ \A k \in 1 .. Len(uops) : uops'[k] = IF k = i THEN v ELSE uops[k]
  BY <1>1, <1>3, <1>4, UopsSet
<1>6. SameUops
  BY <1>2, <1>5 DEF SameUops, i
<1> QED
  BY <1>3, <1>5, <1>6 DEF i, v

\* issue() and complete() move entry i on.
LEMMA RobMoved ==
  ASSUME RP!TypeOK, NEW i \in 1 .. Len(rob), NEW st \in {"issued", "complete"},
         rob' = [rob EXCEPT ![i].state = st]
  PROVE  /\ Len(rob') = Len(rob)
         /\ rob'[i].state = st
         /\ \A j \in 1 .. Len(rob) : j # i => rob'[j] = rob[j]
         /\ \A j \in 1 .. Len(rob) : RP!Same(rob[j], rob'[j])
BY RP!MovedFacts, RenamingApplies DEF RP!Moved

-----------------------------------------------------------------------------
(* Steps that leave the queues alone, or only shorten the candidates. *)

\* Nothing is fetched again once a trap has committed.
LEMMA LiveBefore == [Next]_vars /\ Live' => Live
<1> SUFFICES ASSUME [Next]_vars, Live' PROVE Live
  OBVIOUS
<1>1. CASE Tick \/ Rest \/ CommitEnd \/ WritebackEnd \/ Execute \/ UNCHANGED vars
  BY <1>1 DEF Tick, Rest, CommitEnd, WritebackEnd, Execute, vars, renaming, Live
<1>2. CASE CommitOne
  BY <1>2 DEF CommitOne, Turn, In, Live
<1>3. CASE Drain
  BY <1>3 DEF Drain, Ren!Drained, Live
<1>4. CASE WritebackFast \/ WritebackSlow
  BY <1>4 DEF WritebackFast, WritebackSlow, In, Live
<1>5. CASE TurnAway \/ ReplayLoad \/ IssueLoad \/ IssueOther
  BY <1>5 DEF TurnAway, ReplayLoad, IssueLoad, IssueOther, Considers, In, Live
<1>6. CASE IssueEnd \/ DispatchEnd \/ RenameEnd \/ DecodeTrap \/ DecodeEnd \/ FetchEnd
  BY <1>6 DEF IssueEnd, DispatchEnd, RenameEnd, DecodeTrap, DecodeEnd, FetchEnd, Over, In, Live
<1>7. CASE Recover \/ Reclaim \/ Restore
  BY <1>7 DEF Recover, Reclaim, Restore, In, Ren!Reclaim, Ren!Restore, Live
<1>8. CASE DispatchOne \/ RenameOne \/ DecodeOne \/ FetchOne
  BY <1>8 DEF DispatchOne, RenameOne, DecodeOne, FetchOne, Turn, In, Live
<1> QED
  BY <1>1, <1>2, <1>3, <1>4, <1>5, <1>6, <1>7, <1>8 DEF Next

LEMMA QuietInPlace ==
  ASSUME InPlace, Live' => Live,
         UNCHANGED <<rob, uops, nextSeq, renameQ, iq, lq, sq, results>>,
         cand \in Seq(Nat) => cand' \in Seq(Nat) /\ Range(cand') \subseteq Range(cand),
         cand = <<>> \/ stage = "issue" => stage' = "issue" \/ cand' = <<>>,
         mode' = "recover" => mode = "recover", cand = <<>> => cand' = <<>>
  PROVE  InPlace'
<1> SUFFICES ASSUME Live' PROVE (Numbered /\ Listed /\ Placed /\ Queued /\ Seated)'
  BY DEF InPlace
<1>1. Numbered /\ Listed /\ Placed /\ Queued /\ Seated
  BY DEF InPlace
<1>2. /\ executing' = executing /\ wbFast' = wbFast /\ wbSlow' = wbSlow
      /\ cand' \in Seq(Nat) /\ Range(cand') \subseteq Range(cand)
      /\ stage' # "issue" \/ mode' = "recover" => cand' = <<>>
  BY <1>1 DEF results, Listed, Queued
<1>3. Numbered' /\ Known' = Known
  BY <1>1 DEF Numbered, Known
<1>4. Listed'
  BY <1>1, <1>2, <1>3 DEF Listed, Apart
<1>5. Placed' /\ Queued'
  BY <1>1, <1>2, <1>3 DEF Placed, Queued, Waiting, Underway
<1>6. Seated'
  BY <1>1 DEF Seated, LoadSeats, StoreSeats
<1> QED
  BY <1>3, <1>4, <1>5, <1>6

\* The stages that only pass the turn on, and the front end.
LEMMA PassingInPlace ==
  ASSUME InPlace, Live' => Live,
         \/ Tick \/ Rest \/ CommitEnd \/ WritebackEnd \/ IssueEnd \/ DispatchEnd \/ RenameEnd
         \/ DecodeOne \/ DecodeTrap \/ DecodeEnd \/ FetchOne \/ FetchEnd
         \/ Reclaim \/ TurnAway \/ UNCHANGED vars
  PROVE  InPlace'
<1>1. UNCHANGED <<rob, uops, nextSeq, renameQ, iq, lq, sq, results>>
  <2>1. CASE Tick \/ Rest \/ CommitEnd \/ WritebackEnd \/ UNCHANGED vars
    BY <2>1 DEF Tick, Rest, CommitEnd, WritebackEnd, vars, renaming
  <2>2. CASE IssueEnd \/ DispatchEnd \/ RenameEnd \/ DecodeEnd \/ FetchEnd
    BY <2>2 DEF IssueEnd, DispatchEnd, RenameEnd, DecodeEnd, FetchEnd, renaming
  <2>3. CASE DecodeOne \/ DecodeTrap \/ FetchOne
    BY <2>3 DEF DecodeOne, DecodeTrap, FetchOne, renaming
  <2>4. CASE Reclaim \/ TurnAway
    BY <2>4 DEF Reclaim, TurnAway, Considers, Ren!Reclaim, renaming
  <2> QED
    BY <2>1, <2>2, <2>3, <2>4
<1>2. \/ cand' = cand /\ (stage = "issue" => stage' = "issue")
      \/ cand' = cand /\ stage # "issue"
      \/ cand' = <<>>
      \/ cand # <<>> /\ cand' = Tail(cand) /\ stage' = "issue"
  <2>1. CASE Tick \/ Rest \/ CommitEnd \/ WritebackEnd \/ UNCHANGED vars
    BY <2>1 DEF Tick, Rest, CommitEnd, WritebackEnd, Over, In, vars
  <2>2. CASE IssueEnd \/ DispatchEnd \/ RenameEnd \/ DecodeEnd \/ FetchEnd
    BY <2>2 DEF IssueEnd, DispatchEnd, RenameEnd, DecodeEnd, FetchEnd, Over, In
  <2>3. CASE DecodeOne \/ DecodeTrap \/ FetchOne
    BY <2>3 DEF DecodeOne, DecodeTrap, FetchOne, Turn, Over, In
  <2>4. CASE Reclaim \/ TurnAway
    BY <2>4 DEF Reclaim, TurnAway, Considers, In
  <2> QED
    BY <2>1, <2>2, <2>3, <2>4
<1>3. cand \in Seq(Nat) => cand' \in Seq(Nat) /\ Range(cand') \subseteq Range(cand)
  <2> SUFFICES ASSUME cand \in Seq(Nat)
               PROVE  cand' \in Seq(Nat) /\ Range(cand') \subseteq Range(cand)
    OBVIOUS
  <2>1. cand # <<>> => Tail(cand) \in Seq(Nat) /\ Range(Tail(cand)) \subseteq Range(cand)
    BY TailOrder
  <2>2. <<>> \in Seq(Nat) /\ Range(<<>>) = {}
    BY DEF Range
  <2> QED
    BY <1>2, <2>1, <2>2
<1>4. cand = <<>> \/ stage = "issue" => stage' = "issue" \/ cand' = <<>>
  BY <1>2
<1>5. mode' = "recover" => mode = "recover"
  <2>1. CASE Tick \/ Rest \/ CommitEnd \/ WritebackEnd \/ UNCHANGED vars
    BY <2>1 DEF Tick, Rest, CommitEnd, WritebackEnd, vars, renaming
  <2>2. CASE IssueEnd \/ DispatchEnd \/ RenameEnd \/ DecodeEnd \/ FetchEnd
    BY <2>2 DEF IssueEnd, DispatchEnd, RenameEnd, DecodeEnd, FetchEnd, renaming
  <2>3. CASE DecodeOne \/ DecodeTrap \/ FetchOne
    BY <2>3 DEF DecodeOne, DecodeTrap, FetchOne, renaming
  <2>4. CASE Reclaim \/ TurnAway
    BY <2>4 DEF Reclaim, TurnAway, Considers, Ren!Reclaim, renaming
  <2> QED
    BY <2>1, <2>2, <2>3, <2>4
<1>6. cand = <<>> => cand' = <<>>
  BY <1>2
<1> QED
  BY <1>1, <1>3, <1>4, <1>5, <1>6, QuietInPlace

-----------------------------------------------------------------------------
(* Writeback. *)

\* complete() finds the entry of the result, which leaves its queue.
LEMMA CompletePlaced ==
  ASSUME Grounded, Live, InPlace, NEW seq \in Known, Complete(seq), seq \in Underway,
         Underway' = Underway \ {seq}
  PROVE  Placed'
<1> DEFINE i == At(seq)
<1>1. Numbered /\ Placed /\ InStep /\ RP!TypeOK
  BY DEF InPlace, Grounded
<1>2. /\ i \in 1 .. Len(rob) /\ rob[i].state = "issued"
      /\ rob' = [rob EXCEPT ![i].state = "complete"]
      /\ UNCHANGED <<uops, renameQ, iq>>
  BY DEF Complete, InFlight, Ren!Complete
<1>3. uops[i].seq = seq
  BY <1>1, AtFacts
<1>4. \A k \in 1 .. Len(rob) : k \in 1 .. Len(uops) /\ uops[k].seq \in Known
  BY <1>1, UopsFacts DEF Known
<1>5. \A k \in 1 .. Len(rob) : k # i => uops[k].seq # seq
  BY <1>1, <1>3, <1>4, AtFacts
<1> HIDE DEF i
<1>6. /\ Len(rob') = Len(rob) /\ rob'[i].state = "complete"
      /\ \A j \in 1 .. Len(rob) : j # i => rob'[j] = rob[j]
  BY <1>1, <1>2, RobMoved
<1>7. Waiting' = Waiting
  BY <1>2 DEF Waiting
<1>8. ASSUME NEW k \in 1 .. Len(rob)
      PROVE  /\ rob'[k].state = "waiting" <=> uops[k].seq \in Waiting'
             /\ rob'[k].state = "issued" <=> uops[k].seq \in Underway'
  <2>1. CASE k = i
    <3>1. seq \notin Waiting
      BY <1>1, <1>2, <1>3 DEF Placed
    <3> QED
      BY <1>3, <1>6, <1>7, <2>1, <3>1
  <2>2. CASE k # i
    <3>1. uops[k].seq \in Underway' <=> uops[k].seq \in Underway
      BY <1>4, <1>5, <2>2
    <3> QED
      BY <1>1, <1>6, <1>7, <2>2, <3>1 DEF Placed
  <2> QED
    BY <2>1, <2>2
<1> QED
  BY <1>2, <1>6, <1>8 DEF Placed

\* Of a queue without repetition, the tail has everything but the head.
LEMMA TailApart ==
  ASSUME NEW s \in Seq(Nat), s # <<>>, Ranked(s, Differ)
  PROVE  /\ Tail(s) \in Seq(Nat) /\ Ranked(Tail(s), Differ)
         /\ Head(s) \in Range(s) /\ Head(s) \in Nat
         /\ Range(Tail(s)) = Range(s) \ {Head(s)}
<1>1. /\ Tail(s) \in Seq(Nat) /\ Head(s) \in Nat
      /\ Range(s) = {Head(s)} \cup Range(Tail(s))
      /\ Ranked(Tail(s), Differ) /\ \A v \in Range(Tail(s)) : <<Head(s), v>> \in Differ
  BY TailOrder
<1>2. Head(s) \notin Range(Tail(s))
  <2>1. <<Head(s), Head(s)>> \notin Differ
    BY DEF Differ
  <2> QED
    BY <1>1, <2>1
<1> QED
  BY <1>1, <1>2

\* writeback() retires a result from the head of its queue.
LEMMA WritebackInPlace ==
  ASSUME Grounded, InPlace, Live, WritebackFast \/ WritebackSlow
  PROVE  InPlace'
<1>1. Numbered /\ Listed /\ Placed /\ Queued /\ Seated
  BY DEF InPlace
<1>2. stage = "writeback" /\ cand' = cand /\ stage' = stage /\ mode' = "run"
      /\ UNCHANGED <<uops, nextSeq, renameQ, iq, lq, sq, executing>>
  BY DEF WritebackFast, WritebackSlow, In, Complete, Ren!Complete
<1>3. cand = <<>>
  BY <1>1, <1>2 DEF Queued
<1>4. Apart(wbFast, wbSlow) /\ Apart(executing, wbFast) /\ Apart(executing, wbSlow)
  BY <1>1 DEF Listed
<1>5. PICK seq \in Known :
        /\ Complete(seq) /\ seq \in Underway /\ Underway' = Underway \ {seq}
        /\ wbFast' \in Seq(Nat) /\ Ranked(wbFast', Differ)
        /\ wbSlow' \in Seq(Nat) /\ Ranked(wbSlow', Differ)
        /\ Range(wbFast') \subseteq Range(wbFast) /\ Range(wbSlow') \subseteq Range(wbSlow)
  <2>1. CASE WritebackFast
    <3>1. wbFast # <<>> /\ Complete(Head(wbFast)) /\ wbFast' = Tail(wbFast) /\ wbSlow' = wbSlow
      BY <2>1 DEF WritebackFast, FastNext
    <3>2. /\ Tail(wbFast) \in Seq(Nat) /\ Ranked(Tail(wbFast), Differ)
          /\ Head(wbFast) \in Range(wbFast)
          /\ Range(Tail(wbFast)) = Range(wbFast) \ {Head(wbFast)}
      BY <1>1, <3>1, TailApart DEF Listed
    <3>3. Head(wbFast) \in Known
      BY <1>1, <3>2 DEF Listed
    <3>4. Underway' = Underway \ {Head(wbFast)} /\ Head(wbFast) \in Underway
      BY <1>2, <1>4, <3>1, <3>2 DEF Underway, Apart
    <3> QED
      BY <1>1, <3>1, <3>2, <3>3, <3>4 DEF Listed
  <2>2. CASE WritebackSlow
    <3>1. wbSlow # <<>> /\ Complete(Head(wbSlow)) /\ wbSlow' = Tail(wbSlow) /\ wbFast' = wbFast
      BY <2>2 DEF WritebackSlow, SlowNext
    <3>2. /\ Tail(wbSlow) \in Seq(Nat) /\ Ranked(Tail(wbSlow), Differ)
          /\ Head(wbSlow) \in Range(wbSlow)
          /\ Range(Tail(wbSlow)) = Range(wbSlow) \ {Head(wbSlow)}
      BY <1>1, <3>1, TailApart DEF Listed
    <3>3. Head(wbSlow) \in Known
      BY <1>1, <3>2 DEF Listed
    <3>4. Underway' = Underway \ {Head(wbSlow)} /\ Head(wbSlow) \in Underway
      BY <1>2, <1>4, <3>1, <3>2 DEF Underway, Apart
    <3> QED
      BY <1>1, <3>1, <3>2, <3>3, <3>4 DEF Listed
  <2> QED
    BY <2>1, <2>2
<1>6. Placed'
  BY <1>5, CompletePlaced
<1>7. Numbered' /\ Known' = Known /\ LoadSeats' = LoadSeats /\ StoreSeats' = StoreSeats
  BY <1>1, <1>2 DEF Numbered, Known, LoadSeats, StoreSeats
<1>8. Listed'
  BY <1>1, <1>2, <1>3, <1>5, <1>7 DEF Listed, Apart
<1>9. Queued'
  BY <1>1, <1>2, <1>3, <1>7 DEF Queued
<1>10. Seated'
  BY <1>1, <1>2, <1>7 DEF Seated
<1> QED
  BY <1>6, <1>7, <1>8, <1>9, <1>10 DEF InPlace

-----------------------------------------------------------------------------
(* Execute. *)

\* Keeping part of a queue without repetition.
LEMMA KeptApart ==
  ASSUME NEW s \in Seq(Nat), NEW K
  PROVE  /\ Those(s, K) \in Seq(Nat) /\ Range(Those(s, K)) = Range(s) \cap K
         /\ K \subseteq Range(s) => Range(Those(s, K)) = K
         /\ Ranked(s, Differ) => Ranked(Those(s, K), Differ)
         /\ Ranked(s, Precede) => Ranked(Those(s, K), Precede)
<1>1. Those(s, K) \in Seq(Nat) /\ Range(Those(s, K)) = Range(s) \cap K
  BY ThoseKeeps
<1>2. ASSUME NEW R, Ranked(s, R) PROVE Ranked(Those(s, K), R)
  <2>1. \A i, j \in DOMAIN s : i < j => <<s[i], s[j]>> \in R
    BY <1>2 DEF Ranked
  <2> QED
    BY <2>1, ThoseOrder DEF Ranked
<1>3. K \subseteq Range(s) => Range(Those(s, K)) = K
  BY <1>1
<1> QED
  BY <1>1, <1>2, <1>3

\* One queue without repetition behind another it shares nothing with.
LEMMA ConcatApart ==
  ASSUME NEW s \in Seq(Nat), NEW t \in Seq(Nat), Ranked(s, Differ), Ranked(t, Differ),
         Range(s) \cap Range(t) = {}
  PROVE  /\ s \o t \in Seq(Nat) /\ Ranked(s \o t, Differ)
         /\ Range(s \o t) = Range(s) \cup Range(t)
<1>1. Range(s) \subseteq Nat /\ Range(t) \subseteq Nat
  BY DEF Range
<1>2. \A u \in Range(s), v \in Range(t) : <<u, v>> \in Differ
  BY <1>1 DEF Differ
<1> QED
  BY <1>2, ConcatOrder

\* What is due moves to the writeback queues, and nothing is lost between them.
LEMMA ExecuteInPlace ==
  ASSUME Grounded, InPlace, Live, Execute
  PROVE  InPlace'
<1> DEFINE E     == Range(executing)
           due   == {s \in E : UopOf(s).wb <= cycle + 1}
           loads == {s \in due : IsLoad(s)}
           woken == {s \in Range(iq) : ready[rob[At(s)].src1] /\ ready[rob[At(s)].src2]}
<1>1. Numbered /\ Listed /\ Placed /\ Queued /\ Seated
  BY DEF InPlace
<1>2. /\ executing' = Those(executing, E \ due)
      /\ wbSlow' = wbSlow \o Those(executing, loads)
      /\ wbFast' = wbFast \o Those(executing, due \ loads)
      /\ cand' = Those(iq, woken) /\ stage' = "issue" /\ mode' = "run"
      /\ UNCHANGED <<uops, nextSeq, renameQ, iq, lq, sq>> /\ rob' = rob
  BY DEF Execute, Selected, Over, In, renaming
<1>3. /\ executing \in Seq(Nat) /\ Ranked(executing, Differ)
      /\ wbFast \in Seq(Nat) /\ Ranked(wbFast, Differ)
      /\ wbSlow \in Seq(Nat) /\ Ranked(wbSlow, Differ)
      /\ E \cap Range(wbFast) = {} /\ E \cap Range(wbSlow) = {}
      /\ Range(wbFast) \cap Range(wbSlow) = {} /\ iq \in Seq(Nat)
  BY <1>1 DEF Listed, Apart
<1>4. loads \subseteq due /\ due \subseteq E /\ woken \subseteq Range(iq)
  OBVIOUS
<1> HIDE DEF due, loads, woken
<1>5. /\ executing' \in Seq(Nat) /\ Ranked(executing', Differ)
      /\ Range(executing') = E \ due
  BY <1>2, <1>3, KeptApart
<1>6. /\ wbSlow' \in Seq(Nat) /\ Ranked(wbSlow', Differ)
      /\ Range(wbSlow') = Range(wbSlow) \cup loads
  <2>1. /\ Those(executing, loads) \in Seq(Nat) /\ Ranked(Those(executing, loads), Differ)
        /\ Range(Those(executing, loads)) = loads
    <3>1. loads \subseteq Range(executing)
      BY <1>4
    <3> QED
      BY <1>3, <3>1, KeptApart
  <2> QED
    BY <1>2, <1>3, <1>4, <2>1, ConcatApart
<1>7. /\ wbFast' \in Seq(Nat) /\ Ranked(wbFast', Differ)
      /\ Range(wbFast') = Range(wbFast) \cup (due \ loads)
  <2>1. /\ Those(executing, due \ loads) \in Seq(Nat)
        /\ Ranked(Those(executing, due \ loads), Differ)
        /\ Range(Those(executing, due \ loads)) = due \ loads
    <3>1. due \ loads \subseteq Range(executing)
      BY <1>4
    <3> QED
      BY <1>3, <3>1, KeptApart
  <2>2. Range(wbFast) \cap Range(Those(executing, due \ loads)) = {}
    BY <1>3, <1>4, <2>1
  <2>3. /\ wbFast \o Those(executing, due \ loads) \in Seq(Nat)
        /\ Ranked(wbFast \o Those(executing, due \ loads), Differ)
        /\ Range(wbFast \o Those(executing, due \ loads))
             = Range(wbFast) \cup Range(Those(executing, due \ loads))
    BY <1>3, <2>1, <2>2, ConcatApart
  <2> QED
    BY <1>2, <2>1, <2>3
<1>8. cand' \in Seq(Nat) /\ Range(cand') = woken
  <2>1. Those(iq, woken) \in Seq(Nat) /\ Range(Those(iq, woken)) = woken
    BY <1>3, <1>4, KeptApart
  <2> QED
    BY <1>2, <2>1
<1>9. Underway' = Underway /\ Waiting' = Waiting
  BY <1>2, <1>4, <1>5, <1>6, <1>7 DEF Underway, Waiting
<1>10. Numbered' /\ Known' = Known /\ LoadSeats' = LoadSeats /\ StoreSeats' = StoreSeats
  BY <1>1, <1>2 DEF Numbered, Known, LoadSeats, StoreSeats
<1>11. Listed'
  BY <1>1, <1>2, <1>3, <1>4, <1>5, <1>6, <1>7, <1>8, <1>10 DEF Listed, Apart
<1>12. Placed'
  BY <1>1, <1>2, <1>9 DEF Placed
<1>13. Queued'
  <2>1. woken \subseteq Known \ Range(renameQ)
    BY <1>1, <1>4 DEF Listed, Apart
  <2> QED
    BY <1>1, <1>2, <1>8, <1>10, <2>1 DEF Queued
<1>14. Seated'
  BY <1>1, <1>2, <1>10 DEF Seated
<1> QED
  BY <1>10, <1>11, <1>12, <1>13, <1>14 DEF InPlace

-----------------------------------------------------------------------------
(* Issue. *)

\* A seat is a slot of its ring.
LEMMA SeatIndex ==
  ASSUME NEW cap \in Nat \ {0}, NEW q, IsRing(q, cap), NEW p \in Seats(q)
  PROVE  p[2] \in 0 .. cap - 1 /\ q.slots[p[2]].seq = p[1]
<1> PICK X : q \in Rings(cap, X)
  BY DEF IsRing
<1>1. PICK k \in 0 .. q.count - 1 : p = <<Q!Nth(q, k).seq, Slot(q, k)>>
  BY DEF Seats
<1>2. Slot(q, k) \in 0 .. cap - 1 /\ Q!Nth(q, k) = q.slots[Slot(q, k)]
  BY RingFields
<1> QED
  BY <1>1, <1>2

\* The candidate at the head: its entry, and its seat if it has one.
LEMMA ConsideredFacts ==
  ASSUME Grounded, InPlace, Considers
  PROVE  /\ Live /\ Considered \in 1 .. Len(rob) /\ Considered \in 1 .. Len(uops)
         /\ uops[Considered].seq = Head(cand)
         /\ Head(cand) \in Known \ Range(renameQ) /\ Head(cand) \in Nat
         /\ stage' = "issue" /\ mode = "run" /\ cand' \in Seq(Nat)
         /\ Range(cand') \subseteq Range(cand)
         /\ UNCHANGED <<nextSeq, renameQ>>
         /\ Wanted \in Decs
         /\ Wanted.is_load =>
              /\ uops[Considered].lsq \in 0 .. LqSize - 1
              /\ <<uops[Considered].seq, uops[Considered].lsq>> \in Seats(lq)
         /\ Wanted.is_store =>
              /\ uops[Considered].lsq \in 0 .. SqSize - 1
              /\ <<uops[Considered].seq, uops[Considered].lsq>> \in Seats(sq)
<1> DEFINE s == Head(cand)
<1>1. /\ stage = "issue" /\ mode = "run" /\ cand # <<>> /\ cand' = Tail(cand)
      /\ stage' = stage /\ UNCHANGED <<nextSeq, renameQ>> /\ At(s) \in 1 .. Len(rob)
  BY DEF Considers, In, InFlight
<1>2. Live
  BY <1>1 DEF Live
<1>3. Numbered /\ Listed /\ Queued /\ Seated /\ InStep /\ RP!TypeOK
  BY <1>2 DEF InPlace, Grounded
<1>4. s \in Range(cand) /\ s \in Nat /\ Tail(cand) \in Seq(Nat)
      /\ Range(Tail(cand)) \subseteq Range(cand)
  <2>1. cand \in Seq(Nat)
    BY <1>3 DEF Listed
  <2> QED
    BY <1>1, <2>1, TailOrder
<1>5. s \in Known /\ s \notin Range(renameQ)
  BY <1>3, <1>4 DEF Queued
<1>6. Considered \in 1 .. Len(rob) /\ Considered \in 1 .. Len(uops) /\ uops[Considered].seq = s
  BY <1>1, <1>3, <1>5, AtFacts DEF Considered
<1>7. Wanted \in Decs
  BY <1>3, <1>6 DEF Wanted, Numbered
<1>8. ASSUME Wanted.is_load
      PROVE  /\ uops[Considered].lsq \in 0 .. LqSize - 1
             /\ <<uops[Considered].seq, uops[Considered].lsq>> \in Seats(lq)
  <2>1. <<uops[Considered].seq, uops[Considered].lsq>> \in LoadSeats
    BY <1>5, <1>6, <1>8 DEF LoadSeats, Wanted
  <2>2. IsRing(lq, LqSize) /\ Seats(lq) = LoadSeats /\ LqSize \in Nat \ {0}
    BY <1>3, PipelineAssumption DEF Seated
  <2> QED
    BY <2>1, <2>2, SeatIndex
<1>9. ASSUME Wanted.is_store
      PROVE  /\ uops[Considered].lsq \in 0 .. SqSize - 1
             /\ <<uops[Considered].seq, uops[Considered].lsq>> \in Seats(sq)
  <2>1. <<uops[Considered].seq, uops[Considered].lsq>> \in StoreSeats
    BY <1>5, <1>6, <1>9 DEF StoreSeats, Wanted
  <2>2. IsRing(sq, SqSize) /\ Seats(sq) = StoreSeats /\ SqSize \in Nat \ {0}
    BY <1>3, PipelineAssumption DEF Seated
  <2> QED
    BY <2>1, <2>2, SeatIndex
<1> QED
  BY <1>1, <1>2, <1>4, <1>5, <1>6, <1>7, <1>8, <1>9

\* A load whose address is now known keeps its seat.
LEMMA AddressedLoad ==
  ASSUME Grounded, InPlace, Considers, Wanted.is_load
  PROVE  IsRing(Addressed(lq), LqSize) /\ Seats(Addressed(lq)) = Seats(lq)
<1>1. uops[Considered].lsq \in 0 .. LqSize - 1 /\ Live
  BY ConsideredFacts
<1>2. IsRing(lq, LqSize) /\ LqSize \in Nat \ {0}
  BY <1>1, PipelineAssumption DEF InPlace, Seated
<1> DEFINE idx == uops[Considered].lsq
           a == Address
<1>3. idx \in 0 .. LqSize - 1 /\ Addressed(lq) = Q!ResolveAddr(lq, idx, a)
  BY <1>1 DEF Addressed
<1>4. ASSUME NEW q, IsRing(q, LqSize), NEW k \in 0 .. LqSize - 1, NEW addr
      PROVE  IsRing(Q!ResolveAddr(q, k, addr), LqSize) /\ Seats(Q!ResolveAddr(q, k, addr)) = Seats(q)
  BY <1>2, <1>4, RingAddr
<1> HIDE DEF idx, a
<1>5. IsRing(Q!ResolveAddr(lq, idx, a), LqSize) /\ Seats(Q!ResolveAddr(lq, idx, a)) = Seats(lq)
  BY <1>2, <1>3, <1>4
<1> QED
  BY <1>3, <1>5

\* So does a store whose address and data are.
LEMMA AddressedStore ==
  ASSUME Grounded, InPlace, Considers, Wanted.is_store, NEW data
  PROVE  LET q == Q!ResolveData(Addressed(sq), uops[Considered].lsq, data)
         IN  IsRing(q, SqSize) /\ Seats(q) = Seats(sq)
<1>1. uops[Considered].lsq \in 0 .. SqSize - 1 /\ Live
  BY ConsideredFacts
<1>2. IsRing(sq, SqSize) /\ SqSize \in Nat \ {0}
  BY <1>1, PipelineAssumption DEF InPlace, Seated
<1> DEFINE idx == uops[Considered].lsq
           a == Address
           r == Addressed(sq)
<1>3. idx \in 0 .. SqSize - 1 /\ r = Q!ResolveAddr(sq, idx, a)
  BY <1>1 DEF Addressed
<1> HIDE DEF idx, a, r
<1>4. IsRing(Q!ResolveAddr(sq, idx, a), SqSize) /\ Seats(Q!ResolveAddr(sq, idx, a)) = Seats(sq)
  BY <1>2, <1>3, RingAddr
<1>5. IsRing(r, SqSize) /\ Seats(r) = Seats(sq)
  BY <1>3, <1>4
<1>6. IsRing(Q!ResolveData(r, idx, data), SqSize) /\ Seats(Q!ResolveData(r, idx, data)) = Seats(r)
  BY <1>2, <1>3, <1>5, RingData
<1> QED
  BY <1>5, <1>6 DEF r, idx

\* A load sent back has told the queue its address, and nothing else.
LEMMA ReplayInPlace ==
  ASSUME Grounded, InPlace, ReplayLoad
  PROVE  InPlace'
<1>1. Considers /\ Wanted.is_load /\ lq' = Addressed(lq)
      /\ UNCHANGED <<rob, mode, uops, iq, sq, executing, wbFast, wbSlow>>
  BY DEF ReplayLoad, renaming, results
<1>2. /\ Live /\ UNCHANGED <<nextSeq, renameQ>> /\ stage' = "issue" /\ mode = "run"
      /\ cand' \in Seq(Nat) /\ Range(cand') \subseteq Range(cand)
  BY <1>1, ConsideredFacts
<1>3. Numbered /\ Listed /\ Placed /\ Queued /\ Seated
  BY <1>2 DEF InPlace
<1>4. Numbered' /\ Known' = Known /\ LoadSeats' = LoadSeats /\ StoreSeats' = StoreSeats
  BY <1>1, <1>2, <1>3 DEF Numbered, Known, LoadSeats, StoreSeats
<1>5. Listed'
  BY <1>1, <1>2, <1>3, <1>4 DEF Listed, Apart
<1>6. Placed' /\ Queued'
  BY <1>1, <1>2, <1>3, <1>4 DEF Placed, Queued, Waiting, Underway
<1>7. Seated'
  BY <1>1, <1>3, <1>4, AddressedLoad DEF Seated
<1> QED
  BY <1>4, <1>5, <1>6, <1>7 DEF InPlace

\* An operation takes a cycle at least.
LEMMA LatencyPositive ==
  ASSUME NEW d \in Decs
  PROVE  latency_of(d) \in Nat \ {0}
<1>1. d.kind \in {"ALU", "BRANCH", "MUL", "DIV", "LOAD", "STORE", "NOP", "TRAP"}
  BY DecodedKind
<1>2. d.kind \notin {"STORE", "NOP", "TRAP"} => Latency[d.kind] \in Nat
  BY <1>1, PipelineAssumption
<1> QED
  BY <1>2 DEF latency_of

\* A newcomer at the end of a queue without repetition.
LEMMA JoinApart ==
  ASSUME NEW q \in Seq(Nat), Ranked(q, Differ), NEW s \in Nat, s \notin Range(q)
  PROVE  /\ Append(q, s) \in Seq(Nat) /\ Ranked(Append(q, s), Differ)
         /\ Range(Append(q, s)) = Range(q) \cup {s}
<1>1. \A v \in Range(q) : <<v, s>> \in Differ
  BY DEF Range, Differ
<1> QED
  BY <1>1, AppendOrder

\* The candidate that starts leaves the issue queue for one of the three
\* places an operation can be in.
LEMMA StartsInPlace ==
  ASSUME Grounded, InPlace, Considers, NEW u, NEW lat \in Nat \ {0}, NEW Y, u \in UopOver(Y),
         Starts(u, lat), u.seq = uops[Considered].seq, u.dec = uops[Considered].dec,
         u.lsq = uops[Considered].lsq
  PROVE  /\ Numbered' /\ Listed' /\ Placed' /\ Queued'
         /\ LoadSeats' = LoadSeats /\ StoreSeats' = StoreSeats
<1> DEFINE i == Considered
           s == Head(cand)
           long == lat > 1
           slow == lat = 1 /\ u.dec.is_load
           fast == lat = 1 /\ ~u.dec.is_load
<1>1. /\ Live /\ i \in 1 .. Len(rob) /\ i \in 1 .. Len(uops) /\ uops[i].seq = s
      /\ s \in Known /\ s \notin Range(renameQ) /\ s \in Nat
      /\ stage' = "issue" /\ mode = "run" /\ cand' \in Seq(Nat) /\ Range(cand') \subseteq Range(cand)
      /\ UNCHANGED <<nextSeq, renameQ>> /\ Wanted \in Decs
  BY ConsideredFacts
<1>2. Numbered /\ Listed /\ Placed /\ Queued /\ InStep /\ RP!TypeOK
  BY <1>1 DEF InPlace, Grounded
<1>3. u.dec.is_load \in BOOLEAN
  BY <1>1, DecodedKind DEF Wanted
<1>4. /\ rob[i].state = "waiting" /\ rob' = [rob EXCEPT ![i].state = "issued"] /\ mode' = mode
      /\ iq' = Those(iq, Range(iq) \ {s})
      /\ executing' = IF long THEN Append(executing, s) ELSE executing
      /\ wbSlow' = IF slow THEN Append(wbSlow, s) ELSE wbSlow
      /\ wbFast' = IF fast THEN Append(wbFast, s) ELSE wbFast
  BY <1>1 DEF Starts, Ren!Issue
<1>5. SameUops
  BY <1>2, <1>1, StartsUops
<1>6. /\ Numbered' /\ Known' = Known
      /\ LoadSeats' = LoadSeats /\ StoreSeats' = StoreSeats
  BY <1>1, <1>2, <1>5, SameNumbers
<1>7. s \in Range(iq) /\ s \notin Underway
  BY <1>1, <1>2, <1>4 DEF Placed, Waiting
<1>8. /\ s \notin Range(executing) /\ s \notin Range(wbFast) /\ s \notin Range(wbSlow)
      /\ iq \in Seq(Nat)
      /\ executing \in Seq(Nat) /\ Ranked(executing, Differ)
      /\ wbFast \in Seq(Nat) /\ Ranked(wbFast, Differ)
      /\ wbSlow \in Seq(Nat) /\ Ranked(wbSlow, Differ)
  BY <1>2, <1>7 DEF Listed, Underway
<1>9. (long \/ slow \/ fast) /\ ~(long /\ slow) /\ ~(long /\ fast) /\ ~(slow /\ fast)
  BY <1>3
<1> HIDE DEF long, slow, fast, i, s
<1>10. /\ executing' \in Seq(Nat) /\ Ranked(executing', Differ)
       /\ Range(executing') = IF long THEN Range(executing) \cup {s} ELSE Range(executing)
  BY <1>1, <1>4, <1>8, JoinApart
<1>11. /\ wbSlow' \in Seq(Nat) /\ Ranked(wbSlow', Differ)
       /\ Range(wbSlow') = IF slow THEN Range(wbSlow) \cup {s} ELSE Range(wbSlow)
  BY <1>1, <1>4, <1>8, JoinApart
<1>12. /\ wbFast' \in Seq(Nat) /\ Ranked(wbFast', Differ)
       /\ Range(wbFast') = IF fast THEN Range(wbFast) \cup {s} ELSE Range(wbFast)
  BY <1>1, <1>4, <1>8, JoinApart
<1>13. iq' \in Seq(Nat) /\ Range(iq') = Range(iq) \ {s}
  <2>1. Range(iq) \ {s} \subseteq Range(iq)
    OBVIOUS
  <2> QED
    BY <1>4, <1>8, <2>1, KeptApart
<1>14. Waiting' = Waiting \ {s} /\ Underway' = Underway \cup {s}
  <2>1. Waiting' = Waiting \ {s}
    BY <1>1, <1>13 DEF Waiting
  <2>2. Underway' = Underway \cup {s}
    BY <1>9, <1>10, <1>11, <1>12 DEF Underway
  <2> QED
    BY <2>1, <2>2
<1>15. Listed'
  <2>1. Apart(executing, wbFast)' /\ Apart(executing, wbSlow)' /\ Apart(wbFast, wbSlow)'
    BY <1>2, <1>8, <1>9, <1>10, <1>11, <1>12 DEF Listed, Apart
  <2>2. Apart(renameQ, iq)' /\ Range(iq') \subseteq Known'
    BY <1>1, <1>2, <1>6, <1>13 DEF Listed, Apart
  <2>3. /\ Range(executing') \subseteq Known' /\ Range(wbFast') \subseteq Known'
        /\ Range(wbSlow') \subseteq Known'
    BY <1>1, <1>2, <1>6, <1>10, <1>11, <1>12 DEF Listed
  <2>4. renameQ' \in Seq(Nat) /\ Ranked(renameQ', Precede) /\ Range(renameQ') \subseteq Known'
    BY <1>1, <1>2, <1>6 DEF Listed
  <2> QED
    BY <1>1, <1>10, <1>11, <1>12, <1>13, <2>1, <2>2, <2>3, <2>4 DEF Listed
<1>16. Placed'
  <2>1. /\ Len(rob') = Len(rob) /\ rob'[i].state = "issued"
        /\ \A j \in 1 .. Len(rob) : j # i => rob'[j] = rob[j]
    BY <1>1, <1>2, <1>4, RobMoved
  <2>2. \A k \in 1 .. Len(rob) : k \in 1 .. Len(uops) /\ uops'[k].seq = uops[k].seq
    BY <1>2, <1>5, UopsFacts DEF SameUops
  <2>3. \A k \in 1 .. Len(rob) : k # i => uops[k].seq # s
    BY <1>1, <1>2, <2>2, AtFacts
  <2>4. ASSUME NEW k \in 1 .. Len(rob)
        PROVE  /\ rob'[k].state = "waiting" <=> uops[k].seq \in Waiting'
               /\ rob'[k].state = "issued" <=> uops[k].seq \in Underway'
    <3>1. CASE k = i
      BY <1>1, <1>14, <2>1, <3>1
    <3>2. CASE k # i
      <4>1. (uops[k].seq \in Waiting' <=> uops[k].seq \in Waiting)
            /\ (uops[k].seq \in Underway' <=> uops[k].seq \in Underway)
        BY <1>14, <2>3, <3>2
      <4> QED
        BY <1>2, <2>1, <3>2, <4>1 DEF Placed
    <3> QED
      BY <3>1, <3>2
  <2> QED
    BY <2>1, <2>2, <2>4 DEF Placed
<1>17. Queued'
  <2>1. Len(uops') = Len(uops) /\ \A k \in 1 .. Len(uops) : uops'[k].seq = uops[k].seq
    BY <1>5 DEF SameUops
  <2>2. Range(cand') \subseteq Known' \ Range(renameQ')
    BY <1>1, <1>2, <1>6 DEF Queued
  <2> QED
    BY <1>1, <1>2, <1>4, <2>1, <2>2 DEF Queued
<1> QED
  BY <1>6, <1>15, <1>16, <1>17

\* A load that starts, its address known to the queue.
LEMMA IssueLoadInPlace ==
  ASSUME Grounded, InPlace, IssueLoad
  PROVE  InPlace'
<1> DEFINE forwarded == Found.kind = "FORWARD"
           bytes == IF forwarded THEN Found.data ELSE LoadBytes(mem, Address, access_size(Wanted.op))
           v == extend_load(Wanted.op, ValueOf(bytes))
           u == [uops[Considered] EXCEPT !.result = v]
           lat == IF forwarded THEN 1 ELSE latency_of(Wanted)
<1>1. /\ Considers /\ Wanted.is_load /\ lq' = Addressed(lq) /\ sq' = sq /\ Starts(u, lat)
  BY DEF IssueLoad
<1>2. /\ Live /\ Wanted \in Decs /\ Considered \in 1 .. Len(uops)
  BY <1>1, ConsideredFacts
<1>3. lat \in Nat \ {0}
  BY <1>2, LatencyPositive
<1>4. PICK X : uops \in Seq(UopOver(X))
  BY DEF Grounded, InStep
<1> HIDE DEF v, forwarded
<1>5. /\ u \in UopOver(X \cup {v})
      /\ u.seq = uops[Considered].seq /\ u.dec = uops[Considered].dec
      /\ u.lsq = uops[Considered].lsq
  <2>1. uops[Considered] \in UopOver(X)
    BY <1>2, <1>4
  <2> QED
    BY <2>1 DEF UopOver
<1> HIDE DEF u, lat
<1>6. /\ Numbered' /\ Listed' /\ Placed' /\ Queued'
      /\ LoadSeats' = LoadSeats /\ StoreSeats' = StoreSeats
  BY <1>1, <1>3, <1>5, StartsInPlace
<1>7. IsRing(Addressed(lq), LqSize) /\ Seats(Addressed(lq)) = Seats(lq)
  BY <1>1, AddressedLoad
<1>8. Seated'
  BY <1>1, <1>2, <1>6, <1>7 DEF Seated, InPlace
<1> QED
  BY <1>6, <1>8 DEF InPlace

\* Everything else, a store telling the queue its address and its data.
LEMMA IssueOtherInPlace ==
  ASSUME Grounded, InPlace, IssueOther
  PROVE  InPlace'
<1> DEFINE d == Wanted
           w == uops[Considered]
           v == Result(d, w.pc, Val1, Val2)
           n == NextPc(d, w.pc, Val1, Val2)
           u == [w EXCEPT !.result = v, !.next = n]
           b == BytesOf(Val2, access_size(d.op))
<1>1. /\ Considers /\ ~d.is_load /\ lq' = lq /\ Starts(u, latency_of(d))
      /\ sq' = IF d.is_store THEN Q!ResolveData(Addressed(sq), w.lsq, b) ELSE sq
  BY DEF IssueOther
<1>2. /\ Live /\ d \in Decs /\ Considered \in 1 .. Len(uops)
  BY <1>1, ConsideredFacts
<1>3. latency_of(d) \in Nat \ {0}
  BY <1>2, LatencyPositive
<1>4. PICK X : uops \in Seq(UopOver(X))
  BY DEF Grounded, InStep
<1> HIDE DEF v, n, b
<1>5. /\ u \in UopOver(X \cup {v, n})
      /\ u.seq = w.seq /\ u.dec = w.dec /\ u.lsq = w.lsq
  <2>1. w \in UopOver(X)
    BY <1>2, <1>4
  <2> HIDE DEF w
  <2> QED
    BY <2>1 DEF UopOver
<1> HIDE DEF u
<1>6. /\ Numbered' /\ Listed' /\ Placed' /\ Queued'
      /\ LoadSeats' = LoadSeats /\ StoreSeats' = StoreSeats
  BY <1>1, <1>3, <1>5, StartsInPlace
<1>7. IsRing(sq', SqSize) /\ Seats(sq') = Seats(sq)
  <2>1. CASE d.is_store
    BY <1>1, <2>1, AddressedStore
  <2>2. CASE ~d.is_store
    BY <1>1, <1>2, <2>2 DEF Seated, InPlace
  <2> QED
    BY <2>1, <2>2
<1>8. Seated'
  BY <1>1, <1>2, <1>6, <1>7 DEF Seated, InPlace
<1> QED
  BY <1>6, <1>8 DEF InPlace

-----------------------------------------------------------------------------
(* Recovery. *)

\* The reorder buffer is cut, and nothing else has moved yet.
LEMMA RecoverInPlace ==
  ASSUME Grounded, InPlace, Recover
  PROVE  InPlace'
<1>1. /\ mode = "run" /\ offender # 0 /\ rob' = SubSeq(rob, 1, offender) /\ cand' = <<>>
      /\ UNCHANGED <<uops, nextSeq, renameQ, iq, lq, sq, executing, wbFast, wbSlow>>
  BY DEF Recover, Ren!Recover, In, results
<1>2. /\ Numbered /\ Listed /\ Placed /\ Queued /\ Seated
      /\ rob \in Seq(RP!Entry) /\ offender \in 0 .. Len(rob)
  BY <1>1 DEF InPlace, Live, Grounded, RP!TypeOK
<1>3. Len(rob') = offender /\ \A i \in 1 .. offender : i \in 1 .. Len(rob) /\ rob'[i] = rob[i]
  BY <1>1, <1>2
<1>4. /\ Numbered' /\ Known' = Known /\ Waiting' = Waiting /\ Underway' = Underway
      /\ LoadSeats' = LoadSeats /\ StoreSeats' = StoreSeats
  BY <1>1, <1>2 DEF Numbered, Known, Waiting, Underway, LoadSeats, StoreSeats
<1>5. cand' \in Seq(Nat) /\ Range(cand') = {}
  BY <1>1 DEF Range
<1>6. Listed'
  BY <1>1, <1>2, <1>4, <1>5 DEF Listed, Apart
<1>7. Placed'
  BY <1>1, <1>2, <1>3, <1>4 DEF Placed
<1>8. Queued'
  BY <1>1, <1>2, <1>4, <1>5 DEF Queued
<1>9. Seated'
  BY <1>1, <1>2, <1>4 DEF Seated
<1> QED
  BY <1>4, <1>6, <1>7, <1>8, <1>9 DEF InPlace

\* The queues keep what is not younger than the branch, which is what the
\* reorder buffer kept: the branch has issued, so no older one waits for a seat.
LEMMA RestoreInPlace ==
  ASSUME Grounded, InPlace, Restore
  PROVE  InPlace'
<1> DEFINE n == Len(rob)
           b == uops[n].seq
           K(q) == {s \in Range(q) : s <= b}
<1>1. /\ mode = "recover" /\ rob' = rob /\ cand' = cand
      /\ uops' = SubSeq(uops, 1, n) /\ nextSeq' = nextSeq
      /\ renameQ' = <<>> /\ iq' = Those(iq, K(iq))
      /\ executing' = Those(executing, K(executing))
      /\ wbFast' = Those(wbFast, K(wbFast)) /\ wbSlow' = Those(wbSlow, K(wbSlow))
      /\ lq' = Q!SquashAfter(lq, b) /\ sq' = Q!SquashAfter(sq, b)
  BY DEF Restore, Ren!Restore
<1>2. /\ Numbered /\ Listed /\ Placed /\ Queued /\ Seated /\ InStep /\ RP!TypeOK
      /\ rob # <<>> /\ rob[n].state = "issued" /\ cand = <<>>
  BY <1>1 DEF InPlace, Live, Grounded, RP!Shape, RP!Resolved, Queued
<1>3. /\ n \in Nat /\ n >= 1 /\ n <= Len(uops) /\ n \in 1 .. Len(uops) /\ Len(uops) \in Nat
      /\ \A i \in 1 .. n : i \in 1 .. Len(uops)
  <2>1. Len(rob) \in Nat /\ Len(rob) >= 1
    BY <1>2 DEF RP!TypeOK
  <2> QED
    BY <1>2, <2>1, UopsFacts
<1>4. b \in Nat /\ b \in Known
  BY <1>2, <1>3 DEF Numbered, Known
<1>5. \A i \in 1 .. Len(uops) : i <= n <=> uops[i].seq <= b
  <2> TAKE i \in 1 .. Len(uops)
  <2>1. CASE i < n
    BY <1>2, <1>3, <2>1 DEF Numbered
  <2>2. CASE i = n
    BY <1>4, <2>2
  <2>3. CASE n < i
    <3>1. b < uops[i].seq /\ uops[i].seq \in Nat
      BY <1>2, <1>3, <2>3 DEF Numbered
    <3> QED
      BY <1>3, <1>4, <2>3, <3>1
  <2> QED
    BY <1>3, <2>1, <2>2, <2>3
<1>6. Len(uops') = n /\ \A i \in 1 .. n : uops'[i] = uops[i]
  <2>1. PICK X : uops \in Seq(UopOver(X))
    BY <1>2 DEF InStep
  <2> DEFINE S == UopOver(X)
  <2>2. uops \in Seq(S) /\ n \in 0 .. Len(uops)
    BY <1>3, <2>1
  <2> HIDE DEF S, n
  <2> QED
    BY <1>1, <2>2
<1>7. b \notin Range(renameQ)
  <2>1. n \in 1 .. Len(rob) /\ rob[n].state # "waiting"
    BY <1>2, <1>3
  <2>2. b \notin Waiting
    BY <1>2, <2>1 DEF Placed
  <2> QED
    BY <2>2 DEF Waiting
<1>8. \A i \in 1 .. n : uops[i].seq \notin Range(renameQ)
  <2> TAKE i \in 1 .. n
  <2>1. CASE i = n
    BY <1>7, <2>1
  <2>2. CASE i < n
    BY <1>2, <1>3, <1>7, <2>2 DEF Queued
  <2> QED
    BY <1>3, <2>1, <2>2
<1> HIDE DEF n, b
<1>9. Numbered' /\ nextSeq' = nextSeq
  BY <1>1, <1>2, <1>3, <1>6 DEF Numbered
<1>10. Known' = {s \in Known : s <= b}
  <2>1. \A i \in 1 .. n : uops'[i].seq = uops[i].seq
    BY <1>6
  <2>2. ASSUME NEW s \in Known' PROVE s \in Known /\ s <= b
    <3>1. PICK i \in 1 .. n : s = uops[i].seq
      BY <1>6, <2>1 DEF Known
    <3> QED
      BY <1>3, <1>5, <3>1 DEF Known
  <2>3. ASSUME NEW s \in Known, s <= b PROVE s \in Known'
    <3>1. PICK i \in 1 .. Len(uops) : s = uops[i].seq
      BY DEF Known
    <3>2. i \in 1 .. n
      BY <1>3, <1>5, <2>3, <3>1
    <3> QED
      BY <1>6, <2>1, <3>1, <3>2 DEF Known
  <2> QED
    BY <2>2, <2>3
<1>11. ASSUME NEW q \in Seq(Nat)
       PROVE  /\ Those(q, K(q)) \in Seq(Nat) /\ Range(Those(q, K(q))) = K(q)
              /\ Ranked(q, Differ) => Ranked(Those(q, K(q)), Differ)
  <2>1. K(q) \subseteq Range(q)
    OBVIOUS
  <2> HIDE DEF K
  <2> QED
    BY <2>1, KeptApart
<1>12. /\ iq' \in Seq(Nat) /\ Range(iq') = K(iq)
       /\ executing' \in Seq(Nat) /\ Ranked(executing', Differ) /\ Range(executing') = K(executing)
       /\ wbFast' \in Seq(Nat) /\ Ranked(wbFast', Differ) /\ Range(wbFast') = K(wbFast)
       /\ wbSlow' \in Seq(Nat) /\ Ranked(wbSlow', Differ) /\ Range(wbSlow') = K(wbSlow)
  <2> HIDE DEF K
  <2> QED
    BY <1>1, <1>2, <1>11 DEF Listed
<1>13. renameQ' \in Seq(Nat) /\ Ranked(renameQ', Precede) /\ Range(renameQ') = {} /\ cand' = <<>>
  BY <1>1, <1>2 DEF Ranked, Range, Queued
<1>14. Listed'
  <2>1. Apart(executing, wbFast)' /\ Apart(executing, wbSlow)' /\ Apart(wbFast, wbSlow)'
    BY <1>2, <1>12 DEF Listed, Apart
  <2>2. Apart(renameQ, iq)' /\ Range(renameQ') \subseteq Known'
    BY <1>13 DEF Apart
  <2>3. /\ Range(iq') \subseteq Known' /\ Range(executing') \subseteq Known'
        /\ Range(wbFast') \subseteq Known' /\ Range(wbSlow') \subseteq Known'
    BY <1>2, <1>10, <1>12 DEF Listed
  <2> QED
    BY <1>12, <1>13, <2>1, <2>2, <2>3 DEF Listed
<1>15. Placed'
  <2>1. ASSUME NEW i \in 1 .. n
        PROVE  /\ rob[i].state = "waiting" <=> uops[i].seq \in Waiting'
               /\ rob[i].state = "issued" <=> uops[i].seq \in Underway'
    <3>1. uops[i].seq <= b /\ uops[i].seq \notin Range(renameQ)
      BY <1>3, <1>5, <1>8
    <3>2. uops[i].seq \in Waiting' <=> uops[i].seq \in Waiting
      BY <1>12, <1>13, <3>1 DEF Waiting
    <3>3. uops[i].seq \in Underway' <=> uops[i].seq \in Underway
      BY <1>12, <3>1 DEF Underway
    <3> QED
      BY <1>2, <3>2, <3>3 DEF Placed, n
  <2>2. Len(rob') = n
    BY <1>1 DEF n
  <2> QED
    BY <1>1, <1>6, <2>1, <2>2 DEF Placed
<1>16. Queued'
  BY <1>13 DEF Queued, Range
<1>17. LoadSeats' = Elders(LoadSeats, b)
  <2>1. ASSUME NEW p \in LoadSeats' PROVE p \in LoadSeats /\ p[1] <= b
    <3>1. PICK i \in 1 .. n : p = <<uops'[i].seq, uops'[i].lsq>> /\ uops'[i].dec.is_load
      BY <1>6 DEF LoadSeats
    <3>2. p = <<uops[i].seq, uops[i].lsq>> /\ uops[i].dec.is_load
      BY <1>6, <3>1
    <3> QED
      BY <1>3, <1>5, <1>8, <3>2 DEF LoadSeats
  <2>2. ASSUME NEW p \in LoadSeats, p[1] <= b PROVE p \in LoadSeats'
    <3>1. PICK i \in 1 .. Len(uops) : p = <<uops[i].seq, uops[i].lsq>> /\ uops[i].dec.is_load
      BY DEF LoadSeats
    <3>2. i \in 1 .. n
      BY <1>3, <1>5, <2>2, <3>1
    <3>3. uops'[i] = uops[i] /\ i \in 1 .. Len(uops') /\ uops'[i].seq \notin Range(renameQ')
      BY <1>6, <1>13, <3>2
    <3> QED
      BY <3>1, <3>3 DEF LoadSeats
  <2> QED
    BY <2>1, <2>2 DEF Elders
<1>18. StoreSeats' = Elders(StoreSeats, b)
  <2>1. ASSUME NEW p \in StoreSeats' PROVE p \in StoreSeats /\ p[1] <= b
    <3>1. PICK i \in 1 .. n : p = <<uops'[i].seq, uops'[i].lsq>> /\ uops'[i].dec.is_store
      BY <1>6 DEF StoreSeats
    <3>2. p = <<uops[i].seq, uops[i].lsq>> /\ uops[i].dec.is_store
      BY <1>6, <3>1
    <3> QED
      BY <1>3, <1>5, <1>8, <3>2 DEF StoreSeats
  <2>2. ASSUME NEW p \in StoreSeats, p[1] <= b PROVE p \in StoreSeats'
    <3>1. PICK i \in 1 .. Len(uops) : p = <<uops[i].seq, uops[i].lsq>> /\ uops[i].dec.is_store
      BY DEF StoreSeats
    <3>2. i \in 1 .. n
      BY <1>3, <1>5, <2>2, <3>1
    <3>3. uops'[i] = uops[i] /\ i \in 1 .. Len(uops') /\ uops'[i].seq \notin Range(renameQ')
      BY <1>6, <1>13, <3>2
    <3> QED
      BY <3>1, <3>3 DEF StoreSeats
  <2> QED
    BY <2>1, <2>2 DEF Elders
<1>19. Seated'
  <2>1. LqSize \in Nat \ {0} /\ SqSize \in Nat \ {0}
    BY PipelineAssumption
  <2>2. IsRing(lq, LqSize) /\ IsRing(sq, SqSize) /\ Seats(lq) = LoadSeats /\ Seats(sq) = StoreSeats
    BY <1>2 DEF Seated
  <2>3. IsRing(lq', LqSize) /\ Seats(lq') = Elders(Seats(lq), b)
    BY <1>1, <1>4, <2>1, <2>2, RingSquash
  <2>4. IsRing(sq', SqSize) /\ Seats(sq') = Elders(Seats(sq), b)
    BY <1>1, <1>4, <2>1, <2>2, RingSquash
  <2> QED
    BY <1>17, <1>18, <2>2, <2>3, <2>4 DEF Seated
<1> QED
  BY <1>9, <1>14, <1>15, <1>16, <1>19 DEF InPlace

-----------------------------------------------------------------------------
(* Commit. *)

\* A queue whose oldest seat is that of `seq` loses it, and no other.
LEMMA PopOldest ==
  ASSUME NEW cap \in Nat \ {0}, NEW q, IsRing(q, cap), NEW seq \in Nat, NEW i,
         <<seq, i>> \in Seats(q), \A p \in Seats(q) : seq <= p[1]
  PROVE  /\ IsRing(Q!PopHead(q), cap) /\ Seats(Q!PopHead(q)) = Others(Seats(q), seq)
         /\ q.count # 0 /\ Q!Nth(q, 0).seq = seq
<1> PICK X : q \in Rings(cap, X)
  BY DEF IsRing
<1>1. q.count # 0
  <2>1. PICK k \in 0 .. q.count - 1 : TRUE
    BY DEF Seats
  <2> QED
    BY <2>1, RingFields
<1>2. /\ IsRing(Q!PopHead(q), cap)
      /\ <<Q!Nth(q, 0).seq, Slot(q, 0)>> \in Seats(q)
      /\ \A p \in Seats(q) : Q!Nth(q, 0).seq <= p[1]
      /\ Seats(Q!PopHead(q)) = Others(Seats(q), Q!Nth(q, 0).seq)
  BY <1>1, RingPop
<1>3. Q!Nth(q, 0).seq \in Nat
  <2>1. q.count \in 0 .. cap
    BY RingFields
  <2>2. 0 \in 0 .. q.count - 1
    BY <1>1, <2>1
  <2> QED
    BY <2>2, RingFields
<1> DEFINE t == Q!Nth(q, 0).seq
<1>4. t <= seq
  <2>1. t <= <<seq, i>>[1]
    BY <1>2
  <2> QED
    BY <2>1
<1>5. seq <= t
  <2>1. seq <= <<t, Slot(q, 0)>>[1]
    BY <1>2
  <2> QED
    BY <2>1
<1>6. t = seq
  BY <1>3, <1>4, <1>5
<1> QED
  BY <1>1, <1>2, <1>6

\* The head of the reorder buffer is in no queue but the memory queue it was
\* dispatched to, whose head it is.
LEMMA CommitInPlace ==
  ASSUME Grounded, InPlace, CommitOne
  PROVE  Live' => InPlace'
<1> SUFFICES ASSUME Live' PROVE InPlace'
  OBVIOUS
<1> DEFINE n == Len(rob)
           d == uops[1].dec
           h == uops[1].seq
<1>1. /\ mode = "run" /\ stage = "commit" /\ stage' = stage /\ cand' = cand /\ CanCommit /\ Ren!Commit
      /\ lq' = IF Head(uops).dec.is_load THEN Q!PopHead(lq) ELSE lq
      /\ sq' = IF Head(uops).dec.is_store THEN Q!PopHead(sq) ELSE sq
      /\ uops' = IF Head(uops).dec.kind = "TRAP" THEN <<>> ELSE Tail(uops)
      /\ UNCHANGED <<nextSeq, renameQ, iq, executing, wbFast, wbSlow>>
  BY DEF CommitOne, Turn, In, results
<1>2. /\ Numbered /\ Listed /\ Placed /\ Queued /\ Seated /\ InStep /\ RP!TypeOK
      /\ Len(uops) = n
  BY <1>1 DEF InPlace, Live, Grounded, InStep
<1>3. /\ n \in Nat /\ n >= 1 /\ Head(rob) = rob[1] /\ Head(uops) = uops[1]
      /\ rob # <<>> /\ rob[1].state = "complete" /\ cand = <<>>
  <2>1. rob \in Seq(RP!Entry) /\ rob # <<>>
    BY <1>1, <1>2 DEF CanCommit, RP!TypeOK
  <2>2. PICK X : uops \in Seq(UopOver(X))
    BY <1>2 DEF InStep
  <2>3. n \in Nat /\ n >= 1 /\ Head(rob) = rob[1] /\ Head(uops) = uops[1]
    BY <1>2, <2>1, <2>2
  <2>4. cand = <<>>
    BY <1>1, <1>2 DEF Queued
  <2> QED
    BY <1>1, <2>1, <2>3, <2>4 DEF CanCommit
<1>4. /\ rob' = Tail(rob) /\ mode' = "run" /\ uops' = Tail(uops)
  <2>1. rob[1].trap <=> d.kind = "TRAP"
    BY <1>2, <1>3 DEF InStep, SameTraps
  <2>2. ~rob[1].trap
    BY <1>1, <1>3 DEF Ren!Commit, Live
  <2>3. rob' = Tail(rob) /\ mode' = mode
    BY <1>1, <1>3, <2>2 DEF Ren!Commit
  <2> QED
    BY <1>1, <1>3, <2>1, <2>2, <2>3
<1>5. /\ Len(rob') = n - 1 /\ \A i \in 1 .. n - 1 : rob'[i] = rob[i + 1]
      /\ Len(uops') = n - 1 /\ \A i \in 1 .. n - 1 : uops'[i] = uops[i + 1] /\ i + 1 \in 1 .. n
  <2>1. rob \in Seq(RP!Entry)
    BY <1>2 DEF RP!TypeOK
  <2>2. PICK X : uops \in Seq(UopOver(X))
    BY <1>2 DEF InStep
  <2> DEFINE S == UopOver(X)
             T == RP!Entry
  <2>3. uops \in Seq(S) /\ rob \in Seq(T)
    BY <2>1, <2>2
  <2> HIDE DEF S, T
  <2> QED
    BY <1>2, <1>3, <1>4, <2>3
<1>6. /\ 1 \in 1 .. n /\ h \in Nat /\ h \in Known /\ h \notin Waiting /\ h \notin Underway
      /\ d \in Decs
  BY <1>2, <1>3 DEF Numbered, Known, Placed
<1>7. \A i \in 1 .. n : uops[i].seq \in Nat /\ (i # 1 => h < uops[i].seq)
  BY <1>2, <1>3 DEF Numbered
<1> HIDE DEF n, h, d
<1>8. \A i \in 1 .. n : i = 1 \/ (i - 1 \in 1 .. n - 1 /\ (i - 1) + 1 = i)
  BY <1>3
<1>9. Numbered'
  <2>1. \A i \in 1 .. n - 1 : uops'[i].seq \in Nat /\ uops'[i].seq < nextSeq /\ uops'[i].dec \in Decs
    BY <1>2, <1>5 DEF Numbered
  <2>2. \A i, j \in 1 .. n - 1 : i < j => uops'[i].seq < uops'[j].seq
    <3> SUFFICES ASSUME NEW i \in 1 .. n - 1, NEW j \in 1 .. n - 1, i < j
                 PROVE  uops'[i].seq < uops'[j].seq
      OBVIOUS
    <3>1. i + 1 \in 1 .. n /\ j + 1 \in 1 .. n /\ i + 1 < j + 1
      BY <1>5
    <3>2. uops[i + 1].seq < uops[j + 1].seq
      BY <1>2, <3>1 DEF Numbered
    <3> QED
      BY <1>5, <3>2
  <2> QED
    BY <1>1, <1>2, <1>5, <2>1, <2>2 DEF Numbered
<1>10. Known' = Known \ {h}
  <2>1. ASSUME NEW s \in Known' PROVE s \in Known /\ s # h
    <3>1. PICK i \in 1 .. n - 1 : s = uops'[i].seq
      BY <1>5 DEF Known
    <3>2. i + 1 \in 1 .. n /\ s = uops[i + 1].seq /\ i + 1 # 1
      BY <1>3, <1>5, <3>1
    <3>3. h < s
      BY <1>7, <3>2
    <3> QED
      BY <1>2, <1>6, <3>2, <3>3 DEF Known
  <2>2. ASSUME NEW s \in Known, s # h PROVE s \in Known'
    <3>1. PICK i \in 1 .. n : s = uops[i].seq
      BY <1>2 DEF Known
    <3>2. i # 1
      BY <2>2, <3>1 DEF h
    <3>3. i - 1 \in 1 .. n - 1 /\ uops'[i - 1] = uops[i]
      BY <1>5, <1>8, <3>2
    <3> QED
      BY <1>5, <3>1, <3>3 DEF Known
  <2> QED
    BY <2>1, <2>2
<1>11. /\ h \notin Range(renameQ) /\ h \notin Range(iq) /\ h \notin Range(executing)
       /\ h \notin Range(wbFast) /\ h \notin Range(wbSlow)
       /\ Waiting' = Waiting /\ Underway' = Underway /\ Range(cand) = {}
  BY <1>1, <1>3, <1>6 DEF Waiting, Underway, Range
<1>12. Listed'
  <2>1. Range(renameQ) \subseteq Known' /\ Range(iq) \subseteq Known'
    BY <1>2, <1>10, <1>11 DEF Listed
  <2>2. /\ Range(executing) \subseteq Known' /\ Range(wbFast) \subseteq Known'
        /\ Range(wbSlow) \subseteq Known'
    BY <1>2, <1>10, <1>11 DEF Listed
  <2> QED
    BY <1>1, <1>2, <2>1, <2>2 DEF Listed, Apart
<1>13. Placed'
  <2> SUFFICES ASSUME NEW i \in 1 .. n - 1
               PROVE  /\ rob'[i].state = "waiting" <=> uops'[i].seq \in Waiting
                      /\ rob'[i].state = "issued" <=> uops'[i].seq \in Underway
    BY <1>5, <1>11 DEF Placed
  <2> QED
    BY <1>2, <1>5 DEF Placed, n
<1>14. Queued'
  <2>1. ASSUME NEW i \in 1 .. n - 1, NEW j \in 1 .. n - 1, i < j, uops'[i].seq \in Range(renameQ)
        PROVE  uops'[j].seq \in Range(renameQ)
    <3>1. i + 1 \in 1 .. n /\ j + 1 \in 1 .. n /\ i + 1 < j + 1
      BY <1>5, <2>1
    <3>2. uops[j + 1].seq \in Range(renameQ)
      BY <1>2, <1>5, <2>1, <3>1 DEF Queued
    <3> QED
      BY <1>5, <3>2
  <2> QED
    BY <1>1, <1>3, <1>5, <1>11, <2>1 DEF Queued
<1>15. LoadSeats' = Others(LoadSeats, h)
  <2>1. ASSUME NEW p \in LoadSeats' PROVE p \in LoadSeats /\ p[1] # h
    <3>1. PICK i \in 1 .. n - 1 : /\ p = <<uops'[i].seq, uops'[i].lsq>> /\ uops'[i].dec.is_load
                                  /\ uops'[i].seq \notin Range(renameQ)
      BY <1>1, <1>5 DEF LoadSeats
    <3>2. /\ i + 1 \in 1 .. n /\ i + 1 # 1 /\ p = <<uops[i + 1].seq, uops[i + 1].lsq>>
          /\ uops[i + 1].dec.is_load /\ uops[i + 1].seq \notin Range(renameQ)
      BY <1>3, <1>5, <3>1
    <3>3. h < p[1] /\ p[1] \in Nat
      BY <1>7, <3>2
    <3>4. p \in LoadSeats
      BY <1>2, <3>2 DEF LoadSeats
    <3> QED
      BY <1>6, <3>3, <3>4
  <2>2. ASSUME NEW p \in LoadSeats, p[1] # h PROVE p \in LoadSeats'
    <3>1. PICK i \in 1 .. n : /\ p = <<uops[i].seq, uops[i].lsq>> /\ uops[i].dec.is_load
                              /\ uops[i].seq \notin Range(renameQ)
      BY <1>2 DEF LoadSeats
    <3>2. i # 1
      BY <2>2, <3>1 DEF h
    <3>3. i - 1 \in 1 .. n - 1 /\ uops'[i - 1] = uops[i]
      BY <1>5, <1>8, <3>2
    <3> QED
      BY <1>1, <1>5, <3>1, <3>3 DEF LoadSeats
  <2> QED
    BY <2>1, <2>2 DEF Others
<1>16. StoreSeats' = Others(StoreSeats, h)
  <2>1. ASSUME NEW p \in StoreSeats' PROVE p \in StoreSeats /\ p[1] # h
    <3>1. PICK i \in 1 .. n - 1 : /\ p = <<uops'[i].seq, uops'[i].lsq>> /\ uops'[i].dec.is_store
                                  /\ uops'[i].seq \notin Range(renameQ)
      BY <1>1, <1>5 DEF StoreSeats
    <3>2. /\ i + 1 \in 1 .. n /\ i + 1 # 1 /\ p = <<uops[i + 1].seq, uops[i + 1].lsq>>
          /\ uops[i + 1].dec.is_store /\ uops[i + 1].seq \notin Range(renameQ)
      BY <1>3, <1>5, <3>1
    <3>3. h < p[1] /\ p[1] \in Nat
      BY <1>7, <3>2
    <3>4. p \in StoreSeats
      BY <1>2, <3>2 DEF StoreSeats
    <3> QED
      BY <1>6, <3>3, <3>4
  <2>2. ASSUME NEW p \in StoreSeats, p[1] # h PROVE p \in StoreSeats'
    <3>1. PICK i \in 1 .. n : /\ p = <<uops[i].seq, uops[i].lsq>> /\ uops[i].dec.is_store
                              /\ uops[i].seq \notin Range(renameQ)
      BY <1>2 DEF StoreSeats
    <3>2. i # 1
      BY <2>2, <3>1 DEF h
    <3>3. i - 1 \in 1 .. n - 1 /\ uops'[i - 1] = uops[i]
      BY <1>5, <1>8, <3>2
    <3> QED
      BY <1>1, <1>5, <3>1, <3>3 DEF StoreSeats
  <2> QED
    BY <2>1, <2>2 DEF Others
<1>17. /\ LqSize \in Nat \ {0} /\ SqSize \in Nat \ {0}
       /\ IsRing(lq, LqSize) /\ IsRing(sq, SqSize) /\ Seats(lq) = LoadSeats /\ Seats(sq) = StoreSeats
  BY <1>2, PipelineAssumption DEF Seated
<1>18. ASSUME NEW p \in LoadSeats \cup StoreSeats
       PROVE  h <= p[1]
  <2>1. PICK i \in 1 .. n : p = <<uops[i].seq, uops[i].lsq>>
    BY <1>2 DEF LoadSeats, StoreSeats
  <2>2. CASE i = 1
    BY <1>6, <2>1, <2>2 DEF h, d
  <2>3. CASE i # 1
    BY <1>6, <1>7, <2>1, <2>3
  <2> QED
    BY <2>2, <2>3
<1>19. IsRing(lq', LqSize) /\ Seats(lq') = Others(LoadSeats, h)
  <2>1. CASE d.is_load
    <3>1. lq' = Q!PopHead(lq)
      BY <1>1, <1>3, <2>1 DEF d
    <3>2. <<h, uops[1].lsq>> \in Seats(lq)
      BY <1>2, <1>6, <1>11, <1>17, <2>1 DEF LoadSeats, h, d
    <3>3. \A p \in Seats(lq) : h <= p[1]
      BY <1>17, <1>18
    <3> QED
      BY <1>6, <1>17, <3>1, <3>2, <3>3, PopOldest
  <2>2. CASE ~d.is_load
    <3>1. lq' = lq
      BY <1>1, <1>3, <2>2 DEF d
    <3>2. \A p \in LoadSeats : p[1] # h
      <4> SUFFICES ASSUME NEW p \in LoadSeats, p[1] = h PROVE FALSE
        OBVIOUS
      <4>1. PICK i \in 1 .. n : p = <<uops[i].seq, uops[i].lsq>> /\ uops[i].dec.is_load
        BY <1>2 DEF LoadSeats
      <4>2. i # 1
        BY <2>2, <4>1 DEF d
      <4> QED
        BY <1>6, <1>7, <4>1, <4>2
    <3> QED
      BY <1>17, <3>1, <3>2 DEF Others
  <2> QED
    BY <2>1, <2>2
<1>20. IsRing(sq', SqSize) /\ Seats(sq') = Others(StoreSeats, h)
  <2>1. CASE d.is_store
    <3>1. sq' = Q!PopHead(sq)
      BY <1>1, <1>3, <2>1 DEF d
    <3>2. <<h, uops[1].lsq>> \in Seats(sq)
      BY <1>2, <1>6, <1>11, <1>17, <2>1 DEF StoreSeats, h, d
    <3>3. \A p \in Seats(sq) : h <= p[1]
      BY <1>17, <1>18
    <3> QED
      BY <1>6, <1>17, <3>1, <3>2, <3>3, PopOldest
  <2>2. CASE ~d.is_store
    <3>1. sq' = sq
      BY <1>1, <1>3, <2>2 DEF d
    <3>2. \A p \in StoreSeats : p[1] # h
      <4> SUFFICES ASSUME NEW p \in StoreSeats, p[1] = h PROVE FALSE
        OBVIOUS
      <4>1. PICK i \in 1 .. n : p = <<uops[i].seq, uops[i].lsq>> /\ uops[i].dec.is_store
        BY <1>2 DEF StoreSeats
      <4>2. i # 1
        BY <2>2, <4>1 DEF d
      <4> QED
        BY <1>6, <1>7, <4>1, <4>2
    <3> QED
      BY <1>17, <3>1, <3>2 DEF Others
  <2> QED
    BY <2>1, <2>2
<1>21. Seated'
  BY <1>15, <1>16, <1>19, <1>20 DEF Seated
<1> QED
  BY <1>9, <1>12, <1>13, <1>14, <1>21 DEF InPlace

-----------------------------------------------------------------------------
(* Dispatch and rename. *)

\* dispatch() moves the oldest instruction renamed, and seats it behind every
\* other access.
LEMMA DispatchInPlace ==
  ASSUME Grounded, InPlace, DispatchOne
  PROVE  InPlace'
<1> DEFINE h == Head(renameQ)
           i == At(h)
           d == uops[i].dec
           seat == IF d.is_load THEN Q!Tailed(lq) ELSE IF d.is_store THEN Q!Tailed(sq) ELSE uops[i].lsq
<1>1. /\ mode = "run" /\ stage = "dispatch" /\ stage' = stage /\ cand' = cand
      /\ renameQ # <<>> /\ renameQ' = Tail(renameQ) /\ iq' = Append(iq, h)
      /\ (d.is_load => ~Q!Full(lq)) /\ (d.is_store => ~Q!Full(sq))
      /\ lq' = IF d.is_load THEN Q!Alloc(lq, h, access_size(d.op)) ELSE lq
      /\ sq' = IF d.is_store THEN Q!Alloc(sq, h, access_size(d.op)) ELSE sq
      /\ uops' = [uops EXCEPT ![i] = [uops[i] EXCEPT !.lsq = seat]]
      /\ rob' = rob /\ mode' = mode
      /\ UNCHANGED <<nextSeq, executing, wbFast, wbSlow>>
  BY DEF DispatchOne, Turn, In, CanDispatch, IsLoad, UopOf, renaming, results
<1>2. /\ Numbered /\ Listed /\ Placed /\ Queued /\ Seated /\ InStep /\ RP!TypeOK
  BY <1>1 DEF InPlace, Live, Grounded
<1>3. /\ Tail(renameQ) \in Seq(Nat) /\ h \in Nat
      /\ Range(renameQ) = {h} \cup Range(Tail(renameQ))
      /\ Ranked(Tail(renameQ), Precede)
      /\ \A v \in Range(Tail(renameQ)) : <<h, v>> \in Precede
  BY <1>1, <1>2, TailOrder DEF Listed
<1>4. \A v \in Range(Tail(renameQ)) : h < v /\ v \in Nat
  BY <1>3 DEF Precede
<1>5. h \in Known /\ i \in 1 .. Len(uops) /\ uops[i].seq = h /\ Len(uops) \in Nat
  <2>1. h \in Known
    BY <1>2, <1>3 DEF Listed
  <2> QED
    BY <1>2, <2>1, AtFacts, UopsFacts
<1>6. d \in Decs
  BY <1>2, <1>5 DEF Numbered
<1>7. ~(d.is_load /\ d.is_store)
  BY <1>6, DecodedKind
<1>8. /\ Len(uops') = Len(uops)
      /\ \A k \in 1 .. Len(uops) : /\ uops'[k].seq = uops[k].seq /\ uops'[k].dec = uops[k].dec
                                   /\ k # i => uops'[k].lsq = uops[k].lsq
      /\ uops'[i].lsq = seat
  <2>1. PICK X : uops \in Seq(UopOver(X))
    BY <1>2 DEF InStep
  <2> DEFINE v == [uops[i] EXCEPT !.lsq = seat]
  <2>2. uops[i] \in UopOver(X)
    BY <1>5, <2>1
  <2> HIDE DEF i, seat
  <2>3. v.seq = uops[i].seq /\ v.dec = uops[i].dec /\ v.lsq = seat
    BY <2>2 DEF UopOver
  <2> HIDE DEF v
  <2>4. Len(uops') = Len(uops) /\ \A k \in 1 .. Len(uops) : uops'[k] = IF k = i THEN v ELSE uops[k]
    <3>1. uops' = [uops EXCEPT ![i] = v]
      BY <1>1 DEF v, seat, i
    <3> QED
      BY <1>5, <2>1, <3>1, UopsSet
  <2> QED
    BY <1>5, <2>3, <2>4
<1>9. \A k \in 1 .. Len(uops) : k = i \/ uops[k].seq # h
  BY <1>2, <1>5, AtFacts
<1>10. \A k \in 1 .. Len(uops) : uops[k].seq \notin Range(renameQ) => uops[k].seq < h
  <2> SUFFICES ASSUME NEW k \in 1 .. Len(uops), uops[k].seq \notin Range(renameQ)
               PROVE  uops[k].seq < h
    OBVIOUS
  <2>1. h \in Range(renameQ)
    BY <1>3
  <2>2. ~(i < k) /\ k # i
    BY <1>2, <1>5, <2>1 DEF Queued
  <2> HIDE DEF i
  <2>3. k < i
    BY <1>5, <2>2
  <2> QED
    BY <1>2, <1>5, <2>3 DEF Numbered
<1>11. h \notin Range(Tail(renameQ)) /\ h \notin Range(iq)
  <2>1. h \notin Range(Tail(renameQ))
    BY <1>3, <1>4
  <2> QED
    BY <1>2, <1>3, <2>1 DEF Listed, Apart
<1> HIDE DEF h, i, d, seat
<1>12. iq' \in Seq(Nat) /\ Range(iq') = Range(iq) \cup {h}
  <2>1. iq \in Seq(Nat)
    BY <1>2 DEF Listed
  <2>2. iq' = Append(iq, h) /\ h \in Nat
    BY <1>1, <1>3
  <2> QED
    BY <2>1, <2>2, AppendRange
<1>13. Numbered' /\ Known' = Known
  BY <1>1, <1>2, <1>8 DEF Numbered, Known
<1>14. Waiting' = Waiting /\ Underway' = Underway
  BY <1>1, <1>3, <1>12 DEF Waiting, Underway
<1>15. Listed'
  <2>1. Apart(renameQ, iq)' /\ Range(renameQ') \subseteq Known /\ Range(iq') \subseteq Known
    BY <1>1, <1>2, <1>3, <1>5, <1>11, <1>12 DEF Listed, Apart
  <2> QED
    BY <1>1, <1>2, <1>3, <1>12, <1>13, <2>1 DEF Listed, Apart
<1>16. Placed'
  <2>1. \A k \in 1 .. Len(rob) : k \in 1 .. Len(uops)
    BY <1>2, UopsFacts
  <2> QED
    BY <1>1, <1>2, <1>8, <1>14, <2>1 DEF Placed
<1>17. Queued'
  <2>1. ASSUME NEW j \in 1 .. Len(uops), NEW k \in 1 .. Len(uops), j < k,
               uops[j].seq \in Range(Tail(renameQ))
        PROVE  uops[k].seq \in Range(Tail(renameQ))
    <3>1. uops[k].seq \in Range(renameQ)
      BY <1>2, <1>3, <2>1 DEF Queued
    <3>2. h < uops[j].seq /\ uops[j].seq < uops[k].seq /\ uops[j].seq \in Nat /\ uops[k].seq \in Nat
      BY <1>2, <1>4, <2>1 DEF Numbered
    <3>3. uops[k].seq # h
      <4>1. h \in Nat
        BY <1>3
      <4> QED
        BY <3>2, <4>1
    <3> QED
      BY <1>3, <3>1, <3>3
  <2>2. cand = <<>> /\ Range(cand) = {}
    BY <1>1, <1>2 DEF Queued, Range
  <2> QED
    BY <1>1, <1>8, <2>1, <2>2 DEF Queued
<1>18. ASSUME NEW k \in 1 .. Len(uops)
       PROVE  uops[k].seq \notin Range(renameQ') <=> (k = i \/ uops[k].seq \notin Range(renameQ))
  BY <1>1, <1>3, <1>5, <1>9, <1>11
<1>19. LoadSeats' = IF d.is_load THEN LoadSeats \cup {<<h, seat>>} ELSE LoadSeats
  <2>1. ASSUME NEW p \in LoadSeats' PROVE p \in LoadSeats \/ (d.is_load /\ p = <<h, seat>>)
    <3>1. PICK k \in 1 .. Len(uops) :
            /\ p = <<uops'[k].seq, uops'[k].lsq>> /\ uops'[k].dec.is_load
            /\ uops'[k].seq \notin Range(renameQ')
      BY <1>8 DEF LoadSeats
    <3>2. /\ p = <<uops[k].seq, uops'[k].lsq>> /\ uops[k].dec.is_load
          /\ k = i \/ uops[k].seq \notin Range(renameQ)
      BY <1>8, <1>18, <3>1
    <3>3. CASE k = i
      BY <1>5, <1>8, <3>2, <3>3 DEF d
    <3>4. CASE k # i
      <4>1. p = <<uops[k].seq, uops[k].lsq>> /\ uops[k].seq \notin Range(renameQ)
        BY <1>8, <3>2, <3>4
      <4> QED
        BY <3>2, <4>1 DEF LoadSeats
    <3> QED
      BY <3>3, <3>4
  <2>2. ASSUME NEW p \in LoadSeats PROVE p \in LoadSeats'
    <3>1. PICK k \in 1 .. Len(uops) :
            /\ p = <<uops[k].seq, uops[k].lsq>> /\ uops[k].dec.is_load
            /\ uops[k].seq \notin Range(renameQ)
      BY DEF LoadSeats
    <3>2. k # i
      BY <1>3, <1>5, <3>1
    <3>3. /\ p = <<uops'[k].seq, uops'[k].lsq>> /\ uops'[k].dec.is_load
          /\ uops'[k].seq \notin Range(renameQ')
      BY <1>8, <1>18, <3>1, <3>2
    <3> QED
      BY <1>8, <3>3 DEF LoadSeats
  <2>3. ASSUME d.is_load PROVE <<h, seat>> \in LoadSeats'
    <3>1. /\ <<h, seat>> = <<uops'[i].seq, uops'[i].lsq>> /\ uops'[i].dec.is_load
          /\ uops'[i].seq \notin Range(renameQ')
      BY <1>5, <1>8, <1>18, <2>3 DEF d
    <3> QED
      BY <1>5, <1>8, <3>1 DEF LoadSeats
  <2> QED
    BY <2>1, <2>2, <2>3
<1>20. StoreSeats' = IF d.is_store THEN StoreSeats \cup {<<h, seat>>} ELSE StoreSeats
  <2>1. ASSUME NEW p \in StoreSeats' PROVE p \in StoreSeats \/ (d.is_store /\ p = <<h, seat>>)
    <3>1. PICK k \in 1 .. Len(uops) :
            /\ p = <<uops'[k].seq, uops'[k].lsq>> /\ uops'[k].dec.is_store
            /\ uops'[k].seq \notin Range(renameQ')
      BY <1>8 DEF StoreSeats
    <3>2. /\ p = <<uops[k].seq, uops'[k].lsq>> /\ uops[k].dec.is_store
          /\ k = i \/ uops[k].seq \notin Range(renameQ)
      BY <1>8, <1>18, <3>1
    <3>3. CASE k = i
      BY <1>5, <1>8, <3>2, <3>3 DEF d
    <3>4. CASE k # i
      <4>1. p = <<uops[k].seq, uops[k].lsq>> /\ uops[k].seq \notin Range(renameQ)
        BY <1>8, <3>2, <3>4
      <4> QED
        BY <3>2, <4>1 DEF StoreSeats
    <3> QED
      BY <3>3, <3>4
  <2>2. ASSUME NEW p \in StoreSeats PROVE p \in StoreSeats'
    <3>1. PICK k \in 1 .. Len(uops) :
            /\ p = <<uops[k].seq, uops[k].lsq>> /\ uops[k].dec.is_store
            /\ uops[k].seq \notin Range(renameQ)
      BY DEF StoreSeats
    <3>2. k # i
      BY <1>3, <1>5, <3>1
    <3>3. /\ p = <<uops'[k].seq, uops'[k].lsq>> /\ uops'[k].dec.is_store
          /\ uops'[k].seq \notin Range(renameQ')
      BY <1>8, <1>18, <3>1, <3>2
    <3> QED
      BY <1>8, <3>3 DEF StoreSeats
  <2>3. ASSUME d.is_store PROVE <<h, seat>> \in StoreSeats'
    <3>1. /\ <<h, seat>> = <<uops'[i].seq, uops'[i].lsq>> /\ uops'[i].dec.is_store
          /\ uops'[i].seq \notin Range(renameQ')
      BY <1>5, <1>8, <1>18, <2>3 DEF d
    <3> QED
      BY <1>5, <1>8, <3>1 DEF StoreSeats
  <2> QED
    BY <2>1, <2>2, <2>3
<1>21. /\ LqSize \in Nat \ {0} /\ SqSize \in Nat \ {0}
       /\ IsRing(lq, LqSize) /\ IsRing(sq, SqSize) /\ Seats(lq) = LoadSeats /\ Seats(sq) = StoreSeats
       /\ (\A p \in Seats(lq) : p[1] < h) /\ (\A p \in Seats(sq) : p[1] < h)
  <2>1. /\ LqSize \in Nat \ {0} /\ SqSize \in Nat \ {0}
        /\ IsRing(lq, LqSize) /\ IsRing(sq, SqSize)
        /\ Seats(lq) = LoadSeats /\ Seats(sq) = StoreSeats
    BY <1>2, PipelineAssumption DEF Seated
  <2>2. \A p \in LoadSeats : p[1] < h
    BY <1>10 DEF LoadSeats
  <2>3. \A p \in StoreSeats : p[1] < h
    BY <1>10 DEF StoreSeats
  <2> QED
    BY <2>1, <2>2, <2>3
<1>22. IsRing(lq', LqSize) /\ Seats(lq') = LoadSeats'
  <2>1. CASE d.is_load
    <3> DEFINE size == access_size(d.op)
    <3>1. lq' = Q!Alloc(lq, h, size) /\ seat = Q!Tailed(lq) /\ ~Q!Full(lq)
      BY <1>1, <2>1 DEF seat
    <3> HIDE DEF size
    <3>2. IsRing(lq', LqSize) /\ Seats(lq') = Seats(lq) \cup {<<h, Q!Tailed(lq)>>}
      BY <1>3, <1>21, <3>1, RingAlloc DEF h
    <3> QED
      BY <1>19, <1>21, <2>1, <3>1, <3>2
  <2>2. CASE ~d.is_load
    BY <1>1, <1>19, <1>21, <2>2
  <2> QED
    BY <2>1, <2>2
<1>23. IsRing(sq', SqSize) /\ Seats(sq') = StoreSeats'
  <2>1. CASE d.is_store
    <3> DEFINE size == access_size(d.op)
    <3>1. sq' = Q!Alloc(sq, h, size) /\ seat = Q!Tailed(sq) /\ ~Q!Full(sq)
      BY <1>1, <1>7, <2>1 DEF seat
    <3> HIDE DEF size
    <3>2. IsRing(sq', SqSize) /\ Seats(sq') = Seats(sq) \cup {<<h, Q!Tailed(sq)>>}
      BY <1>3, <1>21, <3>1, RingAlloc DEF h
    <3> QED
      BY <1>20, <1>21, <2>1, <3>1, <3>2
  <2>2. CASE ~d.is_store
    BY <1>1, <1>20, <1>21, <2>2
  <2> QED
    BY <2>1, <2>2
<1>24. Seated'
  BY <1>22, <1>23 DEF Seated
<1> QED
  BY <1>13, <1>15, <1>16, <1>17, <1>24 DEF InPlace

\* rename() numbers one more, which waits behind the others.
LEMMA RenameInPlace ==
  ASSUME Grounded, InPlace, RenameOne
  PROVE  InPlace'
<1> DEFINE n == Len(uops)
           f == Head(decodeQ)
           u == [seq |-> nextSeq, pc |-> f.pc, dec |-> f.dec, pred |-> f.pred,
                 next |-> link_address(f.pc), robNext |-> link_address(f.pc),
                 result |-> 0, lsq |-> 0, wb |-> 0]
<1>1. /\ mode = "run" /\ mode' = "run" /\ stage = "rename" /\ stage' = stage /\ cand' = cand
      /\ decodeQ # <<>> /\ uops' = Append(uops, u)
      /\ nextSeq' = nextSeq + 1 /\ renameQ' = Append(renameQ, nextSeq)
      /\ UNCHANGED <<iq, lq, sq, executing, wbFast, wbSlow>>
  BY DEF RenameOne, Turn, In, CanRename, Ren!Rename, results
<1>2. /\ Numbered /\ Listed /\ Placed /\ Queued /\ Seated /\ InStep /\ RP!TypeOK
      /\ CarryWords /\ n \in Nat /\ Len(rob) = n
  <2>1. /\ Numbered /\ Listed /\ Placed /\ Queued /\ Seated /\ InStep /\ RP!TypeOK /\ CarryWords
    BY <1>1 DEF InPlace, Live, Grounded
  <2> QED
    BY <1>1, <2>1, UopsFacts
<1>3. u.seq = nextSeq /\ u.dec \in Decs
  <2>1. PICK X : decodeQ \in Seq(DecodedAt(X))
    BY <1>2 DEF CarryWords, QueuesOver
  <2>2. f \in DecodedAt(X)
    BY <1>1, <2>1
  <2>3. f.dec \in Decs
    BY <2>2 DEF DecodedAt, Decs
  <2> HIDE DEF f
  <2> QED
    BY <2>3
<1>4. /\ Len(uops') = n + 1 /\ uops'[n + 1] = u
      /\ \A i \in 1 .. n : uops'[i] = uops[i]
  <2>1. \E S : uops \in Seq(S)
    BY <1>2 DEF InStep
  <2>2. PICK S : uops \in Seq(S)
    BY <2>1
  <2> HIDE DEF u
  <2>3. uops \in Seq(S \cup {u})
    BY <2>2, SeqMonotonic
  <2> QED
    BY <1>1, <2>3
<1>5. /\ Len(rob') = n + 1 /\ rob'[n + 1].state = "waiting"
      /\ \A i \in 1 .. n : rob'[i] = rob[i]
  <2>1. PICK dest, id : rob' = Append(rob, Ren!Renamed(ShapeOf(f.dec), dest, id))
    BY DEF RenameOne, Ren!Rename
  <2> DEFINE w == Ren!Renamed(ShapeOf(f.dec), dest, id)
  <2>2. w.state = "waiting"
    BY DEF Ren!Renamed
  <2>3. rob \in Seq(RP!Entry)
    BY <1>2 DEF RP!TypeOK
  <2> HIDE DEF w
  <2>4. rob \in Seq(RP!Entry \cup {w})
    BY <2>3, SeqMonotonic
  <2> QED
    BY <1>2, <2>1, <2>2, <2>4 DEF w
<1> HIDE DEF n, u
<1>6. \A i \in 1 .. n + 1 : i \in 1 .. n \/ i = n + 1
  BY <1>2
<1>7. nextSeq \in Nat /\ \A s \in Known : s < nextSeq /\ s \in Nat
  BY <1>2 DEF Numbered, Known
<1>8. /\ nextSeq \notin Range(renameQ) /\ nextSeq \notin Range(iq)
      /\ nextSeq \notin Range(executing) /\ nextSeq \notin Range(wbFast)
      /\ nextSeq \notin Range(wbSlow) /\ nextSeq \notin Underway
  <2>1. nextSeq \notin Known
    BY <1>7
  <2> QED
    BY <1>2, <2>1 DEF Listed, Underway
<1>9. /\ renameQ' \in Seq(Nat) /\ Range(renameQ') = Range(renameQ) \cup {nextSeq}
      /\ Ranked(renameQ', Precede)
  <2>1. renameQ \in Seq(Nat) /\ Ranked(renameQ, Precede) /\ Range(renameQ) \subseteq Known
    BY <1>2 DEF Listed
  <2>2. \A v \in Range(renameQ) : <<v, nextSeq>> \in Precede
    BY <1>7, <2>1 DEF Precede
  <2> QED
    BY <1>1, <1>7, <2>1, <2>2, AppendOrder
<1>10. Numbered'
  <2>1. \A i \in 1 .. n + 1 : /\ uops'[i].seq \in Nat /\ uops'[i].seq < nextSeq + 1
                              /\ uops'[i].dec \in Decs
    <3> TAKE i \in 1 .. n + 1
    <3>1. CASE i \in 1 .. n
      <4>1. uops[i].seq \in Nat /\ uops[i].seq < nextSeq /\ uops[i].dec \in Decs
        BY <1>2, <3>1 DEF Numbered, n
      <4> QED
        BY <1>4, <1>7, <3>1, <4>1
    <3>2. CASE i = n + 1
      BY <1>3, <1>4, <1>7, <3>2
    <3> QED
      BY <1>6, <3>1, <3>2
  <2>2. ASSUME NEW i \in 1 .. n + 1, NEW j \in 1 .. n + 1, i < j
        PROVE  uops'[i].seq < uops'[j].seq
    <3>1. i \in 1 .. n
      BY <1>2, <2>2
    <3>2. CASE j \in 1 .. n
      BY <1>2, <1>4, <2>2, <3>1, <3>2 DEF Numbered, n
    <3>3. CASE j = n + 1
      BY <1>2, <1>3, <1>4, <3>1, <3>3 DEF Numbered, n
    <3> QED
      BY <1>6, <3>2, <3>3
  <2> QED
    BY <1>1, <1>4, <1>7, <2>1, <2>2 DEF Numbered
<1>11. Known' = Known \cup {nextSeq}
  <2>1. ASSUME NEW s \in Known' PROVE s \in Known \cup {nextSeq}
    <3>1. PICK i \in 1 .. n + 1 : s = uops'[i].seq
      BY <1>4 DEF Known
    <3> QED
      BY <1>3, <1>4, <1>6, <3>1 DEF Known, n
  <2>2. ASSUME NEW s \in Known PROVE s \in Known'
    <3>1. PICK i \in 1 .. n : s = uops[i].seq
      BY DEF Known, n
    <3>2. i \in 1 .. n + 1
      BY <1>2, <3>1
    <3> QED
      BY <1>4, <3>1, <3>2 DEF Known
  <2>3. nextSeq \in Known'
    <3>1. n + 1 \in 1 .. n + 1
      BY <1>2
    <3> QED
      BY <1>3, <1>4, <3>1 DEF Known
  <2> QED
    BY <2>1, <2>2, <2>3
<1>12. Waiting' = Waiting \cup {nextSeq} /\ Underway' = Underway
  BY <1>1, <1>9 DEF Waiting, Underway
<1>13. Listed'
  <2>1. Apart(renameQ, iq)' /\ Range(renameQ') \subseteq Known' /\ Range(iq') \subseteq Known'
    BY <1>1, <1>2, <1>8, <1>9, <1>11 DEF Listed, Apart
  <2>2. /\ Range(executing') \subseteq Known' /\ Range(wbFast') \subseteq Known'
        /\ Range(wbSlow') \subseteq Known'
    BY <1>1, <1>2, <1>11 DEF Listed
  <2> QED
    BY <1>1, <1>2, <1>9, <2>1, <2>2 DEF Listed, Apart
<1>14. \A i \in 1 .. n : uops[i].seq \in Known /\ uops[i].seq # nextSeq
  <2>1. \A i \in 1 .. n : uops[i].seq \in Known
    BY DEF Known, n
  <2> QED
    BY <1>7, <2>1
<1>15. Placed'
  <2> SUFFICES ASSUME NEW i \in 1 .. n + 1
               PROVE  /\ rob'[i].state = "waiting" <=> uops'[i].seq \in Waiting'
                      /\ rob'[i].state = "issued" <=> uops'[i].seq \in Underway'
    BY <1>5 DEF Placed
  <2>1. CASE i \in 1 .. n
    BY <1>2, <1>4, <1>5, <1>12, <1>14, <2>1 DEF Placed
  <2>2. CASE i = n + 1
    BY <1>3, <1>4, <1>5, <1>8, <1>12, <2>2
  <2> QED
    BY <1>6, <2>1, <2>2
<1>16. Queued'
  <2>1. ASSUME NEW i \in 1 .. n + 1, NEW j \in 1 .. n + 1, i < j, uops'[i].seq \in Range(renameQ')
        PROVE  uops'[j].seq \in Range(renameQ')
    <3>1. i \in 1 .. n
      BY <1>2, <2>1
    <3>2. CASE j \in 1 .. n
      <4>1. uops[i].seq \in Range(renameQ)
        BY <1>4, <1>9, <1>14, <2>1, <3>1
      <4>2. uops[j].seq \in Range(renameQ)
        BY <1>2, <2>1, <3>1, <3>2, <4>1 DEF Queued, n
      <4> QED
        BY <1>4, <1>9, <3>2, <4>2
    <3>3. CASE j = n + 1
      BY <1>3, <1>4, <1>9, <3>3
    <3> QED
      BY <1>6, <3>2, <3>3
  <2>2. cand = <<>> /\ Range(cand) = {}
    BY <1>1, <1>2 DEF Queued, Range
  <2> QED
    BY <1>1, <1>4, <2>1, <2>2 DEF Queued
<1>17. LoadSeats' = LoadSeats
  <2>1. ASSUME NEW p \in LoadSeats' PROVE p \in LoadSeats
    <3>1. PICK i \in 1 .. n + 1 : /\ p = <<uops'[i].seq, uops'[i].lsq>> /\ uops'[i].dec.is_load
                                  /\ uops'[i].seq \notin Range(renameQ')
      BY <1>4 DEF LoadSeats
    <3>2. i \in 1 .. n
      BY <1>3, <1>4, <1>6, <1>9, <3>1
    <3> QED
      BY <1>4, <1>9, <3>1, <3>2 DEF LoadSeats, n
  <2>2. ASSUME NEW p \in LoadSeats PROVE p \in LoadSeats'
    <3>1. PICK i \in 1 .. n : /\ p = <<uops[i].seq, uops[i].lsq>> /\ uops[i].dec.is_load
                              /\ uops[i].seq \notin Range(renameQ)
      BY DEF LoadSeats, n
    <3>2. i \in 1 .. n + 1 /\ uops'[i] = uops[i] /\ uops[i].seq \notin Range(renameQ')
      BY <1>2, <1>4, <1>9, <1>14, <3>1
    <3> QED
      BY <1>4, <3>1, <3>2 DEF LoadSeats
  <2> QED
    BY <2>1, <2>2
<1>18. StoreSeats' = StoreSeats
  <2>1. ASSUME NEW p \in StoreSeats' PROVE p \in StoreSeats
    <3>1. PICK i \in 1 .. n + 1 : /\ p = <<uops'[i].seq, uops'[i].lsq>> /\ uops'[i].dec.is_store
                                  /\ uops'[i].seq \notin Range(renameQ')
      BY <1>4 DEF StoreSeats
    <3>2. i \in 1 .. n
      BY <1>3, <1>4, <1>6, <1>9, <3>1
    <3> QED
      BY <1>4, <1>9, <3>1, <3>2 DEF StoreSeats, n
  <2>2. ASSUME NEW p \in StoreSeats PROVE p \in StoreSeats'
    <3>1. PICK i \in 1 .. n : /\ p = <<uops[i].seq, uops[i].lsq>> /\ uops[i].dec.is_store
                              /\ uops[i].seq \notin Range(renameQ)
      BY DEF StoreSeats, n
    <3>2. i \in 1 .. n + 1 /\ uops'[i] = uops[i] /\ uops[i].seq \notin Range(renameQ')
      BY <1>2, <1>4, <1>9, <1>14, <3>1
    <3> QED
      BY <1>4, <3>1, <3>2 DEF StoreSeats
  <2> QED
    BY <2>1, <2>2
<1>19. Seated'
  BY <1>1, <1>2, <1>17, <1>18 DEF Seated
<1> QED
  BY <1>10, <1>13, <1>15, <1>16, <1>19 DEF InPlace

-----------------------------------------------------------------------------
(* The whole machine. *)

\* Every step keeps everything in its place.
LEMMA NextInPlace == Grounded /\ InPlace /\ [Next]_vars => InPlace'
<1> SUFFICES ASSUME Grounded, InPlace, [Next]_vars
             PROVE  InPlace'
  OBVIOUS
<1>1. CASE ~Live'
  BY <1>1 DEF InPlace
<1>2. CASE Live'
  <2>1. Live
    BY <1>2, LiveBefore
  <2>2. CASE \/ Tick \/ Rest \/ CommitEnd \/ WritebackEnd \/ IssueEnd \/ DispatchEnd \/ RenameEnd
             \/ DecodeOne \/ DecodeTrap \/ DecodeEnd \/ FetchOne \/ FetchEnd
             \/ Reclaim \/ TurnAway \/ UNCHANGED vars
    BY <2>1, <2>2, PassingInPlace
  <2>3. CASE CommitOne
    BY <1>2, <2>3, CommitInPlace
  <2>4. CASE Drain
    BY <1>2, <2>4 DEF Drain, Ren!Drained, Live
  <2>5. CASE WritebackFast \/ WritebackSlow
    BY <2>1, <2>5, WritebackInPlace
  <2>6. CASE Execute
    BY <2>1, <2>6, ExecuteInPlace
  <2>7. CASE ReplayLoad
    BY <2>7, ReplayInPlace
  <2>8. CASE IssueLoad
    BY <2>8, IssueLoadInPlace
  <2>9. CASE IssueOther
    BY <2>9, IssueOtherInPlace
  <2>10. CASE Recover
    BY <2>10, RecoverInPlace
  <2>11. CASE Restore
    BY <2>11, RestoreInPlace
  <2>12. CASE DispatchOne
    BY <2>12, DispatchInPlace
  <2>13. CASE RenameOne
    BY <2>13, RenameInPlace
  <2> QED
    BY <2>2, <2>3, <2>4, <2>5, <2>6, <2>7, <2>8, <2>9, <2>10, <2>11, <2>12, <2>13 DEF Next
<1> QED
  BY <1>1, <1>2

\* Nothing is anywhere at first.
LEMMA InitInPlace == Init => InStep /\ InPlace
<1> SUFFICES ASSUME Init PROVE InStep /\ InPlace
  OBVIOUS
<1>1. /\ uops = <<>> /\ rob = <<>> /\ nextSeq = 0 /\ renameQ = <<>> /\ iq = <<>> /\ cand = <<>>
      /\ executing = <<>> /\ wbFast = <<>> /\ wbSlow = <<>> /\ mode = "run"
      /\ lq = Q!EmptyQueue(LqSize) /\ sq = Q!EmptyQueue(SqSize)
  BY DEF Init, Ren!Init
<1>2. Range(<<>>) = {} /\ (\A R : Ranked(<<>>, R)) /\ <<>> \in Seq(Nat) /\ Len(<<>>) = 0
  BY DEF Range, Ranked
<1>3. InStep
  <2>1. uops \in Seq(UopOver({}))
    BY <1>1
  <2> QED
    BY <1>1, <2>1 DEF InStep, SameTraps
<1>4. Numbered /\ Placed /\ Queued
  BY <1>1, <1>2 DEF Numbered, Placed, Queued
<1>5. Listed
  BY <1>1, <1>2 DEF Listed, Apart
<1>6. LoadSeats = {} /\ StoreSeats = {}
  BY <1>1 DEF LoadSeats, StoreSeats
<1>7. Seated
  BY <1>1, <1>6, RingEmpty, PipelineAssumption DEF Seated
<1> QED
  BY <1>3, <1>4, <1>5, <1>7 DEF InPlace

\* What the seats of a ring say of the queue.
LEMMA SeatsMean ==
  ASSUME NEW cap \in Nat \ {0}, NEW q, IsRing(q, cap)
  PROVE  /\ Ascending(Numbers(q)) /\ Range(Numbers(q)) = {p[1] : p \in Seats(q)}
         /\ \A p \in Seats(q) : \E k \in 0 .. q.count - 1 :
              p[2] = (q.head + k) % q.cap /\ Q!Nth(q, k).seq = p[1]
<1> PICK X : q \in Rings(cap, X)
  BY DEF IsRing
<1>1. q.count \in Nat
  BY RingFields
<1>2. /\ DOMAIN Numbers(q) = 1 .. q.count
      /\ \A k \in 1 .. q.count : k - 1 \in 0 .. q.count - 1 /\ Numbers(q)[k] = Q!Nth(q, k - 1).seq
      /\ \A k \in 0 .. q.count - 1 : k + 1 \in 1 .. q.count /\ (k + 1) - 1 = k
  BY <1>1 DEF Numbers
<1>3. Ascending(Numbers(q))
  <2> SUFFICES ASSUME NEW j \in 1 .. q.count, NEW k \in 1 .. q.count, j < k
               PROVE  Numbers(q)[j] < Numbers(q)[k]
    BY <1>2 DEF Ascending
  <2>1. j - 1 < k - 1
    BY <1>1
  <2>2. Q!Nth(q, j - 1).seq < Q!Nth(q, k - 1).seq
    BY <1>2, <2>1 DEF IsRing, Seniority
  <2> QED
    BY <1>2, <2>2
<1>4. Range(Numbers(q)) = {p[1] : p \in Seats(q)}
  <2>1. ASSUME NEW v \in Range(Numbers(q)) PROVE v \in {p[1] : p \in Seats(q)}
    <3>1. PICK k \in 1 .. q.count : v = Q!Nth(q, k - 1).seq
      BY <1>2 DEF Range
    <3>2. <<v, Slot(q, k - 1)>> \in Seats(q)
      BY <1>2, <3>1 DEF Seats
    <3> QED
      BY <3>2
  <2>2. ASSUME NEW p \in Seats(q) PROVE p[1] \in Range(Numbers(q))
    <3>1. PICK k \in 0 .. q.count - 1 : p = <<Q!Nth(q, k).seq, Slot(q, k)>>
      BY DEF Seats
    <3>2. k + 1 \in 1 .. q.count /\ Numbers(q)[k + 1] = Q!Nth(q, k).seq
      BY <1>2
    <3> QED
      BY <1>2, <3>1, <3>2 DEF Range
  <2> QED
    BY <2>1, <2>2
<1>5. \A p \in Seats(q) : \E k \in 0 .. q.count - 1 :
        p[2] = (q.head + k) % q.cap /\ Q!Nth(q, k).seq = p[1]
  BY DEF Seats, Slot
<1> QED
  BY <1>3, <1>4, <1>5

\* In place, the queues are in program order.
LEMMA InPlaceIsOrder ==
  ASSUME InStep, RP!TypeOK, InPlace
  PROVE  InProgramOrder
<1> SUFFICES ASSUME mode = "run" PROVE InProgramOrder
  BY DEF InProgramOrder
<1> DEFINE seated(u) == u.seq \notin Range(renameQ)
           loads     == {u \in Range(uops) : u.dec.is_load /\ seated(u)}
           stores    == {u \in Range(uops) : u.dec.is_store /\ seated(u)}
           started   == executing \o wbFast \o wbSlow
<1>1. /\ Numbered /\ Listed /\ Placed /\ Seated /\ Len(uops) \in Nat
      /\ DOMAIN uops = 1 .. Len(uops) /\ Len(rob) = Len(uops)
  BY UopsFacts DEF InPlace, Live
<1>2. Ascending([i \in DOMAIN uops |-> uops[i].seq])
  BY <1>1 DEF Ascending, Numbered
<1>3. /\ LqSize \in Nat \ {0} /\ SqSize \in Nat \ {0}
      /\ IsRing(lq, LqSize) /\ IsRing(sq, SqSize) /\ Seats(lq) = LoadSeats /\ Seats(sq) = StoreSeats
  BY <1>1, PipelineAssumption DEF Seated
<1>4. LoadSeats = {<<u.seq, u.lsq>> : u \in loads}
  BY <1>1 DEF LoadSeats, Range
<1>5. StoreSeats = {<<u.seq, u.lsq>> : u \in stores}
  BY <1>1 DEF StoreSeats, Range
<1> HIDE DEF loads, stores
<1>6. Ascending(Numbers(lq)) /\ Range(Numbers(lq)) = {u.seq : u \in loads}
  <2>1. Ascending(Numbers(lq)) /\ Range(Numbers(lq)) = {p[1] : p \in LoadSeats}
    BY <1>3, SeatsMean
  <2>2. {p[1] : p \in LoadSeats} = {u.seq : u \in loads}
    <3>1. ASSUME NEW p \in LoadSeats PROVE p[1] \in {u.seq : u \in loads}
      BY <1>4
    <3>2. ASSUME NEW u \in loads PROVE u.seq \in {p[1] : p \in LoadSeats}
      <4>1. <<u.seq, u.lsq>> \in LoadSeats
        BY <1>4
      <4> QED
        BY <4>1
    <3> QED
      BY <3>1, <3>2
  <2> QED
    BY <2>1, <2>2
<1>7. Ascending(Numbers(sq)) /\ Range(Numbers(sq)) = {u.seq : u \in stores}
  <2>1. Ascending(Numbers(sq)) /\ Range(Numbers(sq)) = {p[1] : p \in StoreSeats}
    BY <1>3, SeatsMean
  <2>2. {p[1] : p \in StoreSeats} = {u.seq : u \in stores}
    <3>1. ASSUME NEW p \in StoreSeats PROVE p[1] \in {u.seq : u \in stores}
      BY <1>5
    <3>2. ASSUME NEW u \in stores PROVE u.seq \in {p[1] : p \in StoreSeats}
      <4>1. <<u.seq, u.lsq>> \in StoreSeats
        BY <1>5
      <4> QED
        BY <4>1
    <3> QED
      BY <3>1, <3>2
  <2> QED
    BY <2>1, <2>2
<1>8. \A u \in loads : OwnSeat(lq, u)
  <2> TAKE u \in loads
  <2>1. <<u.seq, u.lsq>> \in Seats(lq)
    BY <1>3, <1>4
  <2>2. PICK k \in 0 .. lq.count - 1 : <<u.seq, u.lsq>>[2] = (lq.head + k) % lq.cap
                                       /\ Q!Nth(lq, k).seq = <<u.seq, u.lsq>>[1]
    BY <1>3, <2>1, SeatsMean
  <2> QED
    BY <2>2 DEF OwnSeat
<1>9. \A u \in stores : OwnSeat(sq, u)
  <2> TAKE u \in stores
  <2>1. <<u.seq, u.lsq>> \in Seats(sq)
    BY <1>3, <1>5
  <2>2. PICK k \in 0 .. sq.count - 1 : <<u.seq, u.lsq>>[2] = (sq.head + k) % sq.cap
                                       /\ Q!Nth(sq, k).seq = <<u.seq, u.lsq>>[1]
    BY <1>3, <2>1, SeatsMean
  <2> QED
    BY <2>2 DEF OwnSeat
<1>10. /\ executing \in Seq(Nat) /\ wbFast \in Seq(Nat) /\ wbSlow \in Seq(Nat)
       /\ Ranked(executing, Differ) /\ Ranked(wbFast, Differ) /\ Ranked(wbSlow, Differ)
       /\ Range(executing) \cap Range(wbFast) = {} /\ Range(executing) \cap Range(wbSlow) = {}
       /\ Range(wbFast) \cap Range(wbSlow) = {}
       /\ renameQ \in Seq(Nat) /\ iq \in Seq(Nat)
  BY <1>1 DEF Listed, Apart
<1>11. started \in Seq(Nat) /\ Ranked(started, Differ) /\ Range(started) = Underway
  <2> DEFINE s == executing \o wbFast
  <2>1. s \in Seq(Nat) /\ Ranked(s, Differ) /\ Range(s) = Range(executing) \cup Range(wbFast)
    BY <1>10, ConcatApart
  <2> HIDE DEF s
  <2>2. Range(s) \cap Range(wbSlow) = {}
    BY <1>10, <2>1
  <2>3. /\ s \o wbSlow \in Seq(Nat) /\ Ranked(s \o wbSlow, Differ)
        /\ Range(s \o wbSlow) = Range(s) \cup Range(wbSlow)
    BY <1>10, <2>1, <2>2, ConcatApart
  <2> QED
    BY <2>1, <2>3 DEF s, Underway
<1>12. Range(renameQ \o iq) = Waiting
  <2>1. renameQ \in Seq(Nat) /\ iq \in Seq(Nat)
    BY <1>10
  <2>2. Range(renameQ \o iq) = Range(renameQ) \cup Range(iq)
    BY <2>1, ConcatOrder
  <2> QED
    BY <2>2 DEF Waiting
<1> HIDE DEF started
<1>13. IsInjective(started)
  <2> SUFFICES ASSUME NEW i \in DOMAIN started, NEW j \in DOMAIN started, i # j
               PROVE  started[i] # started[j]
    BY DEF IsInjective
  <2>1. DOMAIN started \subseteq Nat
    BY <1>11
  <2>2. \A a, b \in DOMAIN started : a < b => started[a] # started[b]
    BY <1>11 DEF Ranked, Differ
  <2>3. i < j \/ j < i
    BY <2>1
  <2> QED
    BY <2>2, <2>3
<1>14. \A i \in DOMAIN uops :
         /\ rob[i].state = "waiting" <=> uops[i].seq \in Range(renameQ \o iq)
         /\ rob[i].state = "issued" <=> uops[i].seq \in Range(started)
  BY <1>1, <1>11, <1>12 DEF Placed
<1> QED
  BY <1>2, <1>6, <1>7, <1>8, <1>9, <1>13, <1>14 DEF InProgramOrder, loads, stores, started

(***************************************************************************)
(* Every entry of the reorder buffer is in one queue, the one its state    *)
(* says, once; the memory queues hold exactly the accesses dispatched, in  *)
(* program order, each at the seat its instruction remembers.  commit()'s  *)
(* pop_head(), issue()'s resolve_addr() at a remembered index and the      *)
(* squash_after() of recover() each rely on it and none checks it.         *)
(***************************************************************************)
THEOREM EverythingInItsPlace ==
  ASSUME NumArch >= 32
  PROVE  Spec => []InProgramOrder
<1>1. RP!Spec => [](RP!TypeOK /\ RP!Shape)
  BY RP!TypeCorrect, RenamingApplies
<1>2. RP!Spec => []RP!Resolved
  BY RP!ResolvedHolds, RenamingApplies
<1>3. CarryWords /\ InStep /\ RP!TypeOK /\ RP!Shape /\ RP!Resolved => Grounded
  BY DEF Grounded
<1>4. InStep /\ RP!TypeOK /\ InPlace => InProgramOrder
  BY InPlaceIsOrder
<1> QED
  BY <1>1, <1>2, <1>3, <1>4, InitInPlace, NextInStep, NextInPlace, CarryWordsAlways, SameSpec,
     ImplementsRenaming, PTL DEF Spec
=============================================================================
