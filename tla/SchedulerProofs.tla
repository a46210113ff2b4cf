--------------------------- MODULE SchedulerProofs ---------------------------
(***************************************************************************)
(* The back end, proved for every width, every size of the reorder buffer, *)
(* of the issue queue and of the writeback stage, every number of units,   *)
(* every latency and every supply of operations.                           *)
(***************************************************************************)
EXTENDS Scheduler, NumberFacts

\* No two elements of a queue are the same operation.
Distinct(s) == \A i, j \in DOMAIN s : s[i].age = s[j].age => i = j

-----------------------------------------------------------------------------
(* The queues, as the stages change them. *)

\* Appending to a queue without the newcomer's age.
LEMMA AppendKeeps ==
  ASSUME NEW S, NEW s \in Seq(S), NEW u \in S
  PROVE  /\ Append(s, u) \in Seq(S) /\ Len(Append(s, u)) = Len(s) + 1
         /\ Range(Append(s, u)) = Range(s) \cup {u}
         /\ Distinct(s) /\ (\A v \in Range(s) : v.age # u.age) => Distinct(Append(s, u))
<1> DEFINE t == Append(s, u)
           n == Len(s)
<1>1. /\ n \in Nat /\ t \in Seq(S) /\ Len(t) = n + 1
      /\ DOMAIN s = 1 .. n /\ DOMAIN t = 1 .. n + 1
      /\ \A i \in 1 .. n : t[i] = s[i]
      /\ t[n + 1] = u
  OBVIOUS
<1> HIDE DEF t, n
<1>2. \A i \in 1 .. n + 1 : i \in 1 .. n \/ i = n + 1
  BY <1>1
<1>3. \A i \in 1 .. n : i \in 1 .. n + 1
  BY <1>1
<1>0. n + 1 \in 1 .. n + 1
  BY <1>1
<1>4. Range(t) = Range(s) \cup {u}
  BY <1>0, <1>1, <1>2, <1>3 DEF Range
<1>5. ASSUME Distinct(s), \A v \in Range(s) : v.age # u.age
      PROVE  Distinct(t)
  <2>1. \A i \in 1 .. n : t[i].age # u.age
    BY <1>1, <1>5 DEF Range
  <2>2. \A i, j \in 1 .. n : t[i].age = t[j].age => i = j
    BY <1>1, <1>5 DEF Distinct
  <2> QED
    BY <1>1, <1>2, <2>1, <2>2 DEF Distinct
<1> QED
  BY <1>1, <1>4, <1>5 DEF t, n

\* What is kept of a queue is part of it, and still one of each.
LEMMA ThoseFacts ==
  ASSUME NEW S, NEW s \in Seq(S), NEW K
  PROVE  /\ Those(s, K) \in Seq(S) /\ Len(Those(s, K)) <= Len(s)
         /\ Range(Those(s, K)) = Range(s) \cap K
         /\ Distinct(s) => Distinct(Those(s, K))
<1>1. /\ Those(s, K) \in Seq(S) /\ Len(Those(s, K)) <= Len(s)
      /\ Range(Those(s, K)) = Range(s) \cap K
  BY ThoseKeeps
<1>2. ASSUME Distinct(s) PROVE Distinct(Those(s, K))
  <2> DEFINE R == {p \in S \X S : p[1].age # p[2].age}
             t == Those(s, K)
  <2>1. ASSUME NEW i \in DOMAIN s, NEW j \in DOMAIN s, i < j PROVE <<s[i], s[j]>> \in R
    <3>1. s[i] \in S /\ s[j] \in S /\ s[i].age # s[j].age
      BY <1>2, <2>1 DEF Distinct
    <3> QED
      BY <3>1
  <2>2. \A i, j \in DOMAIN t : i < j => <<t[i], t[j]>> \in R
    <3> HIDE DEF R
    <3> QED
      BY <2>1, ThoseOrder
  <2>3. DOMAIN t \subseteq Nat
    BY <1>1
  <2> HIDE DEF t
  <2>4. \A i, j \in DOMAIN t : i < j => t[i].age # t[j].age
    BY <2>2
  <2> QED
    BY <2>3, <2>4 DEF Distinct, t
<1> QED
  BY <1>1, <1>2

\* Two queues in a row.
LEMMA ConcatKeeps ==
  ASSUME NEW S, NEW s \in Seq(S), NEW t \in Seq(S)
  PROVE  /\ s \o t \in Seq(S)
         /\ Range(s \o t) = Range(s) \cup Range(t)
         /\ Distinct(s) /\ Distinct(t) /\ (\A u \in Range(s), v \in Range(t) : u.age # v.age)
              => Distinct(s \o t)
<1> DEFINE r == s \o t
           m == Len(s)
           n == Len(t)
<1>1. /\ m \in Nat /\ n \in Nat /\ r \in Seq(S) /\ Len(r) = m + n
      /\ DOMAIN s = 1 .. m /\ DOMAIN t = 1 .. n /\ DOMAIN r = 1 .. m + n
      /\ \A i \in 1 .. m : r[i] = s[i]
      /\ \A i \in m + 1 .. m + n : r[i] = t[i - m]
  OBVIOUS
<1> HIDE DEF r, m, n
<1>2. \A i \in 1 .. m + n :
        i \in 1 .. m \/ (i \in m + 1 .. m + n /\ i - m \in 1 .. n)
  BY <1>1
<1>3. /\ \A i \in 1 .. m : i \in 1 .. m + n
      /\ \A i \in 1 .. n : m + i \in m + 1 .. m + n /\ m + i \in 1 .. m + n /\ (m + i) - m = i
  BY <1>1
<1>4. Range(r) = Range(s) \cup Range(t)
  <2>1. \A i \in 1 .. m + n : r[i] \in Range(s) \cup Range(t)
    BY <1>1, <1>2 DEF Range
  <2>2. \A i \in 1 .. m : s[i] = r[i] /\ i \in 1 .. m + n
    BY <1>1, <1>3
  <2>3. \A i \in 1 .. n : t[i] = r[m + i] /\ m + i \in 1 .. m + n
    BY <1>1, <1>3
  <2>4. Range(s) \cup Range(t) \subseteq Range(r)
    BY <1>1, <2>2, <2>3 DEF Range
  <2> QED
    BY <1>1, <2>1, <2>4 DEF Range
<1>5. ASSUME Distinct(s), Distinct(t), \A u \in Range(s), v \in Range(t) : u.age # v.age
      PROVE  Distinct(r)
  <2> SUFFICES ASSUME NEW i \in 1 .. m + n, NEW j \in 1 .. m + n, r[i].age = r[j].age
               PROVE  i = j
    BY <1>1 DEF Distinct
  <2>1. CASE i \in 1 .. m /\ j \in 1 .. m
    <3>1. r[i] = s[i] /\ r[j] = s[j] /\ i \in DOMAIN s /\ j \in DOMAIN s
      BY <1>1, <2>1
    <3> QED
      BY <1>5, <3>1 DEF Distinct
  <2>2. CASE i \in m + 1 .. m + n /\ j \in m + 1 .. m + n
    <3>1. r[i] = t[i - m] /\ r[j] = t[j - m] /\ i - m \in DOMAIN t /\ j - m \in DOMAIN t
      BY <1>1, <2>2
    <3>2. i - m = j - m
      BY <1>5, <3>1 DEF Distinct
    <3> QED
      BY <1>1, <3>2
  <2>3. CASE i \in 1 .. m /\ j \in m + 1 .. m + n
    <3>1. r[i] = s[i] /\ r[j] = t[j - m] /\ j - m \in 1 .. n
      BY <1>1, <2>3
    <3>2. r[i] \in Range(s) /\ r[j] \in Range(t)
      BY <1>1, <2>3, <3>1 DEF Range
    <3> QED
      BY <1>5, <3>2
  <2>4. CASE i \in m + 1 .. m + n /\ j \in 1 .. m
    <3>1. r[j] = s[j] /\ r[i] = t[i - m] /\ i - m \in 1 .. n
      BY <1>1, <2>4
    <3>2. r[j] \in Range(s) /\ r[i] \in Range(t)
      BY <1>1, <2>4, <3>1 DEF Range
    <3> QED
      BY <1>5, <3>2
  <2> QED
    BY <1>2, <2>1, <2>2, <2>3, <2>4
<1> QED
  BY <1>1, <1>4, <1>5 DEF r

\* A queue cut in two after its first n.
LEMMA SplitKeeps ==
  ASSUME NEW S, NEW s \in Seq(S), NEW n \in 0 .. Len(s)
  PROVE  LET a == SubSeq(s, 1, n)
             b == SubSeq(s, n + 1, Len(s))
         IN /\ a \in Seq(S) /\ b \in Seq(S) /\ Len(a) = n /\ Len(b) = Len(s) - n
            /\ \A i \in 1 .. n : a[i] = s[i]
            /\ Range(s) = Range(a) \cup Range(b)
            /\ Distinct(s) => /\ Distinct(a) /\ Distinct(b)
                              /\ \A u \in Range(a), v \in Range(b) : u.age # v.age
<1> DEFINE a == SubSeq(s, 1, n)
           b == SubSeq(s, n + 1, Len(s))
           m == Len(s)
<1>1. /\ m \in Nat /\ n \in Nat /\ n <= m
      /\ a \in Seq(S) /\ b \in Seq(S) /\ Len(a) = n /\ Len(b) = m - n
      /\ DOMAIN s = 1 .. m /\ DOMAIN a = 1 .. n /\ DOMAIN b = 1 .. m - n
      /\ \A i \in 1 .. n : a[i] = s[i]
      /\ \A i \in 1 .. m - n : b[i] = s[n + i]
  OBVIOUS
<1> HIDE DEF a, b, m
<1>2. /\ \A i \in 1 .. n : i \in 1 .. m
      /\ \A i \in 1 .. m - n : n + i \in 1 .. m /\ n + i \notin 1 .. n
      /\ \A i \in 1 .. m : i \in 1 .. n \/ (i - n \in 1 .. m - n /\ n + (i - n) = i)
  BY <1>1
<1>3. Range(s) = Range(a) \cup Range(b)
  <2>1. ASSUME NEW i \in 1 .. m PROVE s[i] \in Range(a) \cup Range(b)
    <3>1. CASE i \in 1 .. n
      BY <1>1, <3>1 DEF Range
    <3>2. CASE i - n \in 1 .. m - n /\ n + (i - n) = i
      <4>1. b[i - n] = s[i]
        BY <1>1, <3>2
      <4> QED
        BY <1>1, <3>2, <4>1 DEF Range
    <3> QED
      BY <1>2, <3>1, <3>2
  <2>2. \A i \in 1 .. n : a[i] = s[i] /\ i \in 1 .. m
    BY <1>1, <1>2
  <2>3. \A i \in 1 .. m - n : b[i] = s[n + i] /\ n + i \in 1 .. m
    BY <1>1, <1>2
  <2>4. Range(a) \cup Range(b) \subseteq Range(s)
    <3>1. Range(a) \subseteq Range(s)
      BY <1>1, <2>2 DEF Range
    <3>2. Range(b) \subseteq Range(s)
      <4> SUFFICES ASSUME NEW u \in Range(b) PROVE u \in Range(s)
        OBVIOUS
      <4>1. DOMAIN b = 1 .. m - n /\ DOMAIN s = 1 .. m
        BY <1>1
      <4>2. PICK i \in 1 .. m - n : u = b[i]
        BY <4>1 DEF Range
      <4>3. u = s[n + i] /\ n + i \in DOMAIN s
        BY <2>3, <4>1, <4>2
      <4> QED
        BY <4>3 DEF Range
    <3> QED
      BY <3>1, <3>2
  <2> QED
    BY <1>1, <2>1, <2>4 DEF Range
<1>4. ASSUME Distinct(s)
      PROVE  /\ Distinct(a) /\ Distinct(b)
             /\ \A u \in Range(a), v \in Range(b) : u.age # v.age
  <2>1. Distinct(a)
    BY <1>1, <1>2, <1>4 DEF Distinct
  <2>2. Distinct(b)
    <3> SUFFICES ASSUME NEW i \in 1 .. m - n, NEW j \in 1 .. m - n, b[i].age = b[j].age
                 PROVE  i = j
      BY <1>1 DEF Distinct
    <3>1. /\ n + i \in DOMAIN s /\ n + j \in DOMAIN s
          /\ s[n + i].age = s[n + j].age
      BY <1>1, <1>2
    <3>2. n + i = n + j
      BY <1>4, <3>1 DEF Distinct
    <3> QED
      BY <1>1, <3>2
  <2>3. ASSUME NEW i \in 1 .. n, NEW j \in 1 .. m - n
        PROVE  a[i].age # b[j].age
    <3>1. i # n + j /\ i \in 1 .. m /\ n + j \in 1 .. m
      BY <1>2
    <3> QED
      <4>1. a[i] = s[i] /\ b[j] = s[n + j] /\ i \in DOMAIN s /\ n + j \in DOMAIN s
        BY <1>1, <3>1
      <4>2. s[i].age # s[n + j].age
        BY <1>4, <3>1, <4>1 DEF Distinct
      <4> QED
        BY <4>1, <4>2
  <2> QED
    BY <1>1, <2>1, <2>2, <2>3 DEF Range
<1> QED
  BY <1>1, <1>3, <1>4 DEF a, b, m

\* f counts T by I.
Counts(f, I, T) ==
  /\ \A i \in I : f[i] \in T
  /\ \A i, j \in I : f[i] = f[j] => i = j
  /\ \A t \in T : \E i \in I : f[i] = t

\* As many things as there are in a set counted one for one.
LEMMA CountImage ==
  ASSUME NEW I, IsFiniteSet(I), NEW T, NEW f, Counts(f, I, T)
  PROVE  /\ IsFiniteSet(T) /\ Cardinality(T) = Cardinality(I)
         /\ Cardinality(I) \in Nat
<1> DEFINE g == [i \in I |-> f[i]]
<1>1. g \in [I -> T] /\ \A i \in I : g[i] = f[i]
  BY DEF Counts
<1> HIDE DEF g
<1>2. g \in Bijection(I, T)
  <2>1. \A i, j \in I : g[i] = g[j] => i = j
    BY <1>1 DEF Counts
  <2>2. \A t \in T : \E i \in I : g[i] = t
    BY <1>1 DEF Counts
  <2> QED
    BY <1>1, <2>1, <2>2 DEF Bijection, Injection, Surjection, IsInjective
<1>3. ExistsBijection(I, T)
  BY <1>2 DEF ExistsBijection
<1> QED
  BY <1>3, FS_Bijection, FS_CardinalityType

\* Positions of a queue count as many as the operations there.
LEMMA CountByAge ==
  ASSUME NEW S, NEW s \in Seq(S), Distinct(s), NEW I \in SUBSET (DOMAIN s)
  PROVE  /\ IsFiniteSet(I) /\ IsFiniteSet({s[i].age : i \in I})
         /\ Cardinality({s[i].age : i \in I}) = Cardinality(I)
         /\ Cardinality(I) \in Nat
<1> DEFINE T == {s[i].age : i \in I}
           f == [i \in DOMAIN s |-> s[i].age]
<1>1. IsFiniteSet(I)
  <2>1. DOMAIN s = 1 .. Len(s) /\ Len(s) \in Nat
    OBVIOUS
  <2>2. IsFiniteSet(1 .. Len(s))
    BY <2>1, FS_Interval
  <2>3. I \in SUBSET (1 .. Len(s))
    BY <2>1
  <2> QED
    BY <2>2, <2>3, FS_Subset
<1>2. \A i \in I : f[i] = s[i].age /\ i \in DOMAIN s
  OBVIOUS
<1> HIDE DEF f
<1>3. \A i \in I : f[i] \in T
  BY <1>2
<1>4. \A i, j \in I : f[i] = f[j] => i = j
  BY <1>2 DEF Distinct
<1>5. \A t \in T : \E i \in I : f[i] = t
  BY <1>2
<1> HIDE DEF T
<1>6. /\ IsFiniteSet(T) /\ Cardinality(T) = Cardinality(I)
      /\ Cardinality(I) \in Nat
  <2>1. Counts(f, I, T)
    BY <1>3, <1>4, <1>5 DEF Counts
  <2> QED
    BY <1>1, <2>1, CountImage
<1> QED
  BY <1>1, <1>6 DEF T

-----------------------------------------------------------------------------
(* Sizes, latencies and the ring of bookings. *)

\* cdb_window_ is longer than any latency, and every latency is at least one.
LEMMA Sizes ==
  /\ Width \in Nat \ {0} /\ RobSize \in Nat \ {0} /\ IqSize \in Nat \ {0} /\ NumCdb \in Nat \ {0}
  /\ \A c \in Class : Units[c] \in Nat \ {0}
  /\ Longest \in Nat \ {0} /\ Window = Longest + 2
  /\ \A k \in Kind : Latency[k] \in 1 .. Longest
  /\ Latency["STORE"] = 1 /\ Latency["NOP"] = 1 /\ Latency["TRAP"] = 1
  /\ Supply \subseteq [kind : Kind, writes : BOOLEAN]
<1>1. /\ Width \in Nat \ {0} /\ RobSize \in Nat \ {0} /\ IqSize \in Nat \ {0} /\ NumCdb \in Nat \ {0}
      /\ \A c \in Class : Units[c] \in Nat \ {0}
      /\ Latency \in [Kind -> Nat \ {0}]
      /\ Latency["STORE"] = 1 /\ Latency["NOP"] = 1 /\ Latency["TRAP"] = 1
      /\ Supply \subseteq [kind : Kind, writes : BOOLEAN]
  BY SchedulerAssumption
<1> DEFINE L == Latency["ALU"] + Latency["BRANCH"] + Latency["MUL"] + Latency["DIV"]
                + Latency["LOAD"] + Latency["STORE"] + Latency["NOP"] + Latency["TRAP"]
           T == {Latency[k] : k \in Kind}
<1>2. \A k \in Kind : Latency[k] \in Nat \ {0}
  BY <1>1
<1>3. L \in Nat
  BY <1>2 DEF Kind
<1>4. \A k \in Kind : Latency[k] \in 0 .. L
  BY <1>2, <1>3 DEF Kind
<1> HIDE DEF L
<1>5. T \in SUBSET (0 .. L) /\ T # {}
  BY <1>4 DEF Kind
<1>6. \E n \in T : \A m \in T : m <= n
  BY <1>3, <1>5, GreatestElement, Zenon
<1>7. \E n \in T : \A k \in Kind : Latency[k] <= n
  BY <1>6
<1>8. Longest \in T /\ \A k \in Kind : Latency[k] <= Longest
  BY <1>7 DEF Longest
<1>9. Longest \in Nat \ {0}
  BY <1>2, <1>8
<1>10. \A k \in Kind : Latency[k] \in 1 .. Longest
  BY <1>2, <1>8, <1>9
<1> QED
  BY <1>1, <1>9, <1>10 DEF Window

\* The slots of the next Window cycles are different ones, and all there are.
LEMMA SlotFacts ==
  ASSUME now \in 0 .. Window - 1
  PROVE  /\ \A n \in 0 .. Window - 1 : Slot(n) \in 0 .. Window - 1
         /\ \A m, n \in 0 .. Window - 1 : Slot(m) = Slot(n) => m = n
         /\ \A s \in 0 .. Window - 1 : \E n \in 0 .. Window - 1 : Slot(n) = s
         /\ Slot(0) = now
<1>1. Window \in Nat \ {0}
  BY Sizes
<1>2. \A n \in 0 .. Window - 1 :
        /\ Slot(n) = IF now + n < Window THEN now + n ELSE now + n - Window
        /\ Slot(n) \in 0 .. Window - 1
  <2> TAKE n \in 0 .. Window - 1
  <2>1. n \in 0 .. Window
    BY <1>1
  <2> QED
    BY <1>1, <2>1, RingSlot DEF Slot
<1>3. ASSUME NEW m \in 0 .. Window - 1, NEW n \in 0 .. Window - 1, Slot(m) = Slot(n)
      PROVE  m = n
  BY <1>1, <1>2, <1>3
<1>4. ASSUME NEW s \in 0 .. Window - 1
      PROVE  \E n \in 0 .. Window - 1 : Slot(n) = s
  <2>1. CASE s >= now
    <3>1. s - now \in 0 .. Window - 1 /\ now + (s - now) = s
      BY <1>1, <2>1
    <3> QED
      BY <1>1, <1>2, <3>1
  <2>2. CASE s < now
    <3>1. s - now + Window \in 0 .. Window - 1 /\ now + (s - now + Window) = s + Window
      BY <1>1, <2>2
    <3>2. Slot(s - now + Window) = s
      BY <1>1, <1>2, <3>1
    <3> QED
      BY <3>1, <3>2
  <2> QED
    BY <1>1, <2>1, <2>2
<1>5. Slot(0) = now
  BY <1>1, <1>2
<1> QED
  BY <1>2, <1>3, <1>4, <1>5

\* Time moves the ring by one slot.
LEMMA SlotMoves ==
  ASSUME now \in 0 .. Window - 1, NEW n \in 0 .. Window - 1
  PROVE  /\ (now + 1) % Window \in 0 .. Window - 1
         /\ n + 1 < Window => (((now + 1) % Window) + n) % Window = Slot(n + 1)
         /\ n + 1 = Window => (((now + 1) % Window) + n) % Window = now
<1>1. Window \in Nat \ {0} /\ 1 \in 0 .. Window /\ n \in 0 .. Window
  BY Sizes
<1> DEFINE h == (now + 1) % Window
<1>2. /\ h = IF now + 1 < Window THEN now + 1 ELSE now + 1 - Window
      /\ h \in 0 .. Window - 1
  BY <1>1, RingSlot
<1> HIDE DEF h
<1>3. (h + n) % Window = IF h + n < Window THEN h + n ELSE h + n - Window
  BY <1>1, <1>2, RingSlot
<1>4. ASSUME n + 1 < Window PROVE (h + n) % Window = Slot(n + 1)
  <2>1. n + 1 \in 0 .. Window
    BY <1>1, <1>4
  <2>2. Slot(n + 1) = IF now + (n + 1) < Window THEN now + (n + 1) ELSE now + (n + 1) - Window
    BY <1>1, <2>1, RingSlot DEF Slot
  <2> QED
    BY <1>1, <1>2, <1>3, <1>4, <2>2
<1>5. ASSUME n + 1 = Window PROVE (h + n) % Window = now
  BY <1>1, <1>2, <1>3, <1>5
<1> QED
  BY <1>2, <1>4, <1>5 DEF h

-----------------------------------------------------------------------------
(* What the stages choose. *)

\* The types of the fields.
LEMMA RobFields ==
  ASSUME TypeOK
  PROVE  /\ Len(rob) \in Nat /\ Len(rob) <= RobSize /\ DOMAIN rob = 1 .. Len(rob)
         /\ \A i \in 1 .. Len(rob) :
              /\ rob[i] \in InFlight
              /\ rob[i].kind \in Kind /\ rob[i].writes \in BOOLEAN
              /\ rob[i].src1 \in 0 .. i - 1 /\ rob[i].src2 \in 0 .. i - 1
              /\ rob[i].complete \in BOOLEAN
<1>1. /\ Len(rob) \in Nat /\ Len(rob) <= RobSize /\ DOMAIN rob = 1 .. Len(rob)
      /\ \A i \in 1 .. Len(rob) : rob[i] \in InFlight /\ rob[i].src1 < i /\ rob[i].src2 < i
  BY DEF TypeOK
<1>2. \A e \in InFlight : /\ e.kind \in Kind /\ e.writes \in BOOLEAN /\ e.complete \in BOOLEAN
                          /\ e.src1 \in 0 .. RobSize /\ e.src2 \in 0 .. RobSize
  BY DEF InFlight
<1> QED
  BY <1>1, <1>2

\* What commit() pops is complete.
LEMMA CommittingFacts ==
  ASSUME TypeOK
  PROVE  /\ Committing \in 0 .. Len(rob)
         /\ \A i \in 1 .. Committing : rob[i].complete
<1> DEFINE Pops(n) == \A i \in 1 .. n : rob[i].complete /\ (i < n => rob[i].kind # "TRAP")
           Ends(n) == \/ n \in {Width, Len(rob)}
                      \/ n > 0 /\ rob[n].kind = "TRAP"
                      \/ ~rob[n + 1].complete
           T == {n \in 0 .. Len(rob) : n <= Width /\ Pops(n)}
<1>1. Len(rob) \in Nat /\ Width \in Nat
  BY RobFields, Sizes
<1>2. 0 \in T
  BY <1>1
<1>3. PICK n \in T : \A m \in T : m <= n
  <2>1. T \in SUBSET (0 .. Len(rob)) /\ T # {}
    BY <1>2
  <2> HIDE DEF T
  <2> QED
    BY <1>1, <2>1, GreatestElement, Zenon
<1>4. Ends(n)
  <2> SUFFICES ASSUME n # Width, n # Len(rob), ~(n > 0 /\ rob[n].kind = "TRAP"),
                      rob[n + 1].complete
               PROVE  FALSE
    OBVIOUS
  <2>1. n \in Nat /\ n + 1 \in 0 .. Len(rob) /\ n + 1 <= Width
    BY <1>1
  <2>2. Pops(n + 1)
    <3> SUFFICES ASSUME NEW i \in 1 .. n + 1
                 PROVE  rob[i].complete /\ (i < n + 1 => rob[i].kind # "TRAP")
      OBVIOUS
    <3>1. CASE i = n + 1
      BY <3>1
    <3>2. CASE i \in 1 .. n
      BY <2>1, <3>2
    <3> QED
      BY <2>1, <3>1, <3>2
  <2>3. n + 1 \in T
    BY <2>1, <2>2
  <2> QED
    BY <1>3, <2>1, <2>3
<1>5. \E m \in 0 .. Len(rob) : m <= Width /\ Pops(m) /\ Ends(m)
  BY <1>3, <1>4
<1>6. Committing = CHOOSE m \in 0 .. Len(rob) : m <= Width /\ Pops(m) /\ Ends(m)
  BY DEF Committing
<1> HIDE DEF Ends
<1>7. Committing \in 0 .. Len(rob) /\ Pops(Committing)
  BY <1>5, <1>6
<1> QED
  BY <1>7

\* The ports a prefix of wb_fast_ needs are at most those all of it needs.
LEMMA PortsFacts ==
  ASSUME TypeOK, NEW n \in 0 .. Len(wbFast)
  PROVE  /\ Ports(n) \in Nat /\ Ports(Len(wbFast)) \in Nat
         /\ Ports(n) <= Ports(Len(wbFast))
<1> DEFINE m == Len(wbFast)
           T(k) == {i \in 1 .. k : rob[wbFast[i].age].writes}
<1>1. m \in Nat
  BY DEF TypeOK
<1>2. IsFiniteSet(1 .. m) /\ T(m) \in SUBSET (1 .. m) /\ T(n) \in SUBSET T(m)
  <2>1. IsFiniteSet(1 .. m)
    BY <1>1, FS_Interval
  <2> QED
    BY <1>1, <2>1
<1>3. IsFiniteSet(T(m)) /\ Cardinality(T(m)) \in Nat
  BY <1>2, FS_Subset, FS_CardinalityType
<1>4. /\ IsFiniteSet(T(n)) /\ Cardinality(T(n)) \in Nat
      /\ Cardinality(T(n)) <= Cardinality(T(m))
  BY <1>2, <1>3, FS_Subset, FS_CardinalityType
<1> QED
  BY <1>3, <1>4 DEF Ports

\* If all of wb_fast_ has ports, writeback takes all of it, and loads what is left.
LEMMA LandingFacts ==
  ASSUME TypeOK, Ports(Len(wbFast)) <= NumCdb
  PROVE  FastLanding = Len(wbFast) /\ SlowLanding \in 0 .. Len(wbSlow)
<1> DEFINE m == Len(wbFast)
           Fit(n) == /\ Ports(n) <= NumCdb
                     /\ n < m => Ports(n + 1) > NumCdb
<1>1. m \in Nat /\ NumCdb \in Nat /\ Len(wbSlow) \in Nat
  BY Sizes DEF TypeOK
<1>2. \A n \in 0 .. m : Ports(n) \in Nat /\ Ports(n) <= NumCdb
  <2> TAKE n \in 0 .. m
  <2>1. Ports(n) \in Nat /\ Ports(m) \in Nat /\ Ports(n) <= Ports(m)
    BY PortsFacts
  <2> QED
    BY <1>1, <2>1
<1>3. m \in 0 .. m /\ Fit(m)
  BY <1>1, <1>2
<1>4. FastLanding = CHOOSE n \in 0 .. m : Fit(n)
  BY DEF FastLanding
<1>5. FastLanding \in 0 .. m /\ Fit(FastLanding)
  <2> HIDE DEF Fit
  <2> QED
    BY <1>3, <1>4
<1>6. FastLanding = m
  <2> SUFFICES ASSUME FastLanding < m PROVE FALSE
    BY <1>1, <1>5
  <2>1. FastLanding + 1 \in 0 .. m
    BY <1>1, <1>5
  <2> QED
    BY <1>1, <1>2, <1>5, <2>1
<1>7. SlowLanding = IF Len(wbSlow) < NumCdb - Ports(m) THEN Len(wbSlow) ELSE NumCdb - Ports(m)
  BY <1>6 DEF SlowLanding
<1>8. Ports(m) \in Nat /\ Ports(m) <= NumCdb
  BY <1>2, <1>3
<1> HIDE DEF m
<1>9. SlowLanding \in 0 .. Len(wbSlow)
  BY <1>1, <1>7, <1>8
<1> QED
  BY <1>6, <1>9 DEF m

\* The class of what needs a unit.
LEMMA UnitClass ==
  ASSUME NEW k \in Kind, k \notin Unitless
  PROVE  UnitOf(k) \in Class
  BY DEF UnitOf, Kind, Class, Unitless

\* free_unit() finds a unit that is free, and issue() takes that one only.
LEMMA TakenFacts ==
  ASSUME TypeOK, NEW k \in Kind, k \notin Unitless, FreeUnits(k) # {}, NEW cycles \in 0 .. Longest
  PROVE  \E u \in 1 .. Units[UnitOf(k)] :
           /\ unit[UnitOf(k)][u] = 0
           /\ DOMAIN Taken(k, cycles) = Class
           /\ \A c \in Class \ {UnitOf(k)} : Taken(k, cycles)[c] = unit[c]
           /\ Taken(k, cycles)[UnitOf(k)] = [unit[UnitOf(k)] EXCEPT ![u] = cycles]
<1> DEFINE c == UnitOf(k)
           T == FreeUnits(k)
           first == CHOOSE u \in T : \A v \in T : u <= v
<1>1. c \in Class /\ DOMAIN unit = Class
  BY UnitClass DEF TypeOK
<1>2. Units[c] \in Nat \ {0} /\ DOMAIN unit[c] = 1 .. Units[c]
  BY <1>1, Sizes DEF TypeOK
<1>3. T = {u \in 1 .. Units[c] : unit[c][u] = 0}
  BY <1>2 DEF FreeUnits
<1>4. T \in SUBSET Nat /\ T # {}
  BY <1>2, <1>3
<1> HIDE DEF T
<1>5. \E u \in T : \A v \in T : u <= v
  BY <1>4, LeastElement, Zenon
<1>6. first \in T
  BY <1>5
<1>7. Taken(k, cycles) = [unit EXCEPT ![c][first] = cycles]
  BY DEF Taken, T
<1> HIDE DEF first
<1>8. /\ DOMAIN Taken(k, cycles) = Class
      /\ \A d \in Class \ {c} : Taken(k, cycles)[d] = unit[d]
      /\ Taken(k, cycles)[c] = [unit[c] EXCEPT ![first] = cycles]
  BY <1>1, <1>7
<1> QED
  BY <1>3, <1>6, <1>8

-----------------------------------------------------------------------------
(* The inductive invariant. *)

(***************************************************************************)
(* OnePlace, by age: the queues hold different operations, no two of one   *)
(* of them are the same, and together they are all that has not completed. *)
(***************************************************************************)
Places ==
  /\ Distinct(iq) /\ Distinct(executing) /\ Distinct(wbFast) /\ Distinct(wbSlow)
  /\ Ages(iq) \cap Ages(executing) = {} /\ Ages(iq) \cap Ages(wbFast) = {}
  /\ Ages(iq) \cap Ages(wbSlow) = {} /\ Ages(executing) \cap Ages(wbFast) = {}
  /\ Ages(executing) \cap Ages(wbSlow) = {} /\ Ages(wbFast) \cap Ages(wbSlow) = {}
  /\ Ages(iq) \cup Ages(executing) \cup Ages(wbFast) \cup Ages(wbSlow)
       = {a \in DOMAIN rob : ~rob[a].complete}

\* BookedLands, at every stage: what executes is due after the next cycle until
\* the clock moves, and what waits for a port then lands at once.
OnTime ==
  /\ \A u \in Range(executing) :
       u.due >= IF stage \in {"issue", "dispatch", "commit"} THEN 2 ELSE 1
  /\ \A u \in Range(wbFast) :
       rob[u.age].kind # "LOAD" /\ u.due = IF stage = "writeback" THEN 0 ELSE 1
  /\ stage \in {"execute", "done"} => wbFast = <<>>

\* The operations whose result has a port booked n cycles from now.
Landing(n) ==
  {a \in DOMAIN rob :
     /\ rob[a].writes /\ rob[a].kind # "LOAD"
     /\ [age |-> a, due |-> n] \in Range(executing) \cup Range(wbFast)}

\* BookingsExact, by age.
Booked == \A n \in 0 .. Window - 1 : booked[Slot(n)] = Cardinality(Landing(n))

\* The operations of a class that hold a unit for at least t cycles, and the units
\* of the class that are not free for as long.
Occupants(c, t) ==
  {a \in DOMAIN rob :
     /\ UnitOf(rob[a].kind) = c
     /\ \E d \in t .. Longest : [age |-> a, due |-> d] \in Range(executing)}
Busy(c, t) == {u \in 1 .. Units[c] : unit[c][u] >= t}

\* An operation in flight has a unit for as long as it takes.
Covered ==
  \A c \in Class \ {"MUL"} : \A t \in Nat \ {0} :
    Cardinality(Occupants(c, t)) <= Cardinality(Busy(c, t))

\* issue()'s locals: the candidates are different operations still in the queue.
Choosing ==
  /\ stage = "issue" =>
       /\ \A i, j \in DOMAIN cand : cand[i] = cand[j] => i = j
       /\ \A i \in DOMAIN cand : cand[i] \in Ages(iq)
       /\ blocked + Len(cand) <= IqSize
  /\ stage # "issue" => offender = 0

Inv ==
  /\ TypeOK /\ Places /\ NoLostWakeup /\ OnTime /\ Booked /\ Covered /\ Choosing

-----------------------------------------------------------------------------
(* Reading the invariant. *)

\* Ages are those of the elements.
LEMMA AgesRange == \A s : Ages(s) = {u.age : u \in Range(s)}
  BY DEF Ages, Range

\* Positions of a queue, and its elements.
LEMMA RangeFacts ==
  ASSUME NEW S, NEW s \in Seq(S)
  PROVE  /\ DOMAIN s = 1 .. Len(s) /\ Len(s) \in Nat
         /\ Range(s) = {s[i] : i \in 1 .. Len(s)}
         /\ Range(s) \subseteq S
         /\ Range(<<>>) = {} /\ Ages(<<>>) = {} /\ Distinct(<<>>)
         /\ s # <<>> => Len(s) >= 1
  BY DEF Range, Ages, Distinct

\* An operation pending is its age and its due cycle.
LEMMA PendingFacts ==
  ASSUME NEW u \in Pending
  PROVE  /\ u.age \in 1 .. RobSize /\ u.due \in 0 .. Longest
         /\ u = [age |-> u.age, due |-> u.due]
  BY DEF Pending

\* One element per age.
LEMMA DistinctRange ==
  ASSUME NEW s, Distinct(s), NEW u \in Range(s), NEW v \in Range(s), u.age = v.age
  PROVE  u = v
<1>1. PICK i \in DOMAIN s : u = s[i]
  BY DEF Range
<1>2. PICK j \in DOMAIN s : v = s[j]
  BY DEF Range
<1> QED
  BY <1>1, <1>2 DEF Distinct

\* What waits, executes or writes back is in flight and has not completed.
LEMMA PlaceFacts ==
  ASSUME TypeOK, Places
  PROVE  /\ \A a \in Ages(iq) \cup Ages(executing) \cup Ages(wbFast) \cup Ages(wbSlow) :
              a \in 1 .. Len(rob) /\ ~rob[a].complete
         /\ \A a \in 1 .. Len(rob) :
              ~rob[a].complete =>
                a \in Ages(iq) \cup Ages(executing) \cup Ages(wbFast) \cup Ages(wbSlow)
         /\ \A u \in Range(iq) : u \in Waiting /\ u.age \in Ages(iq)
         /\ \A u \in Range(executing) : u \in Pending /\ u.age \in Ages(executing)
         /\ \A u \in Range(wbFast) : u \in Pending /\ u.age \in Ages(wbFast)
         /\ \A u \in Range(wbSlow) : u \in Pending /\ u.age \in Ages(wbSlow)
<1>1. DOMAIN rob = 1 .. Len(rob)
  BY RobFields
<1>2. /\ iq \in Seq(Waiting) /\ executing \in Seq(Pending) /\ wbFast \in Seq(Pending)
      /\ wbSlow \in Seq(Pending)
  BY DEF TypeOK
<1>3. /\ Range(iq) \subseteq Waiting /\ Range(executing) \subseteq Pending
      /\ Range(wbFast) \subseteq Pending /\ Range(wbSlow) \subseteq Pending
  BY <1>2, RangeFacts
<1>4. Ages(iq) \cup Ages(executing) \cup Ages(wbFast) \cup Ages(wbSlow)
        = {a \in 1 .. Len(rob) : ~rob[a].complete}
  BY <1>1 DEF Places
<1> QED
  BY <1>3, <1>4, AgesRange

\* Sets of operations are finite.
LEMMA CountRange ==
  ASSUME TypeOK
  PROVE  /\ \A n : Landing(n) \in SUBSET (1 .. Len(rob)) /\ IsFiniteSet(Landing(n))
                   /\ Cardinality(Landing(n)) \in Nat
         /\ \A c, t : /\ Occupants(c, t) \in SUBSET (1 .. Len(rob)) /\ IsFiniteSet(Occupants(c, t))
                      /\ Cardinality(Occupants(c, t)) \in Nat
         /\ \A c \in Class : \A t : IsFiniteSet(Busy(c, t)) /\ Cardinality(Busy(c, t)) \in Nat
<1>1. Len(rob) \in Nat /\ DOMAIN rob = 1 .. Len(rob)
  BY RobFields
<1>2. IsFiniteSet(1 .. Len(rob)) /\ \A c \in Class : IsFiniteSet(1 .. Units[c])
  <2>1. \A c \in Class : 1 \in Int /\ Units[c] \in Int
    BY Sizes
  <2> QED
    BY <1>1, <2>1, FS_Interval
<1>3. \A n : Landing(n) \in SUBSET (1 .. Len(rob))
  BY <1>1 DEF Landing
<1>4. \A c, t : Occupants(c, t) \in SUBSET (1 .. Len(rob))
  BY <1>1 DEF Occupants
<1>5. \A c \in Class : \A t : Busy(c, t) \in SUBSET (1 .. Units[c])
  BY DEF Busy
<1>6. \A n : IsFiniteSet(Landing(n)) /\ Cardinality(Landing(n)) \in Nat
  <2> TAKE n
  <2>1. IsFiniteSet(Landing(n))
    BY <1>2, <1>3, FS_Subset
  <2> QED
    BY <2>1, FS_CardinalityType
<1>7. \A c, t : IsFiniteSet(Occupants(c, t)) /\ Cardinality(Occupants(c, t)) \in Nat
  <2> TAKE c, t
  <2>1. IsFiniteSet(Occupants(c, t))
    BY <1>2, <1>4, FS_Subset
  <2> QED
    BY <2>1, FS_CardinalityType
<1>8. \A c \in Class : \A t : IsFiniteSet(Busy(c, t)) /\ Cardinality(Busy(c, t)) \in Nat
  <2> TAKE c \in Class
  <2> TAKE t
  <2>1. IsFiniteSet(Busy(c, t))
    BY <1>2, <1>5, FS_Subset
  <2> QED
    BY <2>1, FS_CardinalityType
<1> QED
  BY <1>3, <1>4, <1>6, <1>7, <1>8

\* Ages counted from a later head.
LEMMA CountShifted ==
  ASSUME NEW m \in Nat, NEW S \in SUBSET (1 .. m), NEW n \in Nat
  PROVE  Cardinality({a - n : a \in S}) = Cardinality(S)
<1> DEFINE T == {a - n : a \in S}
           f == [a \in S |-> a - n]
<1>1. IsFiniteSet(S)
  <2>1. IsFiniteSet(1 .. m)
    BY FS_Interval
  <2> QED
    BY <2>1, FS_Subset
<1>2. \A a \in S : f[a] = a - n /\ a \in Int
  OBVIOUS
<1> HIDE DEF f
<1>3. Counts(f, S, T)
  BY <1>2 DEF Counts
<1> HIDE DEF T
<1>4. Cardinality(T) = Cardinality(S)
  BY <1>1, <1>3, CountImage
<1> QED
  BY <1>4 DEF T

-----------------------------------------------------------------------------
(* Commit, and the clock. *)

\* One cycle less to wait.
Tick(d) == IF d = 0 THEN 0 ELSE d - 1

\* A queue of results after n commits and one tick.
LEMMA LaterFacts ==
  ASSUME NEW s \in Seq(Pending), NEW n \in Nat, NEW m \in Nat, m <= RobSize,
         \A u \in Range(s) : u.age \in n + 1 .. m
  PROVE  /\ Later(s, n) \in Seq(Pending) /\ Len(Later(s, n)) = Len(s)
         /\ Range(Later(s, n)) = {[age |-> u.age - n, due |-> Tick(u.due)] : u \in Range(s)}
         /\ Ages(Later(s, n)) = {a - n : a \in Ages(s)}
         /\ Distinct(s) => Distinct(Later(s, n))
<1> DEFINE t == Later(s, n)
           k == Len(s)
<1>1. /\ k \in Nat /\ DOMAIN s = 1 .. k
      /\ \A i \in 1 .. k : s[i] \in Pending /\ s[i] \in Range(s)
      /\ Range(s) = {s[i] : i \in 1 .. k}
  BY RangeFacts
<1>2. t = [i \in 1 .. k |-> [age |-> s[i].age - n, due |-> Tick(s[i].due)]]
  BY <1>1 DEF Later, Tick
<1>3. \A i \in 1 .. k : /\ s[i].age \in n + 1 .. m /\ s[i].age \in Int /\ s[i].due \in 0 .. Longest
  <2> TAKE i \in 1 .. k
  <2>1. s[i].age \in n + 1 .. m
    BY <1>1
  <2>2. s[i].age \in 1 .. RobSize /\ s[i].due \in 0 .. Longest
    BY <1>1, PendingFacts
  <2> QED
    BY <2>1, <2>2
<1>4. RobSize \in Nat /\ Longest \in Nat
  BY Sizes
<1>5. \A i \in 1 .. k : [age |-> s[i].age - n, due |-> Tick(s[i].due)] \in Pending
  <2> TAKE i \in 1 .. k
  <2>1. s[i].age - n \in 1 .. RobSize /\ Tick(s[i].due) \in 0 .. Longest
    <3>1. /\ s[i].age \in n + 1 .. m /\ s[i].age \in Int /\ s[i].due \in 0 .. Longest
          /\ n \in Nat /\ m \in Nat /\ m <= RobSize /\ RobSize \in Nat /\ Longest \in Nat
      BY <1>3, <1>4
    <3>2. s[i].age - n \in 1 .. RobSize
      BY <3>1
    <3>3. Tick(s[i].due) \in 0 .. Longest
      BY <3>1 DEF Tick
    <3> QED
      BY <3>2, <3>3
  <2> QED
    BY <2>1 DEF Pending
<1>6. /\ DOMAIN t = 1 .. k
      /\ \A i \in 1 .. k : /\ t[i] = [age |-> s[i].age - n, due |-> Tick(s[i].due)]
                           /\ t[i].age = s[i].age - n
  BY <1>2
<1>7. t \in Seq(Pending) /\ Len(t) = k
  <2>1. t \in [1 .. k -> Pending]
    BY <1>2, <1>5
  <2> HIDE DEF t
  <2> QED
    BY <1>1, <2>1
<1> HIDE DEF t, k
<1>8. Range(t) = {[age |-> u.age - n, due |-> Tick(u.due)] : u \in Range(s)}
  <2> DEFINE T == {[age |-> u.age - n, due |-> Tick(u.due)] : u \in Range(s)}
  <2>1. \A i \in 1 .. k : t[i] \in T
    BY <1>1, <1>6
  <2>2. ASSUME NEW u \in Range(s) PROVE [age |-> u.age - n, due |-> Tick(u.due)] \in Range(t)
    <3>1. PICK i \in 1 .. k : u = s[i]
      BY <1>1
    <3> QED
      BY <1>6, <3>1 DEF Range
  <2>3. Range(t) \subseteq T
    BY <1>6, <2>1 DEF Range
  <2>4. T \subseteq Range(t)
    BY <2>2
  <2> QED
    BY <2>3, <2>4
<1>9. Ages(t) = {a - n : a \in Ages(s)}
  <2>1. \A i \in 1 .. k : s[i].age \in Ages(s)
    BY <1>1 DEF Ages
  <2>2. \A a \in Ages(s) : \E i \in 1 .. k : a = s[i].age
    BY <1>1 DEF Ages
  <2>3. Ages(t) = {t[i].age : i \in 1 .. k}
    BY <1>6 DEF Ages
  <2>4. \A i \in 1 .. k : t[i].age = s[i].age - n
    BY <1>6
  <2>5. ASSUME NEW b \in Ages(t) PROVE b \in {a - n : a \in Ages(s)}
    <3>1. PICK i \in 1 .. k : b = t[i].age
      BY <2>3
    <3> QED
      BY <2>1, <2>4, <3>1
  <2>6. ASSUME NEW a \in Ages(s) PROVE a - n \in Ages(t)
    <3>1. PICK i \in 1 .. k : a = s[i].age
      BY <2>2
    <3> QED
      BY <2>3, <2>4, <3>1
  <2> QED
    BY <2>5, <2>6
<1>10. ASSUME Distinct(s) PROVE Distinct(t)
  <2> SUFFICES ASSUME NEW i \in 1 .. k, NEW j \in 1 .. k, t[i].age = t[j].age
               PROVE  i = j
    BY <1>6 DEF Distinct
  <2>1. s[i].age = s[j].age
    <3>1. s[i].age \in Int /\ s[j].age \in Int /\ s[i].age - n = s[j].age - n
      BY <1>3, <1>6
    <3> QED
      BY <3>1
  <2> QED
    BY <1>1, <1>10, <2>1 DEF Distinct
<1> QED
  BY <1>7, <1>8, <1>9, <1>10 DEF t, k

\* The issue queue after n commits.
Moved(s, n) == [i \in DOMAIN s |-> [s[i] EXCEPT !.age = @ - n]]

\* Its entries are the same, n closer to the head.
LEMMA ShiftedFacts ==
  ASSUME NEW s \in Seq(Waiting), NEW n \in Nat, NEW m \in Nat, m <= RobSize,
         \A u \in Range(s) : u.age \in n + 1 .. m,
         NEW t, t = Moved(s, n)
  PROVE  /\ t \in Seq(Waiting) /\ Len(t) = Len(s)
         /\ \A i \in 1 .. Len(s) : /\ t[i].age = s[i].age - n
                                   /\ t[i].ready1 = s[i].ready1 /\ t[i].ready2 = s[i].ready2
         /\ Ages(t) = {a - n : a \in Ages(s)}
         /\ Distinct(s) => Distinct(t)
<1> DEFINE k == Len(s)
<1>1. /\ k \in Nat /\ DOMAIN s = 1 .. k
      /\ \A i \in 1 .. k : s[i] \in Waiting /\ s[i] \in Range(s)
  BY RangeFacts
<1>2. RobSize \in Nat
  BY Sizes
<1>3. \A i \in 1 .. k : s[i].age \in n + 1 .. m /\ s[i].age \in Int
  <2> TAKE i \in 1 .. k
  <2>1. s[i].age \in n + 1 .. m
    BY <1>1
  <2> QED
    BY <2>1
<1>4. \A i \in 1 .. k : /\ t[i] \in Waiting
                        /\ t[i].age = s[i].age - n
                        /\ t[i].ready1 = s[i].ready1 /\ t[i].ready2 = s[i].ready2
  <2> TAKE i \in 1 .. k
  <2>1. t[i] = [s[i] EXCEPT !.age = @ - n] /\ s[i] \in Waiting
    BY <1>1 DEF Moved
  <2>2. s[i].age - n \in 1 .. RobSize
    BY <1>2, <1>3
  <2> QED
    BY <2>1, <2>2 DEF Waiting
<1>5. DOMAIN t = 1 .. k
  BY <1>1 DEF Moved
<1>6. t \in Seq(Waiting) /\ Len(t) = k
  <2>1. t = [i \in 1 .. k |-> t[i]]
    BY <1>1, <1>5 DEF Moved
  <2>2. t \in [1 .. k -> Waiting]
    BY <1>4, <2>1
  <2> QED
    BY <1>1, <2>2
<1> HIDE DEF k
<1>7. Ages(t) = {a - n : a \in Ages(s)}
  <2>1. \A i \in 1 .. k : s[i].age \in Ages(s)
    BY <1>1 DEF Ages
  <2>2. \A a \in Ages(s) : \E i \in 1 .. k : a = s[i].age
    BY <1>1 DEF Ages
  <2>3. Ages(t) = {t[i].age : i \in 1 .. k}
    BY <1>5 DEF Ages
  <2>4. \A i \in 1 .. k : t[i].age = s[i].age - n
    BY <1>4
  <2>5. ASSUME NEW b \in Ages(t) PROVE b \in {a - n : a \in Ages(s)}
    <3>1. PICK i \in 1 .. k : b = t[i].age
      BY <2>3
    <3> QED
      BY <2>1, <2>4, <3>1
  <2>6. ASSUME NEW a \in Ages(s) PROVE a - n \in Ages(t)
    <3>1. PICK i \in 1 .. k : a = s[i].age
      BY <2>2
    <3> QED
      BY <2>3, <2>4, <3>1
  <2> QED
    BY <2>5, <2>6
<1>8. ASSUME Distinct(s) PROVE Distinct(t)
  <2> SUFFICES ASSUME NEW i \in 1 .. k, NEW j \in 1 .. k, t[i].age = t[j].age
               PROVE  i = j
    BY <1>5 DEF Distinct
  <2>1. s[i].age = s[j].age
    <3>1. s[i].age \in Int /\ s[j].age \in Int /\ s[i].age - n = s[j].age - n
      BY <1>3, <1>4
    <3> HIDE DEF k
    <3> QED
      BY <3>1
  <2> QED
    BY <1>1, <1>8, <2>1 DEF Distinct
<1> QED
  BY <1>4, <1>6, <1>7, <1>8 DEF k

\* The units' cycles run down.
LEMMA UnitTicks ==
  ASSUME TypeOK,
         unit' = [c \in Class |-> [u \in 1 .. Units[c] |->
                    IF unit[c][u] = 0 THEN 0 ELSE unit[c][u] - 1]]
  PROVE  /\ DOMAIN unit' = Class
         /\ \A c \in Class : unit'[c] \in [1 .. Units[c] -> 0 .. Longest]
         /\ \A c \in Class : \A t \in Nat \ {0} :
              {u \in 1 .. Units[c] : unit'[c][u] >= t} = Busy(c, t + 1)
<1>1. \A c \in Class : \A u \in 1 .. Units[c] :
        /\ unit[c][u] \in 0 .. Longest
        /\ unit'[c][u] = IF unit[c][u] = 0 THEN 0 ELSE unit[c][u] - 1
        /\ unit'[c][u] \in 0 .. Longest
  <2> TAKE c \in Class
  <2> TAKE u \in 1 .. Units[c]
  <2>1. unit[c] \in [1 .. Units[c] -> 0 .. Longest]
    BY DEF TypeOK
  <2>2. unit'[c][u] = IF unit[c][u] = 0 THEN 0 ELSE unit[c][u] - 1
    OBVIOUS
  <2>3. Longest \in Nat /\ unit[c][u] \in 0 .. Longest
    BY <2>1, Sizes
  <2> QED
    BY <2>2, <2>3
<1>2. \A c \in Class : unit'[c] \in [1 .. Units[c] -> 0 .. Longest]
  <2> TAKE c \in Class
  <2>1. unit'[c] = [u \in 1 .. Units[c] |-> unit'[c][u]]
    OBVIOUS
  <2> QED
    BY <1>1, <2>1
<1>3. ASSUME NEW c \in Class, NEW t \in Nat \ {0}
      PROVE  {u \in 1 .. Units[c] : unit'[c][u] >= t} = Busy(c, t + 1)
  <2>1. \A u \in 1 .. Units[c] : unit'[c][u] >= t <=> unit[c][u] >= t + 1
    <3> TAKE u \in 1 .. Units[c]
    <3>1. /\ unit[c][u] \in 0 .. Longest /\ Longest \in Nat
          /\ unit'[c][u] = IF unit[c][u] = 0 THEN 0 ELSE unit[c][u] - 1
      BY <1>1, Sizes
    <3> QED
      BY <3>1
  <2> QED
    BY <2>1 DEF Busy
<1> QED
  BY <1>2, <1>3

\* A committed trap ends the run: nothing is left in flight.
LEMMA CommitHalts ==
  ASSUME Inv, Commit, Committing > 0, rob[Committing].kind = "TRAP"
  PROVE  Inv'
<1>1. /\ rob' = <<>> /\ iq' = <<>> /\ executing' = <<>> /\ wbFast' = <<>> /\ wbSlow' = <<>>
      /\ booked' = [s \in 0 .. Window - 1 |-> 0] /\ stage' = "done"
      /\ now' = (now + 1) % Window
      /\ cand' = cand /\ slots' = slots /\ blocked' = blocked /\ offender' = offender
      /\ uncharged' = uncharged /\ stage = "commit"
      /\ unit' = [c \in Class |-> [u \in 1 .. Units[c] |->
                    IF unit[c][u] = 0 THEN 0 ELSE unit[c][u] - 1]]
  BY DEF Commit, loop
<1>2. TypeOK /\ Choosing /\ offender = 0
  BY <1>1 DEF Inv, Choosing
<1>3. Window \in Nat \ {0} /\ NumCdb \in Nat /\ IqSize \in Nat /\ RobSize \in Nat
  BY Sizes
<1>4. now' \in 0 .. Window - 1
  <2>1. now + 1 \in Int
    BY <1>2 DEF TypeOK
  <2> QED
    BY <1>1, <1>3, <2>1, ModRange
<1>5. /\ Len(rob') = 0 /\ Len(iq') = 0 /\ DOMAIN rob' = {} /\ DOMAIN iq' = {}
      /\ rob' \in Seq(InFlight) /\ iq' \in Seq(Waiting)
      /\ executing' \in Seq(Pending) /\ wbFast' \in Seq(Pending) /\ wbSlow' \in Seq(Pending)
  BY <1>1
<1>6. TypeOK'
  <2>1. booked' \in [0 .. Window - 1 -> 0 .. NumCdb]
    BY <1>1, <1>3
  <2>2. DOMAIN unit' = Class /\ \A c \in Class : unit'[c] \in [1 .. Units[c] -> 0 .. Longest]
    BY <1>1, <1>2, UnitTicks
  <2>3. /\ cand' \in Seq(1 .. RobSize) /\ slots' \in 0 .. Width
        /\ blocked' \in 0 .. IqSize /\ uncharged' \in 0 .. Width
    BY <1>1, <1>2 DEF TypeOK
  <2>4. offender' \in 0 .. Len(rob') /\ Len(rob') <= RobSize /\ Len(iq') <= IqSize
    BY <1>1, <1>2, <1>3, <1>5
  <2>5. /\ stage' = "done"
        /\ \A i \in DOMAIN rob' : rob'[i].src1 < i /\ rob'[i].src2 < i
    BY <1>1, <1>5
  <2> QED
    BY <1>4, <1>5, <2>1, <2>2, <2>3, <2>4, <2>5 DEF TypeOK
<1>7. /\ Range(executing') = {} /\ Range(wbFast') = {}
      /\ Ages(iq') = {} /\ Ages(executing') = {} /\ Ages(wbFast') = {} /\ Ages(wbSlow') = {}
      /\ Distinct(iq') /\ Distinct(executing') /\ Distinct(wbFast') /\ Distinct(wbSlow')
  BY <1>1 DEF Range, Ages, Distinct
<1>8. Places'
  BY <1>5, <1>7 DEF Places
<1>9. NoLostWakeup' /\ OnTime' /\ Choosing'
  BY <1>1, <1>2, <1>5, <1>7 DEF NoLostWakeup, OnTime, Choosing
<1>10. Booked'
  <2>1. \A n : Landing(n)' = {}
    BY <1>5 DEF Landing
  <2>2. \A n \in 0 .. Window - 1 : Slot(n)' \in 0 .. Window - 1
    <3> TAKE n \in 0 .. Window - 1
    <3>1. now' + n \in Int
      BY <1>3, <1>4
    <3> QED
      BY <1>3, <3>1, ModRange DEF Slot
  <2>3. \A s \in 0 .. Window - 1 : booked'[s] = 0
    BY <1>1
  <2> QED
    BY <2>1, <2>2, <2>3, FS_EmptySet DEF Booked
<1>11. Covered'
  <2> SUFFICES ASSUME NEW c \in Class, NEW t \in Nat \ {0}
               PROVE  Cardinality(Occupants(c, t)') <= Cardinality(Busy(c, t)')
    BY DEF Covered
  <2>1. Occupants(c, t)' = {}
    BY <1>5 DEF Occupants
  <2>2. Busy(c, t)' = Busy(c, t + 1)
    BY <1>1, <1>2, UnitTicks DEF Busy
  <2>3. Cardinality(Busy(c, t + 1)) \in Nat
    BY <1>2, CountRange
  <2> QED
    BY <2>1, <2>2, <2>3, FS_EmptySet
<1> QED
  BY <1>6, <1>8, <1>9, <1>10, <1>11 DEF Inv

\* A result pending after the tick was pending one cycle further off before it.
LEMMA LaterMember ==
  ASSUME NEW s \in Seq(Pending), NEW n \in Nat, NEW m \in Nat, m <= RobSize,
         \A u \in Range(s) : u.age \in n + 1 .. m /\ u.due >= 1,
         NEW b \in Int, NEW j \in Nat
  PROVE  [age |-> b, due |-> j] \in Range(Later(s, n))
           <=> [age |-> b + n, due |-> j + 1] \in Range(s)
<1>1. Range(Later(s, n)) = {[age |-> u.age - n, due |-> Tick(u.due)] : u \in Range(s)}
  BY LaterFacts
<1>2. \A u \in Range(s) : /\ u.age \in Int /\ u.due \in Nat /\ u.due >= 1
                          /\ Tick(u.due) = u.due - 1
                          /\ u = [age |-> u.age, due |-> u.due]
  <2> TAKE u \in Range(s)
  <2>1. u \in Pending
    BY RangeFacts
  <2>2. u.due \in 0 .. Longest /\ u.age \in 1 .. RobSize /\ u = [age |-> u.age, due |-> u.due]
    BY <2>1, PendingFacts
  <2> QED
    BY <2>2, Sizes DEF Tick
<1>3. ASSUME [age |-> b, due |-> j] \in Range(Later(s, n))
      PROVE  [age |-> b + n, due |-> j + 1] \in Range(s)
  <2>1. PICK u \in Range(s) :
          [age |-> b, due |-> j] = [age |-> u.age - n, due |-> Tick(u.due)]
    BY <1>1, <1>3
  <2>2. b = u.age - n /\ j = u.due - 1
    <3>1. b = u.age - n /\ j = Tick(u.due)
      BY <2>1
    <3> QED
      BY <1>2, <3>1
  <2>3. u.age = b + n /\ u.due = j + 1
    BY <1>2, <2>2
  <2> QED
    BY <1>2, <2>3
<1>4. ASSUME [age |-> b + n, due |-> j + 1] \in Range(s)
      PROVE  [age |-> b, due |-> j] \in Range(Later(s, n))
  <2> DEFINE u == [age |-> b + n, due |-> j + 1]
  <2>1. u \in Range(s) /\ u.age = b + n /\ u.due = j + 1
    BY <1>4
  <2>2. u.age - n = b /\ Tick(u.due) = j
    BY <2>1 DEF Tick
  <2> HIDE DEF u
  <2> QED
    BY <1>1, <2>1, <2>2
<1> QED
  BY <1>3, <1>4

\* The reorder buffer after its n oldest left.
Behind(n) ==
  [i \in 1 .. Len(rob) - n |->
     [rob[i + n] EXCEPT !.src1 = Older(@, n), !.src2 = Older(@, n)]]

\* Sources that committed read as none, the others move with the head.
LEMMA HeadLeaves ==
  ASSUME TypeOK, NEW n \in 0 .. Len(rob), NEW r, r = Behind(n)
  PROVE  /\ r \in Seq(InFlight) /\ Len(r) = Len(rob) - n
         /\ \A i \in 1 .. Len(rob) - n :
              /\ r[i].kind = rob[i + n].kind /\ r[i].writes = rob[i + n].writes
              /\ r[i].complete = rob[i + n].complete
              /\ r[i].src1 = Older(rob[i + n].src1, n) /\ r[i].src1 \in 0 .. i - 1
              /\ r[i].src2 = Older(rob[i + n].src2, n) /\ r[i].src2 \in 0 .. i - 1
<1> DEFINE m == Len(rob)
<1>1. m \in Nat /\ n \in Nat /\ m - n \in Nat /\ m <= RobSize /\ RobSize \in Nat
  <2>1. m \in Nat /\ m <= RobSize /\ RobSize \in Nat /\ n \in 0 .. m
    BY RobFields, Sizes
  <2> HIDE DEF m
  <2> QED
    BY <2>1
<1>2. ASSUME NEW i \in 1 .. m - n
      PROVE  /\ r[i].kind = rob[i + n].kind /\ r[i].writes = rob[i + n].writes
             /\ r[i].complete = rob[i + n].complete
             /\ r[i].src1 = Older(rob[i + n].src1, n) /\ r[i].src1 \in 0 .. i - 1
             /\ r[i].src2 = Older(rob[i + n].src2, n) /\ r[i].src2 \in 0 .. i - 1
             /\ r[i] \in InFlight
  <2>1. i + n \in 1 .. m /\ i \in 1 .. m - n /\ n \in Nat /\ i \in Nat
    <3>1. i \in 1 .. m - n
      OBVIOUS
    <3> HIDE DEF m
    <3> QED
      BY <1>1, <3>1
  <2>2. /\ rob[i + n] \in InFlight
        /\ rob[i + n].src1 \in 0 .. (i + n) - 1 /\ rob[i + n].src2 \in 0 .. (i + n) - 1
    BY <2>1, RobFields
  <2>3. r[i] = [rob[i + n] EXCEPT !.src1 = Older(@, n), !.src2 = Older(@, n)]
    BY DEF Behind
  <2>4. Older(rob[i + n].src1, n) \in 0 .. i - 1 /\ Older(rob[i + n].src2, n) \in 0 .. i - 1
    <3> DEFINE p == rob[i + n].src1
               q == rob[i + n].src2
    <3>1. p \in 0 .. (i + n) - 1 /\ q \in 0 .. (i + n) - 1
      BY <2>2
    <3> HIDE DEF p, q, m
    <3>2. Older(p, n) \in 0 .. i - 1
      BY <2>1, <3>1 DEF Older
    <3>3. Older(q, n) \in 0 .. i - 1
      BY <2>1, <3>1 DEF Older
    <3> QED
      BY <3>2, <3>3 DEF p, q
  <2>5. Older(rob[i + n].src1, n) \in 0 .. RobSize /\ Older(rob[i + n].src2, n) \in 0 .. RobSize
    <3>1. i - 1 <= RobSize
      <4> HIDE DEF m
      <4> QED
        BY <1>1, <2>1
    <3> QED
      BY <1>1, <2>1, <2>4, <3>1
  <2>6. /\ r[i].kind = rob[i + n].kind /\ r[i].writes = rob[i + n].writes
        /\ r[i].complete = rob[i + n].complete
        /\ r[i].src1 = Older(rob[i + n].src1, n)
        /\ r[i].src2 = Older(rob[i + n].src2, n)
        /\ r[i] \in InFlight
    BY <2>2, <2>3, <2>5 DEF InFlight
  <2> QED
    BY <2>4, <2>6
<1>3. r \in [1 .. m - n -> InFlight]
  <2>1. r = [i \in 1 .. m - n |-> r[i]]
    BY DEF Behind
  <2> QED
    BY <1>2, <2>1
<1>4. r \in Seq(InFlight) /\ Len(r) = m - n
  BY <1>1, <1>3
<1> QED
  BY <1>2, <1>4

\* Commit of any number of operations, the run not over.
CommitGoesOn ==
  /\ Commit
  /\ ~(Committing > 0 /\ rob[Committing].kind = "TRAP")

\* Its assignments, one by one.
LEMMA GoesOn ==
  ASSUME CommitGoesOn
  PROVE  LET n == Committing
         IN /\ stage = "commit" /\ stage' = "writeback"
            /\ now' = (now + 1) % Window /\ booked' = booked
            /\ unit' = [c \in Class |-> [u \in 1 .. Units[c] |->
                          IF unit[c][u] = 0 THEN 0 ELSE unit[c][u] - 1]]
            /\ rob' = Behind(n)
            /\ iq' = Moved(iq, n)
            /\ executing' = Later(executing, n)
            /\ wbFast' = Later(wbFast, n) /\ wbSlow' = Later(wbSlow, n)
            /\ cand' = cand /\ slots' = slots /\ blocked' = blocked /\ offender' = offender
            /\ uncharged' = uncharged
  BY DEF CommitGoesOn, Commit, Behind, Moved, loop

\* What has not completed is behind what commits.
LEMMA BehindTheHead ==
  ASSUME Inv
  PROVE  /\ Committing \in 0 .. Len(rob) /\ Committing \in Nat
         /\ \A a \in 1 .. Len(rob) : ~rob[a].complete => a \in Committing + 1 .. Len(rob)
         /\ \A u \in Range(iq) : u.age \in Committing + 1 .. Len(rob)
         /\ \A u \in Range(executing) : u.age \in Committing + 1 .. Len(rob)
         /\ \A u \in Range(wbFast) : u.age \in Committing + 1 .. Len(rob)
         /\ \A u \in Range(wbSlow) : u.age \in Committing + 1 .. Len(rob)
<1> DEFINE n == Committing
<1>1. TypeOK /\ Places
  BY DEF Inv
<1>2. n \in 0 .. Len(rob) /\ \A i \in 1 .. n : rob[i].complete
  BY <1>1, CommittingFacts
<1>3. Len(rob) \in Nat /\ n \in Nat
  BY <1>1, <1>2, RobFields
<1> HIDE DEF n
<1>4. \A a \in 1 .. Len(rob) : ~rob[a].complete => a \in n + 1 .. Len(rob)
  <2> SUFFICES ASSUME NEW a \in 1 .. Len(rob), a \in 1 .. n PROVE rob[a].complete
    BY <1>3
  <2> QED
    BY <1>2
<1>5. \A a \in Ages(iq) \cup Ages(executing) \cup Ages(wbFast) \cup Ages(wbSlow) :
        a \in n + 1 .. Len(rob)
  BY <1>1, <1>4, PlaceFacts
<1> QED
  BY <1>1, <1>2, <1>3, <1>4, <1>5, PlaceFacts DEF n

\* Places move with the head.
LEMMA ShiftedPlaces ==
  ASSUME NEW m \in Nat, NEW n \in Nat, NEW A \in SUBSET (n + 1 .. m), NEW B \in SUBSET (n + 1 .. m),
         A \cap B = {}
  PROVE  {a - n : a \in A} \cap {a - n : a \in B} = {}
<1> SUFFICES ASSUME NEW a \in A, NEW b \in B, a - n = b - n PROVE FALSE
  OBVIOUS
<1>1. a \in Int /\ b \in Int
  OBVIOUS
<1>2. a = b
  BY <1>1
<1> QED
  BY <1>2

\* What a commit that does not end the run leaves of the places.
LEMMA CommitMoves ==
  ASSUME Inv, CommitGoesOn
  PROVE  LET n == Committing
         IN /\ rob' \in Seq(InFlight) /\ Len(rob') = Len(rob) - n /\ Len(rob') <= RobSize
            /\ DOMAIN rob' = 1 .. Len(rob) - n
            /\ iq' \in Seq(Waiting) /\ Len(iq') = Len(iq)
            /\ executing' \in Seq(Pending) /\ wbFast' \in Seq(Pending) /\ wbSlow' \in Seq(Pending)
            /\ Distinct(iq') /\ Distinct(executing') /\ Distinct(wbFast') /\ Distinct(wbSlow')
            /\ Ages(iq') = {a - n : a \in Ages(iq)}
            /\ Ages(executing') = {a - n : a \in Ages(executing)}
            /\ Ages(wbFast') = {a - n : a \in Ages(wbFast)}
            /\ Ages(wbSlow') = {a - n : a \in Ages(wbSlow)}
<1> DEFINE n == Committing
<1>1. TypeOK /\ Places
  BY DEF Inv
<1>2. /\ n \in 0 .. Len(rob) /\ n \in Nat
      /\ \A u \in Range(iq) : u.age \in n + 1 .. Len(rob)
      /\ \A u \in Range(executing) : u.age \in n + 1 .. Len(rob)
      /\ \A u \in Range(wbFast) : u.age \in n + 1 .. Len(rob)
      /\ \A u \in Range(wbSlow) : u.age \in n + 1 .. Len(rob)
  BY BehindTheHead
<1>3. /\ rob' = Behind(n) /\ executing' = Later(executing, n)
      /\ wbFast' = Later(wbFast, n) /\ wbSlow' = Later(wbSlow, n)
      /\ iq' = Moved(iq, n)
  BY GoesOn
<1> HIDE DEF n
<1>4. /\ Len(rob) \in Nat /\ Len(rob) <= RobSize
      /\ iq \in Seq(Waiting) /\ executing \in Seq(Pending)
      /\ wbFast \in Seq(Pending) /\ wbSlow \in Seq(Pending)
  <2>1. Len(rob) \in Nat /\ Len(rob) <= RobSize
    BY <1>1, RobFields
  <2> QED
    BY <1>1, <2>1 DEF TypeOK
<1>5. /\ rob' \in Seq(InFlight) /\ Len(rob') = Len(rob) - n
      /\ DOMAIN rob' = 1 .. Len(rob) - n
  <2>1. rob' \in Seq(InFlight) /\ Len(rob') = Len(rob) - n
    BY <1>1, <1>2, <1>3, HeadLeaves
  <2>2. DOMAIN rob' = 1 .. Len(rob')
    BY <2>1
  <2> QED
    BY <2>1, <2>2
<1>6. Len(rob') <= RobSize
  <2>1. RobSize \in Nat
    BY Sizes
  <2> QED
    BY <1>2, <1>4, <1>5, <2>1
<1>7. /\ iq' \in Seq(Waiting) /\ Len(iq') = Len(iq)
      /\ Ages(iq') = {a - n : a \in Ages(iq)}
      /\ Distinct(iq) => Distinct(iq')
  BY <1>2, <1>3, <1>4, ShiftedFacts
<1>8. /\ executing' \in Seq(Pending) /\ Ages(executing') = {a - n : a \in Ages(executing)}
      /\ Distinct(executing) => Distinct(executing')
  BY <1>2, <1>3, <1>4, LaterFacts
<1>9. /\ wbFast' \in Seq(Pending) /\ Ages(wbFast') = {a - n : a \in Ages(wbFast)}
      /\ Distinct(wbFast) => Distinct(wbFast')
  BY <1>2, <1>3, <1>4, LaterFacts
<1>10. /\ wbSlow' \in Seq(Pending) /\ Ages(wbSlow') = {a - n : a \in Ages(wbSlow)}
       /\ Distinct(wbSlow) => Distinct(wbSlow')
  BY <1>2, <1>3, <1>4, LaterFacts
<1>11. Distinct(iq) /\ Distinct(executing) /\ Distinct(wbFast) /\ Distinct(wbSlow)
  BY <1>1 DEF Places
<1> QED
  BY <1>5, <1>6, <1>7, <1>8, <1>9, <1>10, <1>11 DEF n

\* After a commit: types.
LEMMA CommitType ==
  ASSUME Inv, CommitGoesOn
  PROVE  TypeOK'
<1>1. TypeOK /\ Choosing /\ offender' = 0
  BY GoesOn DEF Inv, Choosing
<1>2. /\ Len(rob) \in Nat /\ Committing \in 0 .. Len(rob)
      /\ DOMAIN rob' = 1 .. Len(rob) - Committing
      /\ \A i \in 1 .. Len(rob) - Committing : rob'[i].src1 \in 0 .. i - 1 /\ rob'[i].src2 \in 0 .. i - 1
  <2>1. Committing \in 0 .. Len(rob) /\ rob' = Behind(Committing) /\ Len(rob) \in Nat
    BY <1>1, BehindTheHead, GoesOn, RobFields
  <2>2. DOMAIN rob' = 1 .. Len(rob) - Committing
    BY CommitMoves
  <2> QED
    BY <1>1, <2>1, <2>2, HeadLeaves
<1>3. \A i \in DOMAIN rob' : rob'[i].src1 < i /\ rob'[i].src2 < i
  BY <1>2
<1>4. now' \in 0 .. Window - 1
  <2>1. now + 1 \in Int /\ Window \in Nat \ {0}
    BY <1>1, Sizes DEF TypeOK
  <2> QED
    BY <2>1, ModRange, GoesOn
<1>5. DOMAIN unit' = Class /\ \A c \in Class : unit'[c] \in [1 .. Units[c] -> 0 .. Longest]
  BY <1>1, GoesOn, UnitTicks
<1>6. /\ stage' = "writeback" /\ booked' = booked /\ cand' = cand /\ slots' = slots
      /\ blocked' = blocked /\ uncharged' = uncharged
  BY GoesOn
<1>7. offender' \in 0 .. Len(rob')
  <2>1. Len(rob') = Len(rob) - Committing
    BY CommitMoves
  <2> QED
    BY <1>1, <1>2, <2>1
<1>8. Len(iq') <= IqSize /\ Len(rob') <= RobSize
  BY <1>1, CommitMoves DEF TypeOK
<1> QED
  BY <1>1, <1>3, <1>4, <1>5, <1>6, <1>7, <1>8, CommitMoves DEF TypeOK

\* After a commit: places.
LEMMA CommitPlaces ==
  ASSUME Inv, CommitGoesOn
  PROVE  Places'
<1> DEFINE n == Committing
           m == Len(rob)
           I == Ages(iq)
           E == Ages(executing)
           F == Ages(wbFast)
           S == Ages(wbSlow)
           Shift(A) == {a - n : a \in A}
<1>1. TypeOK /\ Places
  BY DEF Inv
<1>2. m \in Nat /\ n \in Nat /\ n \in 0 .. m
  BY <1>1, BehindTheHead, RobFields
<1>3. /\ Ages(iq') = Shift(I) /\ Ages(executing') = Shift(E)
      /\ Ages(wbFast') = Shift(F) /\ Ages(wbSlow') = Shift(S)
      /\ Distinct(iq') /\ Distinct(executing') /\ Distinct(wbFast') /\ Distinct(wbSlow')
  BY CommitMoves
<1>4. /\ I \in SUBSET (n + 1 .. m) /\ E \in SUBSET (n + 1 .. m)
      /\ F \in SUBSET (n + 1 .. m) /\ S \in SUBSET (n + 1 .. m)
  <2>1. \A a \in 1 .. m : ~rob[a].complete => a \in n + 1 .. m
    BY BehindTheHead
  <2>2. \A a \in I \cup E \cup F \cup S : a \in 1 .. m /\ ~rob[a].complete
    BY <1>1, PlaceFacts
  <2> QED
    BY <2>1, <2>2
<1>5. /\ I \cap E = {} /\ I \cap F = {} /\ I \cap S = {}
      /\ E \cap F = {} /\ E \cap S = {} /\ F \cap S = {}
  BY <1>1 DEF Places
<1>6. \A i \in 1 .. m - n : rob'[i].complete = rob[i + n].complete
  <2>1. rob' = Behind(n)
    BY GoesOn
  <2> QED
    BY <1>1, <1>2, <2>1, HeadLeaves
<1>7. DOMAIN rob' = 1 .. m - n
  BY CommitMoves
<1>8. I \cup E \cup F \cup S = {a \in n + 1 .. m : ~rob[a].complete}
  <2>1. \A a \in 1 .. m : ~rob[a].complete => a \in I \cup E \cup F \cup S
    BY <1>1, PlaceFacts
  <2>2. \A a \in I \cup E \cup F \cup S : ~rob[a].complete
    BY <1>1, PlaceFacts
  <2>3. \A a \in n + 1 .. m : a \in 1 .. m
    BY <1>2
  <2> QED
    BY <1>4, <2>1, <2>2, <2>3
<1> HIDE DEF n, m, I, E, F, S
<1>9. Shift(I) \cup Shift(E) \cup Shift(F) \cup Shift(S) = {a \in DOMAIN rob' : ~rob'[a].complete}
  <2>1. \A a \in n + 1 .. m : a - n \in 1 .. m - n /\ (a - n) + n = a
    BY <1>2
  <2>2. \A b \in 1 .. m - n : b + n \in n + 1 .. m /\ (b + n) - n = b
    BY <1>2
  <2>3. ASSUME NEW b \in Shift(I) \cup Shift(E) \cup Shift(F) \cup Shift(S)
        PROVE  b \in DOMAIN rob' /\ ~rob'[b].complete
    <3>1. PICK a \in I \cup E \cup F \cup S : b = a - n
      BY <2>3
    <3>2. a \in n + 1 .. m /\ ~rob[a].complete
      BY <1>8
    <3> QED
      BY <1>6, <1>7, <2>1, <3>1, <3>2
  <2>4. ASSUME NEW b \in DOMAIN rob', ~rob'[b].complete
        PROVE  b \in Shift(I) \cup Shift(E) \cup Shift(F) \cup Shift(S)
    <3>1. b + n \in n + 1 .. m /\ (b + n) - n = b /\ ~rob[b + n].complete
      BY <1>6, <1>7, <2>2, <2>4
    <3>2. b + n \in I \cup E \cup F \cup S
      BY <1>8, <3>1
    <3> QED
      BY <3>1, <3>2
  <2> HIDE DEF Shift
  <2> QED
    BY <2>3, <2>4
<1>10. /\ Shift(I) \cap Shift(E) = {} /\ Shift(I) \cap Shift(F) = {} /\ Shift(I) \cap Shift(S) = {}
       /\ Shift(E) \cap Shift(F) = {} /\ Shift(E) \cap Shift(S) = {} /\ Shift(F) \cap Shift(S) = {}
  BY <1>2, <1>4, <1>5, ShiftedPlaces
<1> HIDE DEF Shift
<1> QED
  BY <1>3, <1>9, <1>10 DEF Places

\* After a commit: what is ready stays so, what is not does not become it.
LEMMA CommitWakeup ==
  ASSUME Inv, CommitGoesOn
  PROVE  NoLostWakeup'
<1> DEFINE n == Committing
           m == Len(rob)
<1>1. TypeOK /\ Places /\ NoLostWakeup
  BY DEF Inv
<1>2. m \in Nat /\ n \in Nat /\ n \in 0 .. m /\ m <= RobSize /\ \A i \in 1 .. n : rob[i].complete
  BY <1>1, BehindTheHead, RobFields, CommittingFacts
<1>3. /\ rob' = Behind(n)
      /\ iq' = Moved(iq, n)
  BY GoesOn
<1>4. iq \in Seq(Waiting) /\ DOMAIN iq = 1 .. Len(iq)
  BY <1>1 DEF TypeOK
<1>5. DOMAIN iq' = DOMAIN iq
  BY <1>3 DEF Moved
<1>6. \A u \in Range(iq) : u.age \in n + 1 .. m
  BY BehindTheHead
<1> HIDE DEF n, m
<1>7. \A i \in DOMAIN iq : /\ iq'[i].age = iq[i].age - n
                           /\ iq'[i].ready1 = iq[i].ready1 /\ iq'[i].ready2 = iq[i].ready2
  BY <1>2, <1>3, <1>4, <1>6, ShiftedFacts
<1>8. ASSUME NEW i \in DOMAIN iq
      PROVE  LET u == rob'[iq'[i].age]
                 done(src) == src = 0 \/ rob'[src].complete
             IN iq'[i].ready1 = done(u.src1) /\ iq'[i].ready2 = done(u.src2)
  <2> DEFINE a == iq[i].age
             s1 == rob[a].src1
             s2 == rob[a].src2
             b == a - n
  <2>1. a \in n + 1 .. m
    BY <1>6 DEF Range
  <2>2. /\ a \in 1 .. m /\ b \in 1 .. m - n /\ b + n = a
    <3>1. a \in Int
      BY <2>1
    <3> HIDE DEF a
    <3> QED
      BY <1>2, <2>1, <3>1
  <2>3. /\ s1 \in 0 .. a - 1 /\ s2 \in 0 .. a - 1
    BY <1>1, <2>2, RobFields DEF m
  <2>4. \A j \in 1 .. m - n : /\ rob'[j].complete = rob[j + n].complete
                              /\ rob'[j].src1 = Older(rob[j + n].src1, n)
                              /\ rob'[j].src2 = Older(rob[j + n].src2, n)
    BY <1>1, <1>2, <1>3, HeadLeaves DEF m
  <2>5. rob'[b].src1 = Older(s1, n) /\ rob'[b].src2 = Older(s2, n)
    BY <2>2, <2>4
  <2>6. ASSUME NEW s \in 0 .. a - 1
        PROVE  (Older(s, n) = 0 \/ rob'[Older(s, n)].complete) <=> (s = 0 \/ rob[s].complete)
    <3>1. CASE s <= n
      <4>1. Older(s, n) = 0
        BY <3>1 DEF Older
      <4>2. s = 0 \/ s \in 1 .. n
        <5> HIDE DEF a
        <5> QED
          BY <1>2, <2>2, <3>1
      <4> QED
        BY <1>2, <4>1, <4>2
    <3>2. CASE ~(s <= n)
      <4>1. Older(s, n) = s - n
        BY <3>2 DEF Older
      <4>2. s - n \in 1 .. m - n /\ (s - n) + n = s /\ s # 0 /\ s - n # 0
        <5> HIDE DEF a
        <5> QED
          BY <1>2, <2>2, <3>2
      <4>3. rob'[s - n].complete = rob[s].complete
        BY <2>4, <4>2
      <4> QED
        BY <4>1, <4>2, <4>3
    <3> QED
      BY <3>1, <3>2
  <2>7. /\ iq[i].ready1 = (s1 = 0 \/ rob[s1].complete)
        /\ iq[i].ready2 = (s2 = 0 \/ rob[s2].complete)
    BY <1>1 DEF NoLostWakeup
  <2>8. /\ iq'[i].age = b /\ iq'[i].ready1 = iq[i].ready1 /\ iq'[i].ready2 = iq[i].ready2
    BY <1>7
  <2> HIDE DEF a, b, s1, s2
  <2>9. /\ (Older(s1, n) = 0 \/ rob'[Older(s1, n)].complete) <=> (s1 = 0 \/ rob[s1].complete)
        /\ (Older(s2, n) = 0 \/ rob'[Older(s2, n)].complete) <=> (s2 = 0 \/ rob[s2].complete)
    BY <2>3, <2>6
  <2>10. /\ iq'[i].ready1 = (rob'[b].src1 = 0 \/ rob'[rob'[b].src1].complete)
         /\ iq'[i].ready2 = (rob'[b].src2 = 0 \/ rob'[rob'[b].src2].complete)
    BY <2>5, <2>7, <2>8, <2>9
  <2> QED
    BY <2>8, <2>10
<1> QED
  BY <1>5, <1>8 DEF NoLostWakeup

\* After a commit: what was due next cycle is due now.
LEMMA CommitOnTime ==
  ASSUME Inv, CommitGoesOn
  PROVE  OnTime'
<1> DEFINE n == Committing
           m == Len(rob)
<1>1. TypeOK /\ OnTime /\ stage = "commit" /\ stage' = "writeback"
  BY GoesOn DEF Inv
<1>2. /\ m \in Nat /\ n \in Nat /\ n \in 0 .. m /\ m <= RobSize
      /\ \A u \in Range(executing) : u.age \in n + 1 .. m
      /\ \A u \in Range(wbFast) : u.age \in n + 1 .. m
  BY <1>1, BehindTheHead, RobFields
<1>3. /\ rob' = Behind(n) /\ executing' = Later(executing, n) /\ wbFast' = Later(wbFast, n)
      /\ executing \in Seq(Pending) /\ wbFast \in Seq(Pending)
  BY <1>1, GoesOn DEF TypeOK
<1>4. \A i \in 1 .. m - n : rob'[i].kind = rob[i + n].kind
  BY <1>1, <1>2, <1>3, HeadLeaves
<1>5. /\ \A u \in Range(executing) : u.due >= 2
      /\ \A u \in Range(wbFast) : rob[u.age].kind # "LOAD" /\ u.due = 1
  BY <1>1 DEF OnTime
<1> HIDE DEF n, m
<1>6. /\ Range(executing') = {[age |-> u.age - n, due |-> Tick(u.due)] : u \in Range(executing)}
      /\ Range(wbFast') = {[age |-> u.age - n, due |-> Tick(u.due)] : u \in Range(wbFast)}
  BY <1>2, <1>3, LaterFacts
<1>7. \A v \in Range(executing') : v.due >= 1
  <2> TAKE v \in Range(executing')
  <2>1. PICK u \in Range(executing) : v = [age |-> u.age - n, due |-> Tick(u.due)]
    BY <1>6
  <2>2. u \in Pending
    BY <1>3, RangeFacts
  <2>3. u.due \in 0 .. Longest /\ u.due >= 2 /\ Longest \in Nat
    BY <1>5, <2>2, PendingFacts, Sizes
  <2>4. v.due = Tick(u.due)
    BY <2>1
  <2> QED
    BY <2>3, <2>4 DEF Tick
<1>8. \A v \in Range(wbFast') : rob'[v.age].kind # "LOAD" /\ v.due = 0
  <2> TAKE v \in Range(wbFast')
  <2>1. PICK u \in Range(wbFast) : v = [age |-> u.age - n, due |-> Tick(u.due)]
    BY <1>6
  <2>2. v.age = u.age - n /\ v.due = Tick(u.due) /\ u.due = 1 /\ rob[u.age].kind # "LOAD"
    BY <1>5, <2>1
  <2>3. u.age \in n + 1 .. m /\ u.age \in Int
    BY <1>2
  <2>4. u.age - n \in 1 .. m - n /\ (u.age - n) + n = u.age
    BY <1>2, <2>3
  <2> QED
    BY <1>4, <2>2, <2>4 DEF Tick
<1> QED
  BY <1>1, <1>7, <1>8 DEF OnTime

\* An operation in flight and what of it a commit leaves.
LEMMA CommitLater ==
  ASSUME Inv, CommitGoesOn
  PROVE  LET n == Committing
             m == Len(rob)
         IN \A b \in 1 .. m - n : \A j \in Nat :
              /\ rob'[b].kind = rob[b + n].kind /\ rob'[b].writes = rob[b + n].writes
              /\ [age |-> b, due |-> j] \in Range(executing')
                   <=> [age |-> b + n, due |-> j + 1] \in Range(executing)
              /\ [age |-> b, due |-> j] \in Range(wbFast')
                   <=> [age |-> b + n, due |-> j + 1] \in Range(wbFast)
<1> DEFINE n == Committing
           m == Len(rob)
<1>1. TypeOK /\ OnTime /\ stage = "commit"
  BY GoesOn DEF Inv
<1>2. /\ m \in Nat /\ n \in Nat /\ n \in 0 .. m /\ m <= RobSize
      /\ \A u \in Range(executing) : u.age \in n + 1 .. m
      /\ \A u \in Range(wbFast) : u.age \in n + 1 .. m
  BY <1>1, BehindTheHead, RobFields
<1>3. /\ rob' = Behind(n) /\ executing' = Later(executing, n) /\ wbFast' = Later(wbFast, n)
      /\ executing \in Seq(Pending) /\ wbFast \in Seq(Pending)
  BY <1>1, GoesOn DEF TypeOK
<1>4. \A i \in 1 .. m - n : rob'[i].kind = rob[i + n].kind /\ rob'[i].writes = rob[i + n].writes
  BY <1>1, <1>2, <1>3, HeadLeaves
<1>5. /\ \A u \in Range(executing) : u.due >= 1
      /\ \A u \in Range(wbFast) : u.due >= 1
  <2>1. /\ \A u \in Range(executing) : u.due >= 2
        /\ \A u \in Range(wbFast) : u.due = 1
    BY <1>1 DEF OnTime
  <2>2. \A u \in Range(executing) : u.due \in 0 .. Longest
    <3> TAKE u \in Range(executing)
    <3>1. u \in Pending
      BY <1>3, RangeFacts
    <3> QED
      BY <3>1, PendingFacts
  <2> QED
    BY <2>1, <2>2, Sizes
<1> HIDE DEF n, m
<1>6. ASSUME NEW b \in 1 .. m - n, NEW j \in Nat
      PROVE  /\ [age |-> b, due |-> j] \in Range(Later(executing, n))
                  <=> [age |-> b + n, due |-> j + 1] \in Range(executing)
             /\ [age |-> b, due |-> j] \in Range(Later(wbFast, n))
                  <=> [age |-> b + n, due |-> j + 1] \in Range(wbFast)
  <2>1. b \in Int
    OBVIOUS
  <2>2. [age |-> b, due |-> j] \in Range(Later(executing, n))
          <=> [age |-> b + n, due |-> j + 1] \in Range(executing)
    BY <1>2, <1>3, <1>5, <2>1, LaterMember
  <2>3. [age |-> b, due |-> j] \in Range(Later(wbFast, n))
          <=> [age |-> b + n, due |-> j + 1] \in Range(wbFast)
    BY <1>2, <1>3, <1>5, <2>1, LaterMember
  <2> QED
    BY <2>2, <2>3
<1> QED
  BY <1>3, <1>4, <1>6 DEF n, m

\* The ring after a commit: every slot stands for one cycle less.
LEMMA CommitBooked ==
  ASSUME Inv, CommitGoesOn
  PROVE  Booked'
<1> DEFINE n == Committing
           m == Len(rob)
<1>1. TypeOK /\ OnTime /\ Booked /\ stage = "commit" /\ Places
  BY GoesOn DEF Inv
<1>2. /\ m \in Nat /\ n \in Nat /\ n \in 0 .. m
      /\ now \in 0 .. Window - 1 /\ Window \in Nat \ {0} /\ Window = Longest + 2 /\ Longest \in Nat
      /\ now' = (now + 1) % Window /\ booked' = booked
      /\ DOMAIN rob' = 1 .. m - n
  <2>1. m \in Nat /\ n \in Nat /\ n \in 0 .. m /\ DOMAIN rob' = 1 .. m - n
    BY <1>1, BehindTheHead, RobFields, CommitMoves
  <2>2. Window \in Nat \ {0} /\ Window = Longest + 2 /\ Longest \in Nat
    BY Sizes
  <2>3. now' = (now + 1) % Window /\ booked' = booked
    BY GoesOn
  <2>4. now \in 0 .. Window - 1
    BY <1>1 DEF TypeOK
  <2> QED
    BY <2>1, <2>2, <2>3, <2>4
<1>3. \A b \in 1 .. m - n : \A j \in Nat :
        /\ rob'[b].kind = rob[b + n].kind /\ rob'[b].writes = rob[b + n].writes
        /\ [age |-> b, due |-> j] \in Range(executing')
             <=> [age |-> b + n, due |-> j + 1] \in Range(executing)
        /\ [age |-> b, due |-> j] \in Range(wbFast')
             <=> [age |-> b + n, due |-> j + 1] \in Range(wbFast)
  BY CommitLater
<1>4. \A a \in 1 .. m : ~rob[a].complete => a \in n + 1 .. m
  BY BehindTheHead
<1>5. \A j \in Nat : \A a \in Landing(j) : a \in n + 1 .. m
  <2> SUFFICES ASSUME NEW j \in Nat, NEW a \in Landing(j) PROVE a \in n + 1 .. m
    OBVIOUS
  <2> DEFINE u == [age |-> a, due |-> j]
  <2>1. u.age = a /\ (u \in Range(executing) \/ u \in Range(wbFast))
    BY DEF Landing
  <2> HIDE DEF u
  <2> QED
    BY <2>1, BehindTheHead
<1>6. \A j \in Nat : Landing(j)' = {a - n : a \in Landing(j + 1)}
  <2> TAKE j \in Nat
  <2>1. DOMAIN rob = 1 .. m
    BY <1>1, RobFields
  <2> HIDE DEF n, m
  <2>2. Landing(j)' =
          {b \in 1 .. m - n : /\ rob'[b].writes /\ rob'[b].kind # "LOAD"
                              /\ [age |-> b, due |-> j] \in Range(executing') \cup Range(wbFast')}
    BY <1>2 DEF Landing
  <2>3. \A b \in 1 .. m - n : b + n \in 1 .. m /\ (b + n) - n = b
    BY <1>2
  <2>4. \A a \in n + 1 .. m : a - n \in 1 .. m - n /\ (a - n) + n = a
    BY <1>2
  <2>5. ASSUME NEW b \in Landing(j)' PROVE b \in {a - n : a \in Landing(j + 1)}
    <3>1. /\ b \in 1 .. m - n /\ rob[b + n].writes /\ rob[b + n].kind # "LOAD"
          /\ [age |-> b + n, due |-> j + 1] \in Range(executing) \cup Range(wbFast)
      BY <1>3, <2>2, <2>5
    <3>2. b + n \in Landing(j + 1)
      BY <2>1, <2>3, <3>1 DEF Landing
    <3> QED
      BY <2>3, <3>1, <3>2
  <2>6. ASSUME NEW a \in Landing(j + 1) PROVE a - n \in Landing(j)'
    <3>1. a - n \in 1 .. m - n /\ (a - n) + n = a
      BY <1>5, <2>4
    <3>2. /\ rob[a].writes /\ rob[a].kind # "LOAD"
          /\ [age |-> a, due |-> j + 1] \in Range(executing) \cup Range(wbFast)
      BY DEF Landing
    <3> QED
      BY <1>3, <2>2, <3>1, <3>2
  <2>7. {a - n : a \in Landing(j + 1)} \subseteq Landing(j)'
    BY <2>6
  <2> QED
    BY <2>5, <2>7
<1>7. \A j \in Nat : Cardinality(Landing(j)') = Cardinality(Landing(j + 1))
  <2> TAKE j \in Nat
  <2>1. Landing(j + 1) \in SUBSET (1 .. m)
    BY <1>1, CountRange
  <2>2. Cardinality({a - n : a \in Landing(j + 1)}) = Cardinality(Landing(j + 1))
    BY <1>2, <2>1, CountShifted
  <2> QED
    BY <1>6, <2>2
<1>8. Landing(0) = {} /\ Landing(Window) = {}
  <2> SUFFICES ASSUME NEW j \in {0, Window}, NEW a \in Landing(j) PROVE FALSE
    OBVIOUS
  <2> DEFINE u == [age |-> a, due |-> j]
  <2>1. u.due = j /\ (u \in Range(executing) \/ u \in Range(wbFast))
    BY DEF Landing
  <2>2. u.due \in 0 .. Longest
    BY <1>1, <2>1, PlaceFacts, PendingFacts
  <2>3. u \in Range(executing) => u.due >= 2
    BY <1>1 DEF OnTime
  <2>4. u \in Range(wbFast) => u.due = 1
    BY <1>1 DEF OnTime
  <2> HIDE DEF u
  <2> QED
    BY <1>2, <2>1, <2>2, <2>3, <2>4
<1> HIDE DEF n, m
<1>9. ASSUME NEW j \in 0 .. Window - 1
      PROVE  booked'[Slot(j)'] = Cardinality(Landing(j)')
  <2>1. j \in Nat
    OBVIOUS
  <2>2. CASE j + 1 < Window
    <3>1. j + 1 \in 0 .. Window - 1
      BY <1>2, <2>1, <2>2
    <3>2. Slot(j)' = Slot(j + 1)
      BY <1>2, <2>2, SlotMoves DEF Slot
    <3> QED
      BY <1>1, <1>2, <1>7, <2>1, <3>1, <3>2 DEF Booked
  <2>3. CASE j + 1 = Window
    <3>1. Slot(j)' = now /\ Slot(0) = now /\ 0 \in 0 .. Window - 1
      BY <1>2, <2>3, SlotMoves, SlotFacts DEF Slot
    <3>2. booked[now] = Cardinality(Landing(0))
      BY <1>1, <3>1 DEF Booked
    <3>3. Cardinality(Landing(j)') = Cardinality(Landing(Window))
      BY <1>7, <2>1, <2>3
    <3> QED
      BY <1>2, <1>8, <3>1, <3>2, <3>3
  <2> QED
    BY <1>2, <2>1, <2>2, <2>3
<1> QED
  BY <1>2, <1>9 DEF Booked

\* The units after a commit: every one is free a cycle earlier.
LEMMA CommitCovered ==
  ASSUME Inv, CommitGoesOn
  PROVE  Covered'
<1> DEFINE n == Committing
           m == Len(rob)
<1>1. TypeOK /\ OnTime /\ Covered /\ Places /\ stage = "commit"
  BY GoesOn DEF Inv
<1>2. /\ m \in Nat /\ n \in Nat /\ n \in 0 .. m /\ Longest \in Nat
      /\ DOMAIN rob' = 1 .. m - n /\ DOMAIN rob = 1 .. m
  BY <1>1, BehindTheHead, RobFields, Sizes, CommitMoves
<1>3. \A b \in 1 .. m - n : \A j \in Nat :
        /\ rob'[b].kind = rob[b + n].kind
        /\ [age |-> b, due |-> j] \in Range(executing')
             <=> [age |-> b + n, due |-> j + 1] \in Range(executing)
  BY CommitLater
<1>4. \A u \in Range(executing) : u.age \in n + 1 .. m
  BY BehindTheHead
<1>5. \A u \in Range(executing') : u.due \in 0 .. Longest
  <2> TAKE u \in Range(executing')
  <2>1. executing' \in Seq(Pending)
    BY CommitMoves
  <2>2. u \in Pending
    BY <2>1, RangeFacts
  <2> QED
    BY <2>2, PendingFacts
<1> HIDE DEF n, m
<1>6. ASSUME NEW c \in Class \ {"MUL"}, NEW t \in Nat \ {0}
      PROVE  Cardinality(Occupants(c, t)') <= Cardinality(Busy(c, t)')
  <2>1. Occupants(c, t)' \subseteq {a - n : a \in Occupants(c, t + 1)}
    <3> SUFFICES ASSUME NEW b \in Occupants(c, t)'
                 PROVE  \E a \in Occupants(c, t + 1) : b = a - n
      OBVIOUS
    <3>1. PICK d \in t .. Longest : [age |-> b, due |-> d] \in Range(executing')
      BY DEF Occupants
    <3>2. b \in 1 .. m - n /\ UnitOf(rob'[b].kind) = c
      BY <1>2 DEF Occupants
    <3>3. d \in Nat
      BY <1>2
    <3>4. /\ [age |-> b + n, due |-> d + 1] \in Range(executing)
          /\ UnitOf(rob[b + n].kind) = c
      BY <1>3, <3>1, <3>2, <3>3
    <3>5. d + 1 \in 0 .. Longest
      <4> DEFINE u == [age |-> b + n, due |-> d + 1]
      <4>1. u \in Range(executing) /\ u.due = d + 1
        BY <3>4
      <4> HIDE DEF u
      <4> QED
        BY <1>1, <4>1, PlaceFacts, PendingFacts
    <3>6. d + 1 \in t + 1 .. Longest
      BY <1>2, <3>3, <3>5
    <3>7. b + n \in DOMAIN rob /\ (b + n) - n = b
      BY <1>2, <3>2
    <3>8. b + n \in Occupants(c, t + 1)
      BY <3>4, <3>6, <3>7 DEF Occupants
    <3> QED
      BY <3>7, <3>8
  <2>2. {a - n : a \in Occupants(c, t + 1)} \subseteq Occupants(c, t)'
    <3> SUFFICES ASSUME NEW a \in Occupants(c, t + 1)
                 PROVE  a - n \in Occupants(c, t)'
      OBVIOUS
    <3>1. PICK d \in t + 1 .. Longest : [age |-> a, due |-> d] \in Range(executing)
      BY DEF Occupants
    <3>2. UnitOf(rob[a].kind) = c
      BY DEF Occupants
    <3>3. a \in n + 1 .. m
      <4> DEFINE u == [age |-> a, due |-> d]
      <4>1. u \in Range(executing) /\ u.age = a
        BY <3>1
      <4> HIDE DEF u
      <4> QED
        BY <1>4, <4>1
    <3>4. a - n \in 1 .. m - n /\ (a - n) + n = a
      BY <1>2, <3>3
    <3>5. d - 1 \in Nat /\ d - 1 \in t .. Longest /\ (d - 1) + 1 = d
      BY <1>2
    <3>6. [age |-> a - n, due |-> d - 1] \in Range(executing') /\ UnitOf(rob'[a - n].kind) = c
      BY <1>3, <3>1, <3>2, <3>4, <3>5
    <3>7. a - n \in DOMAIN rob'
      BY <1>2, <3>4
    <3> QED
      BY <3>5, <3>6, <3>7 DEF Occupants
  <2>3. Occupants(c, t)' = {a - n : a \in Occupants(c, t + 1)}
    BY <2>1, <2>2
  <2>4. Cardinality(Occupants(c, t)') = Cardinality(Occupants(c, t + 1))
    <3>1. Occupants(c, t + 1) \in SUBSET (1 .. m)
      BY <1>1, CountRange DEF m
    <3> QED
      BY <1>2, <2>3, <3>1, CountShifted
  <2>5. Busy(c, t)' = Busy(c, t + 1)
    BY <1>1, GoesOn, UnitTicks DEF Busy
  <2>6. t + 1 \in Nat \ {0}
    OBVIOUS
  <2> QED
    BY <1>1, <2>4, <2>5, <2>6 DEF Covered
<1> QED
  BY <1>6 DEF Covered

\* commit() and the clock keep the invariant.
LEMMA CommitKeeps ==
  ASSUME Inv, Commit
  PROVE  Inv'
<1>1. CASE Committing > 0 /\ rob[Committing].kind = "TRAP"
  BY <1>1, CommitHalts
<1>2. CASE ~(Committing > 0 /\ rob[Committing].kind = "TRAP")
  <2>1. CommitGoesOn
    BY <1>2 DEF CommitGoesOn
  <2>2. Choosing'
    BY <2>1, GoesOn DEF Inv, Choosing
  <2> QED
    BY <2>1, <2>2, CommitType, CommitPlaces, CommitWakeup, CommitOnTime, CommitBooked, CommitCovered
       DEF Inv
<1> QED
  BY <1>1, <1>2

-----------------------------------------------------------------------------
(* Writeback. *)

\* What was booked for this cycle is what stands in wb_fast_, so writeback has a
\* port for all of it.
LEMMA AllLand ==
  ASSUME Inv, stage = "writeback"
  PROVE  FastLanding = Len(wbFast) /\ SlowLanding \in 0 .. Len(wbSlow)
<1> DEFINE m == Len(wbFast)
           I == {i \in 1 .. m : rob[wbFast[i].age].writes}
           A == {wbFast[i].age : i \in I}
<1>1. TypeOK /\ Places /\ OnTime /\ Booked
  BY DEF Inv
<1>2. /\ wbFast \in Seq(Pending) /\ m \in Nat /\ DOMAIN wbFast = 1 .. m /\ Distinct(wbFast)
      /\ booked \in [0 .. Window - 1 -> 0 .. NumCdb] /\ now \in 0 .. Window - 1
  BY <1>1 DEF TypeOK, Places
<1>3. /\ \A u \in Range(executing) : u.due >= 1
      /\ \A u \in Range(wbFast) : rob[u.age].kind # "LOAD" /\ u.due = 0
  BY <1>1 DEF OnTime
<1>4. A = Landing(0)
  <2>1. ASSUME NEW a \in Landing(0) PROVE a \in A
    <3> DEFINE u == [age |-> a, due |-> 0]
    <3>1. u.age = a /\ u.due = 0 /\ u \in Range(executing) \cup Range(wbFast) /\ rob[a].writes
      BY DEF Landing
    <3> HIDE DEF u
    <3>2. u \in Range(wbFast)
      BY <1>3, <3>1
    <3>3. PICK i \in 1 .. m : u = wbFast[i]
      BY <1>2, <3>2 DEF Range
    <3> QED
      BY <3>1, <3>3
  <2>2. ASSUME NEW i \in I PROVE wbFast[i].age \in Landing(0)
    <3> DEFINE u == wbFast[i]
    <3>1. u \in Range(wbFast) /\ rob[u.age].writes
      BY <1>2 DEF Range
    <3> HIDE DEF u
    <3>2. u.age \in DOMAIN rob /\ u = [age |-> u.age, due |-> u.due]
      <4>1. u \in Pending /\ u.age \in 1 .. Len(rob)
        BY <1>1, <3>1, PlaceFacts
      <4> QED
        BY <1>1, <4>1, PendingFacts, RobFields
    <3>3. rob[u.age].kind # "LOAD" /\ u.due = 0
      BY <1>3, <3>1
    <3>4. u.age \in Landing(0)
      BY <3>1, <3>2, <3>3 DEF Landing
    <3> QED
      BY <3>4 DEF u
  <2> QED
    BY <2>1, <2>2
<1>5. Cardinality(A) = Cardinality(I)
  <2>1. I \in SUBSET (DOMAIN wbFast)
    BY <1>2
  <2> HIDE DEF I
  <2> QED
    BY <1>2, <2>1, CountByAge
<1>6. booked[now] = Cardinality(Landing(0))
  <2>1. Slot(0) = now /\ 0 \in 0 .. Window - 1
    BY <1>2, Sizes, SlotFacts
  <2> QED
    BY <1>1, <2>1 DEF Booked
<1>7. Ports(m) = Cardinality(I)
  BY DEF Ports
<1>8. Ports(m) <= NumCdb
  <2>1. booked[now] \in 0 .. NumCdb
    BY <1>2
  <2>2. Ports(m) = booked[now]
    <3> HIDE DEF A, I, m
    <3> QED
      BY <1>4, <1>5, <1>6, <1>7
  <2>3. booked[now] <= NumCdb
    BY <2>1, Sizes
  <2> QED
    BY <2>2, <2>3
<1> QED
  BY <1>1, <1>8, LandingFacts

\* What lands in a cycle, and what is left of the loads.
LEMMA WritebackFacts ==
  ASSUME Inv, Writeback
  PROVE  \E landed, left :
           /\ Ages(wbSlow') = left /\ wbSlow' \in Seq(Pending) /\ Distinct(wbSlow')
           /\ wbFast' = <<>>
           /\ landed = Ages(wbFast) \cup (Ages(wbSlow) \ left) /\ left \subseteq Ages(wbSlow)
           /\ rob' = [i \in DOMAIN rob |-> [rob[i] EXCEPT !.complete = @ \/ i \in landed]]
           /\ iq' = [i \in DOMAIN iq |-> Woken(iq[i], landed)]
           /\ booked' = [booked EXCEPT ![now] = 0]
           /\ stage = "writeback" /\ stage' = "execute"
           /\ unit' = unit /\ now' = now /\ executing' = executing
           /\ cand' = cand /\ slots' = slots /\ blocked' = blocked /\ offender' = offender
           /\ uncharged' = uncharged
<1> DEFINE m == SlowLanding
           a == SubSeq(wbSlow, 1, m)
           b == SubSeq(wbSlow, m + 1, Len(wbSlow))
           landed == Ages(wbFast) \cup Ages(a)
<1>1. FastLanding = Len(wbFast) /\ m \in 0 .. Len(wbSlow)
  BY AllLand DEF Writeback
<1>2. wbFast \in Seq(Pending) /\ wbSlow \in Seq(Pending) /\ Distinct(wbSlow) /\ Len(wbFast) \in Nat
  BY DEF Inv, TypeOK, Places
<1>3. /\ SubSeq(wbFast, 1, Len(wbFast)) = wbFast
      /\ SubSeq(wbFast, Len(wbFast) + 1, Len(wbFast)) = <<>>
  BY <1>2
<1>4. /\ wbSlow' = b /\ wbFast' = <<>>
      /\ rob' = [i \in DOMAIN rob |-> [rob[i] EXCEPT !.complete = @ \/ i \in landed]]
      /\ iq' = [i \in DOMAIN iq |-> Woken(iq[i], landed)]
      /\ booked' = [booked EXCEPT ![now] = 0]
      /\ stage = "writeback" /\ stage' = "execute"
      /\ unit' = unit /\ now' = now /\ executing' = executing
      /\ cand' = cand /\ slots' = slots /\ blocked' = blocked /\ offender' = offender
      /\ uncharged' = uncharged
  BY <1>1, <1>3 DEF Writeback, Cleared, loop
<1> HIDE DEF m
<1>5. /\ a \in Seq(Pending) /\ b \in Seq(Pending)
      /\ Range(wbSlow) = Range(a) \cup Range(b)
      /\ Distinct(b)
      /\ \A u \in Range(a), v \in Range(b) : u.age # v.age
  BY <1>1, <1>2, SplitKeeps
<1> HIDE DEF a, b
<1>6. Ages(wbSlow) = Ages(a) \cup Ages(b) /\ Ages(a) \cap Ages(b) = {}
  <2>1. /\ Ages(wbSlow) = {u.age : u \in Range(wbSlow)}
        /\ Ages(a) = {u.age : u \in Range(a)} /\ Ages(b) = {u.age : u \in Range(b)}
    BY AgesRange
  <2> QED
    BY <1>5, <2>1
<1>7. /\ landed = Ages(wbFast) \cup (Ages(wbSlow) \ Ages(b)) /\ Ages(b) \subseteq Ages(wbSlow)
  BY <1>6
<1> HIDE DEF landed
<1> QED
  BY <1>4, <1>5, <1>7

\* writeback() keeps the invariant: what lands completes and is heard by all that wait.
LEMMA WritebackKeeps ==
  ASSUME Inv, Writeback
  PROVE  Inv'
<1> DEFINE n == Len(rob)
<1>1. TypeOK /\ Places /\ NoLostWakeup /\ OnTime /\ Booked /\ Covered /\ Choosing
  BY DEF Inv
<1>2. PICK landed, left :
        /\ Ages(wbSlow') = left /\ wbSlow' \in Seq(Pending) /\ Distinct(wbSlow')
        /\ wbFast' = <<>>
        /\ landed = Ages(wbFast) \cup (Ages(wbSlow) \ left) /\ left \subseteq Ages(wbSlow)
        /\ rob' = [i \in DOMAIN rob |-> [rob[i] EXCEPT !.complete = @ \/ i \in landed]]
        /\ iq' = [i \in DOMAIN iq |-> Woken(iq[i], landed)]
        /\ booked' = [booked EXCEPT ![now] = 0]
        /\ stage = "writeback" /\ stage' = "execute"
        /\ unit' = unit /\ now' = now /\ executing' = executing
        /\ cand' = cand /\ slots' = slots /\ blocked' = blocked /\ offender' = offender
        /\ uncharged' = uncharged
  BY WritebackFacts
<1>3. /\ n \in Nat /\ n <= RobSize /\ DOMAIN rob = 1 .. n
      /\ \A i \in 1 .. n : /\ rob[i] \in InFlight /\ rob[i].complete \in BOOLEAN
                           /\ rob[i].src1 \in 0 .. i - 1 /\ rob[i].src2 \in 0 .. i - 1
  BY <1>1, RobFields
<1>4. /\ DOMAIN rob' = 1 .. n
      /\ \A i \in 1 .. n :
           /\ rob'[i].kind = rob[i].kind /\ rob'[i].writes = rob[i].writes
           /\ rob'[i].src1 = rob[i].src1 /\ rob'[i].src2 = rob[i].src2
           /\ rob'[i].complete <=> (rob[i].complete \/ i \in landed)
           /\ rob'[i] \in InFlight
  <2>1. DOMAIN rob' = 1 .. n
    BY <1>2, <1>3
  <2>2. ASSUME NEW i \in 1 .. n
        PROVE  /\ rob'[i].kind = rob[i].kind /\ rob'[i].writes = rob[i].writes
               /\ rob'[i].src1 = rob[i].src1 /\ rob'[i].src2 = rob[i].src2
               /\ rob'[i].complete <=> (rob[i].complete \/ i \in landed)
               /\ rob'[i] \in InFlight
    <3>1. rob'[i] = [rob[i] EXCEPT !.complete = @ \/ i \in landed]
      BY <1>2, <1>3
    <3>2. rob[i] \in InFlight
      BY <1>3
    <3> QED
      BY <3>1, <3>2 DEF InFlight
  <2> QED
    BY <2>1, <2>2
<1>5. rob' \in Seq(InFlight) /\ Len(rob') = n
  <2>1. rob' = [i \in 1 .. n |-> rob'[i]]
    BY <1>2, <1>3, <1>4
  <2>2. rob' \in [1 .. n -> InFlight]
    BY <1>4, <2>1
  <2> QED
    BY <1>3, <2>2
<1>6. /\ \A i \in 1 .. Len(iq) :
           /\ iq'[i] \in Waiting /\ iq'[i].age = iq[i].age
           /\ iq'[i].ready1 <=> (iq[i].ready1 \/ rob[iq[i].age].src1 \in landed)
           /\ iq'[i].ready2 <=> (iq[i].ready2 \/ rob[iq[i].age].src2 \in landed)
      /\ Len(iq) \in Nat /\ DOMAIN iq = 1 .. Len(iq) /\ DOMAIN iq' = 1 .. Len(iq)
  <2>1. iq \in Seq(Waiting) /\ Len(iq) \in Nat /\ DOMAIN iq = 1 .. Len(iq)
    BY <1>1 DEF TypeOK
  <2>2. ASSUME NEW i \in 1 .. Len(iq)
        PROVE  /\ iq'[i] \in Waiting /\ iq'[i].age = iq[i].age
               /\ iq'[i].ready1 <=> (iq[i].ready1 \/ rob[iq[i].age].src1 \in landed)
               /\ iq'[i].ready2 <=> (iq[i].ready2 \/ rob[iq[i].age].src2 \in landed)
    <3> DEFINE e == iq[i]
               s1 == rob[e.age].src1 \in landed
               s2 == rob[e.age].src2 \in landed
    <3>1. e \in Waiting
      BY <2>1
    <3>2. iq'[i] = [e EXCEPT !.ready1 = @ \/ s1, !.ready2 = @ \/ s2]
      BY <1>2, <2>1 DEF Woken
    <3> HIDE DEF e, s1, s2
    <3>3. /\ iq'[i] \in Waiting /\ iq'[i].age = e.age
          /\ iq'[i].ready1 <=> (e.ready1 \/ s1)
          /\ iq'[i].ready2 <=> (e.ready2 \/ s2)
      <4> DEFINE r1 == e.ready1 \/ s1
                 r2 == e.ready2 \/ s2
      <4>1. r1 \in BOOLEAN /\ r2 \in BOOLEAN
        OBVIOUS
      <4>2. iq'[i] = [[e EXCEPT !.ready1 = r1] EXCEPT !.ready2 = r2]
        BY <3>2
      <4>3. iq'[i] = [age |-> e.age, ready1 |-> r1, ready2 |-> r2]
        <5> HIDE DEF r1, r2
        <5> QED
          BY <3>1, <4>2 DEF Waiting
      <4>4. /\ iq'[i].age = e.age /\ iq'[i].ready1 = r1 /\ iq'[i].ready2 = r2
        <5> HIDE DEF r1, r2
        <5> QED
          BY <4>3
      <4>5. iq'[i] \in Waiting
        <5>1. e.age \in 1 .. RobSize
          BY <3>1 DEF Waiting
        <5> HIDE DEF r1, r2
        <5> QED
          BY <4>1, <4>3, <5>1 DEF Waiting
      <4> QED
        BY <4>4, <4>5
    <3> QED
      BY <3>3 DEF e, s1, s2
  <2> QED
    BY <1>2, <2>1, <2>2
<1>7. iq' \in Seq(Waiting) /\ Len(iq') = Len(iq) /\ Ages(iq') = Ages(iq)
      /\ (Distinct(iq) => Distinct(iq'))
  <2>1. iq' = [i \in 1 .. Len(iq) |-> iq'[i]]
    BY <1>2, <1>6
  <2>2. iq' \in [1 .. Len(iq) -> Waiting]
    BY <1>6, <2>1
  <2>3. iq' \in Seq(Waiting) /\ Len(iq') = Len(iq)
    BY <1>6, <2>2
  <2>4. Ages(iq') = Ages(iq)
    BY <1>6 DEF Ages
  <2>5. Distinct(iq) => Distinct(iq')
    BY <1>6 DEF Distinct
  <2> QED
    BY <2>3, <2>4, <2>5
<1>8. Window \in Nat \ {0} /\ NumCdb \in Nat /\ now \in 0 .. Window - 1
      /\ booked \in [0 .. Window - 1 -> 0 .. NumCdb]
  BY <1>1, Sizes DEF TypeOK
<1>9. TypeOK'
  <2>1. \A i \in DOMAIN rob' : rob'[i].src1 < i /\ rob'[i].src2 < i
    BY <1>3, <1>4
  <2>2. booked' \in [0 .. Window - 1 -> 0 .. NumCdb]
    BY <1>2, <1>8
  <2>3. wbFast' \in Seq(Pending)
    BY <1>2
  <2> QED
    BY <1>1, <1>2, <1>3, <1>5, <1>7, <2>1, <2>2, <2>3 DEF TypeOK
<1>10. Ages(wbFast') = {} /\ Range(wbFast') = {} /\ Distinct(wbFast')
  BY <1>2 DEF Ages, Range, Distinct
<1>11. \A a \in landed : a \in 1 .. n /\ ~rob[a].complete
  BY <1>1, <1>2, PlaceFacts
<1>12. Places'
  <2>1. /\ Distinct(iq) /\ Distinct(executing)
        /\ Ages(iq) \cap Ages(executing) = {} /\ Ages(iq) \cap Ages(wbFast) = {}
        /\ Ages(iq) \cap Ages(wbSlow) = {} /\ Ages(executing) \cap Ages(wbFast) = {}
        /\ Ages(executing) \cap Ages(wbSlow) = {} /\ Ages(wbFast) \cap Ages(wbSlow) = {}
        /\ Ages(iq) \cup Ages(executing) \cup Ages(wbFast) \cup Ages(wbSlow)
             = {a \in 1 .. n : ~rob[a].complete}
    BY <1>1, <1>3 DEF Places
  <2>2. {a \in DOMAIN rob' : ~rob'[a].complete} = {a \in 1 .. n : ~rob[a].complete} \ landed
    BY <1>4
  <2>3. Ages(iq') \cup Ages(executing') \cup Ages(wbFast') \cup Ages(wbSlow')
          = {a \in DOMAIN rob' : ~rob'[a].complete}
    <3> DEFINE X == {a \in DOMAIN rob' : ~rob'[a].complete}
               Y == {a \in 1 .. n : ~rob[a].complete}
    <3>1. X = Y \ landed
      BY <2>2
    <3>2. Y = Ages(iq) \cup Ages(executing) \cup Ages(wbFast) \cup Ages(wbSlow)
      BY <2>1
    <3> HIDE DEF X, Y
    <3>3. Ages(iq) \cup Ages(executing) \cup {} \cup left = X
      BY <1>2, <2>1, <3>1, <3>2
    <3> QED
      BY <1>2, <1>7, <1>10, <3>3 DEF X
  <2>4. Ages(executing') = Ages(executing) /\ Distinct(executing')
    BY <1>2, <2>1
  <2> QED
    BY <1>2, <1>7, <1>10, <2>1, <2>3, <2>4 DEF Places
<1>13. NoLostWakeup'
  <2> SUFFICES ASSUME NEW i \in 1 .. Len(iq)
               PROVE  LET u == rob'[iq'[i].age]
                          done(src) == src = 0 \/ rob'[src].complete
                      IN iq'[i].ready1 = done(u.src1) /\ iq'[i].ready2 = done(u.src2)
    BY <1>6 DEF NoLostWakeup
  <2> DEFINE a == iq[i].age
             s1 == rob[a].src1
             s2 == rob[a].src2
  <2>1. a \in 1 .. n
    <3>1. a \in Ages(iq)
      BY <1>6 DEF Ages
    <3> QED
      BY <1>1, <3>1, PlaceFacts
  <2>2. /\ rob'[a].src1 = s1 /\ rob'[a].src2 = s2
        /\ s1 \in 0 .. a - 1 /\ s2 \in 0 .. a - 1
    BY <1>3, <1>4, <2>1
  <2>3. iq[i].ready1 = (s1 = 0 \/ rob[s1].complete) /\ iq[i].ready2 = (s2 = 0 \/ rob[s2].complete)
    BY <1>1, <1>6 DEF NoLostWakeup
  <2>4. ASSUME NEW s \in 0 .. a - 1
        PROVE  (s = 0 \/ rob'[s].complete) <=> ((s = 0 \/ rob[s].complete) \/ s \in landed)
    <3> HIDE DEF a
    <3>1. s = 0 \/ s \in 1 .. n
      BY <1>3, <2>1
    <3> QED
      BY <1>4, <3>1
  <2>5. /\ iq'[i].age = a
        /\ iq'[i].ready1 <=> (iq[i].ready1 \/ s1 \in landed)
        /\ iq'[i].ready2 <=> (iq[i].ready2 \/ s2 \in landed)
        /\ iq'[i].ready1 \in BOOLEAN /\ iq'[i].ready2 \in BOOLEAN
    BY <1>6 DEF Waiting
  <2> HIDE DEF a, s1, s2
  <2>6. /\ (s1 = 0 \/ rob'[s1].complete) <=> ((s1 = 0 \/ rob[s1].complete) \/ s1 \in landed)
        /\ (s2 = 0 \/ rob'[s2].complete) <=> ((s2 = 0 \/ rob[s2].complete) \/ s2 \in landed)
    BY <2>2, <2>4
  <2>7. /\ iq'[i].ready1 = (s1 = 0 \/ rob'[s1].complete)
        /\ iq'[i].ready2 = (s2 = 0 \/ rob'[s2].complete)
    BY <2>3, <2>5, <2>6
  <2> QED
    BY <2>2, <2>5, <2>7
<1>14. OnTime'
  <2>1. \A u \in Range(executing) : u.due >= 1
    BY <1>1, <1>2 DEF OnTime
  <2> QED
    BY <1>2, <1>10, <2>1 DEF OnTime
<1>15. /\ \A u \in Range(executing) : u.due >= 1
       /\ \A u \in Range(wbFast) : u.due = 0
  BY <1>1, <1>2 DEF OnTime
<1>16. Booked'
  <2> SUFFICES ASSUME NEW j \in 0 .. Window - 1
               PROVE  booked'[Slot(j)] = Cardinality(Landing(j)')
    BY <1>2 DEF Booked, Slot
  <2>1. Landing(j)' =
          {a \in 1 .. n : /\ rob[a].writes /\ rob[a].kind # "LOAD"
                          /\ [age |-> a, due |-> j] \in Range(executing)}
    BY <1>2, <1>4, <1>10 DEF Landing
  <2>2. Slot(j) \in 0 .. Window - 1 /\ Slot(0) = now /\ 0 \in 0 .. Window - 1
    <3>1. 0 \in 0 .. Window - 1
      BY <1>8
    <3> QED
      BY <1>8, <3>1, SlotFacts
  <2>3. CASE j = 0
    <3>1. Landing(j)' = {}
      <4> SUFFICES ASSUME NEW a \in 1 .. n, [age |-> a, due |-> j] \in Range(executing)
                   PROVE  FALSE
        BY <2>1
      <4> DEFINE u == [age |-> a, due |-> j]
      <4>1. u \in Range(executing) /\ u.due = 0
        BY <2>3
      <4> HIDE DEF u
      <4> QED
        BY <1>15, <4>1
    <3>2. booked'[now] = 0
      BY <1>2, <1>8
    <3> QED
      BY <2>2, <2>3, <3>1, <3>2, FS_EmptySet
  <2>4. CASE j # 0
    <3>1. Landing(j)' = Landing(j)
      <4>1. ASSUME NEW a PROVE [age |-> a, due |-> j] \notin Range(wbFast)
        <5> DEFINE u == [age |-> a, due |-> j]
        <5>1. u.due = j
          OBVIOUS
        <5> HIDE DEF u
        <5>2. u \notin Range(wbFast)
          BY <1>15, <2>4, <5>1
        <5> QED
          BY <5>2 DEF u
      <4> QED
        BY <1>3, <2>1, <4>1 DEF Landing
    <3>2. Slot(j) # now
      BY <1>8, <2>2, <2>4, SlotFacts
    <3>3. booked'[Slot(j)] = booked[Slot(j)]
      BY <1>2, <1>8, <2>2, <3>2
    <3> QED
      BY <1>1, <3>1, <3>3 DEF Booked
  <2> QED
    BY <2>3, <2>4
<1>17. Covered'
  <2> SUFFICES ASSUME NEW c \in Class \ {"MUL"}, NEW t \in Nat \ {0}
               PROVE  Cardinality(Occupants(c, t)') <= Cardinality(Busy(c, t)')
    BY DEF Covered
  <2>1. Occupants(c, t)' = Occupants(c, t)
    BY <1>2, <1>3, <1>4 DEF Occupants
  <2>2. Busy(c, t)' = Busy(c, t)
    BY <1>2 DEF Busy
  <2> QED
    BY <1>1, <2>1, <2>2 DEF Covered
<1>18. Choosing'
  BY <1>1, <1>2 DEF Choosing
<1> QED
  BY <1>9, <1>12, <1>13, <1>14, <1>16, <1>17, <1>18 DEF Inv

-----------------------------------------------------------------------------
(* Execute. *)

\* Sets of elements with different ages, as sets of ages.
LEMMA AgesApart ==
  ASSUME NEW s, Distinct(s), NEW A \in SUBSET Range(s), NEW B \in SUBSET Range(s), A \cap B = {}
  PROVE  {u.age : u \in A} \cap {u.age : u \in B} = {}
<1> SUFFICES ASSUME NEW u \in A, NEW v \in B, u.age = v.age PROVE FALSE
  OBVIOUS
<1>1. u \in Range(s) /\ v \in Range(s)
  OBVIOUS
<1>2. u = v
  BY <1>1, DistinctRange
<1> QED
  BY <1>2

\* Where execute() takes the results that are due to.
LEMMA ExecuteFacts ==
  ASSUME Inv, Execute
  PROVE  \E loads, fast :
           /\ loads \in SUBSET Range(executing) /\ fast \in SUBSET Range(executing)
           /\ loads \cap fast = {}
           /\ \A u \in Range(executing) \ (loads \cup fast) : u.due >= 2
           /\ \A u \in fast : u.due = 1 /\ rob[u.age].kind # "LOAD"
           /\ \A u \in loads : u.due = 1 /\ rob[u.age].kind = "LOAD"
           /\ executing' \in Seq(Pending) /\ Distinct(executing')
           /\ Range(executing') = Range(executing) \ (loads \cup fast)
           /\ wbFast' \in Seq(Pending) /\ Distinct(wbFast') /\ Range(wbFast') = fast
           /\ wbSlow' \in Seq(Pending) /\ Distinct(wbSlow')
           /\ Range(wbSlow') = Range(wbSlow) \cup loads
<1> DEFINE R == Range(executing)
           done == {u \in R : Finishing(u)}
           loads == {u \in done : rob[u.age].kind = "LOAD"}
           x == Those(executing, R \ done)
           f == Those(executing, done \ loads)
           l == Those(executing, loads)
<1>1. TypeOK /\ Places /\ OnTime /\ stage = "execute"
  BY DEF Inv, Execute
<1>2. executing' = x /\ wbFast' = wbFast \o f /\ wbSlow' = wbSlow \o l
  BY DEF Execute
<1>3. executing \in Seq(Pending) /\ wbFast = <<>> /\ wbSlow \in Seq(Pending)
  BY <1>1 DEF TypeOK, OnTime
<1>4. Distinct(executing) /\ Distinct(wbSlow) /\ Ages(executing) \cap Ages(wbSlow) = {}
  BY <1>1 DEF Places
<1>5. \A u \in R : u.due \in Nat /\ u.due >= 1
  <2> TAKE u \in R
  <2>1. u.due \in 0 .. Longest /\ u.due >= 1
    BY <1>1, PlaceFacts, PendingFacts DEF OnTime
  <2> QED
    BY <2>1
<1>6. /\ \A u \in R \ done : u.due >= 2
      /\ \A u \in done : u.due = 1
  BY <1>5 DEF Finishing
<1>7. done \in SUBSET R /\ loads \in SUBSET R
  OBVIOUS
<1>8. /\ \A u \in done \ loads : rob[u.age].kind # "LOAD"
      /\ \A u \in loads : rob[u.age].kind = "LOAD"
      /\ loads \in SUBSET done
  OBVIOUS
<1> HIDE DEF R, done, loads
<1>9. x \in Seq(Pending) /\ Range(x) = R \cap (R \ done) /\ Distinct(x)
  BY <1>3, <1>4, ThoseFacts DEF R
<1>10. f \in Seq(Pending) /\ Range(f) = R \cap (done \ loads) /\ Distinct(f)
  BY <1>3, <1>4, ThoseFacts DEF R
<1>11. l \in Seq(Pending) /\ Range(l) = R \cap loads /\ Distinct(l)
  BY <1>3, <1>4, ThoseFacts DEF R
<1> HIDE DEF x, f, l
<1>12. wbFast \o f = f
  BY <1>3, <1>10
<1>13. \A u \in Range(wbSlow), v \in Range(l) : u.age # v.age
  <2>1. \A v \in Range(l) : v.age \in Ages(executing)
    BY <1>1, <1>11, PlaceFacts DEF R
  <2>2. \A u \in Range(wbSlow) : u.age \in Ages(wbSlow)
    BY <1>1, PlaceFacts
  <2> QED
    BY <1>4, <2>1, <2>2
<1>14. /\ wbSlow \o l \in Seq(Pending) /\ Range(wbSlow \o l) = Range(wbSlow) \cup Range(l)
       /\ Distinct(wbSlow \o l)
  BY <1>3, <1>4, <1>11, <1>13, ConcatKeeps
<1> DEFINE fast == done \ loads
<1>15. /\ loads \in SUBSET R /\ fast \in SUBSET R /\ loads \cap fast = {}
       /\ loads \cup fast = done
  BY <1>7, <1>8
<1>16. R \cap (R \ done) = R \ done /\ R \cap (done \ loads) = fast /\ R \cap loads = loads
  BY <1>15
<1>17. /\ \A u \in fast : u.due = 1 /\ rob[u.age].kind # "LOAD"
       /\ \A u \in loads : u.due = 1 /\ rob[u.age].kind = "LOAD"
  BY <1>6, <1>8
<1> HIDE DEF fast
<1> QED
  BY <1>2, <1>6, <1>9, <1>10, <1>11, <1>12, <1>14, <1>15, <1>16, <1>17 DEF R

\* The candidates of issue() are the ready entries, oldest first.
LEMMA CandFacts ==
  ASSUME Inv, Execute
  PROVE  /\ cand' \in Seq(1 .. RobSize) /\ Len(cand') <= Len(iq)
         /\ \A i, j \in DOMAIN cand' : cand'[i] = cand'[j] => i = j
         /\ \A i \in DOMAIN cand' : cand'[i] \in Ages(iq)
<1> DEFINE ready == Those(iq, {e \in Range(iq) : e.ready1 /\ e.ready2})
           n == Len(ready)
<1>1. TypeOK /\ Places
  BY DEF Inv
<1>2. iq \in Seq(Waiting) /\ Distinct(iq)
  BY <1>1 DEF TypeOK, Places
<1>3. cand' = [i \in DOMAIN ready |-> ready[i].age]
  BY DEF Execute
<1>4. /\ ready \in Seq(Waiting) /\ n <= Len(iq)
      /\ Range(ready) \subseteq Range(iq) /\ Distinct(ready)
  <2> DEFINE K == {e \in Range(iq) : e.ready1 /\ e.ready2}
  <2> HIDE DEF K
  <2>1. /\ Those(iq, K) \in Seq(Waiting) /\ Len(Those(iq, K)) <= Len(iq)
        /\ Range(Those(iq, K)) = Range(iq) \cap K /\ Distinct(Those(iq, K))
    BY <1>2, ThoseFacts
  <2> QED
    BY <2>1 DEF K
<1> HIDE DEF ready
<1>5. n \in Nat /\ DOMAIN ready = 1 .. n /\ \A i \in 1 .. n : ready[i] \in Range(ready)
  BY <1>4, RangeFacts
<1>6. \A i \in 1 .. n : ready[i].age \in Ages(iq) /\ ready[i].age \in 1 .. RobSize
  <2> TAKE i \in 1 .. n
  <2>1. ready[i] \in Range(iq)
    BY <1>4, <1>5
  <2>2. ready[i] \in Waiting /\ ready[i].age \in Ages(iq)
    BY <1>1, <2>1, PlaceFacts
  <2> QED
    BY <2>2 DEF Waiting
<1>7. cand' = [i \in 1 .. n |-> ready[i].age]
  BY <1>3, <1>5
<1>8. cand' \in Seq(1 .. RobSize) /\ Len(cand') = n
  <2> DEFINE S == 1 .. RobSize
  <2>1. cand' \in [1 .. n -> S]
    BY <1>6, <1>7
  <2> HIDE DEF n, S
  <2>2. cand' \in Seq(S) /\ Len(cand') = n
    BY <1>5, <2>1
  <2> QED
    BY <2>2 DEF S
<1>9. DOMAIN cand' = 1 .. n /\ \A i \in 1 .. n : cand'[i] = ready[i].age
  BY <1>7
<1>10. \A i, j \in DOMAIN cand' : cand'[i] = cand'[j] => i = j
  BY <1>4, <1>5, <1>9 DEF Distinct
<1> QED
  BY <1>4, <1>6, <1>8, <1>9, <1>10

\* execute() keeps the invariant.
LEMMA ExecuteKeeps ==
  ASSUME Inv, Execute
  PROVE  Inv'
<1>1. /\ TypeOK /\ Places /\ NoLostWakeup /\ OnTime /\ Booked /\ Covered /\ Choosing
      /\ stage = "execute" /\ stage' = "issue" /\ slots' = Width /\ blocked' = 0 /\ offender' = 0
      /\ rob' = rob /\ iq' = iq /\ unit' = unit /\ booked' = booked /\ now' = now
      /\ uncharged' = uncharged
  BY DEF Inv, Execute
<1> DEFINE R == Range(executing)
<1>2. PICK loads, fast :
        /\ loads \in SUBSET R /\ fast \in SUBSET R
        /\ loads \cap fast = {}
        /\ \A u \in R \ (loads \cup fast) : u.due >= 2
        /\ \A u \in fast : u.due = 1 /\ rob[u.age].kind # "LOAD"
        /\ \A u \in loads : u.due = 1 /\ rob[u.age].kind = "LOAD"
        /\ executing' \in Seq(Pending) /\ Distinct(executing')
        /\ Range(executing') = R \ (loads \cup fast)
        /\ wbFast' \in Seq(Pending) /\ Distinct(wbFast') /\ Range(wbFast') = fast
        /\ wbSlow' \in Seq(Pending) /\ Distinct(wbSlow')
        /\ Range(wbSlow') = Range(wbSlow) \cup loads
  BY ExecuteFacts
<1>3. wbFast = <<>> /\ Ages(wbFast) = {} /\ Range(wbFast) = {}
  BY <1>1 DEF OnTime, Ages, Range
<1>4. /\ cand' \in Seq(1 .. RobSize) /\ Len(cand') <= Len(iq)
      /\ \A i, j \in DOMAIN cand' : cand'[i] = cand'[j] => i = j
      /\ \A i \in DOMAIN cand' : cand'[i] \in Ages(iq)
  BY CandFacts
<1>5. TypeOK'
  <2>1. Width \in Nat /\ IqSize \in Nat /\ Len(rob) \in Nat
    BY <1>1, Sizes, RobFields
  <2>2. slots' \in 0 .. Width /\ blocked' \in 0 .. IqSize /\ offender' \in 0 .. Len(rob')
    BY <1>1, <2>1
  <2> QED
    BY <1>1, <1>2, <1>4, <2>2 DEF TypeOK
<1>6. NoLostWakeup'
  BY <1>1 DEF NoLostWakeup
<1>7. OnTime'
  <2>1. \A u \in Range(executing') : u.due >= 2
    BY <1>2
  <2>2. \A u \in Range(wbFast') : rob[u.age].kind # "LOAD" /\ u.due = 1
    BY <1>2
  <2> QED
    BY <1>1, <2>1, <2>2 DEF OnTime
<1>8. Choosing'
  <2>1. blocked' + Len(cand') <= IqSize
    <3>1. Len(cand') \in Nat /\ Len(iq) <= IqSize /\ Len(iq) \in Nat /\ IqSize \in Nat
      BY <1>1, <1>4, Sizes DEF TypeOK
    <3> QED
      BY <1>1, <1>4, <3>1
  <2> QED
    BY <1>1, <1>4, <2>1 DEF Choosing
<1>9. Places'
  <2> DEFINE X == {u.age : u \in R \ (loads \cup fast)}
             F == {u.age : u \in fast}
             L == {u.age : u \in loads}
  <2>1. /\ Ages(executing') = X /\ Ages(wbFast') = F /\ Ages(wbSlow') = Ages(wbSlow) \cup L
        /\ Ages(executing) = X \cup F \cup L
    <3>1. Ages(executing') = {u.age : u \in Range(executing')} /\ Ages(wbFast') = {u.age : u \in Range(wbFast')}
      BY AgesRange
    <3>2. /\ Ages(wbSlow') = {u.age : u \in Range(wbSlow')}
          /\ Ages(wbSlow) = {u.age : u \in Range(wbSlow)}
      BY AgesRange
    <3>3. Ages(executing) = {u.age : u \in R}
      BY AgesRange
    <3>4. Ages(executing') = X /\ Ages(wbFast') = F
      BY <1>2, <3>1
    <3>5. Ages(wbSlow') = Ages(wbSlow) \cup L
      BY <1>2, <3>2
    <3>6. Ages(executing) = X \cup F \cup L
      BY <1>2, <3>3
    <3> QED
      BY <3>4, <3>5, <3>6
  <2>2. X \cap F = {} /\ X \cap L = {} /\ F \cap L = {}
    <3>1. Distinct(executing)
      BY <1>1 DEF Places
    <3>2. /\ R \ (loads \cup fast) \in SUBSET R
          /\ (R \ (loads \cup fast)) \cap fast = {} /\ (R \ (loads \cup fast)) \cap loads = {}
      OBVIOUS
    <3>3. X \cap F = {}
      BY <1>2, <3>1, <3>2, AgesApart
    <3>4. X \cap L = {}
      BY <1>2, <3>1, <3>2, AgesApart
    <3>5. F \cap L = {}
      BY <1>2, <3>1, AgesApart
    <3> QED
      BY <3>3, <3>4, <3>5
  <2> HIDE DEF X, F, L
  <2>3. /\ Distinct(iq) /\ Ages(iq) \cap Ages(executing) = {} /\ Ages(iq) \cap Ages(wbSlow) = {}
        /\ Ages(executing) \cap Ages(wbSlow) = {}
        /\ Ages(iq) \cup Ages(executing) \cup Ages(wbSlow) = {a \in DOMAIN rob : ~rob[a].complete}
    BY <1>1, <1>3 DEF Places
  <2>4. Ages(iq') \cup Ages(executing') \cup Ages(wbFast') \cup Ages(wbSlow')
          = {a \in DOMAIN rob' : ~rob'[a].complete}
    <3> DEFINE Y == {a \in DOMAIN rob : ~rob[a].complete}
    <3>1. Ages(iq) \cup Ages(executing) \cup Ages(wbSlow) = Y
      BY <2>3
    <3> HIDE DEF Y
    <3>2. Ages(iq) \cup X \cup F \cup (Ages(wbSlow) \cup L) = Y
      BY <2>1, <3>1
    <3> QED
      BY <1>1, <2>1, <3>2 DEF Y
  <2>5. Ages(iq') = Ages(iq) /\ Distinct(iq')
    BY <1>1, <2>3
  <2>6. /\ Ages(iq) \cap X = {} /\ Ages(iq) \cap F = {} /\ Ages(iq) \cap (Ages(wbSlow) \cup L) = {}
        /\ X \cap (Ages(wbSlow) \cup L) = {} /\ F \cap (Ages(wbSlow) \cup L) = {}
    BY <2>1, <2>2, <2>3
  <2> QED
    BY <1>2, <2>1, <2>2, <2>4, <2>5, <2>6 DEF Places
<1>10. Booked'
  <2>1. \A n : Landing(n)' = Landing(n)
    <3> TAKE n
    <3>1. \A a : rob[a].kind # "LOAD" =>
                   ([age |-> a, due |-> n] \in Range(executing') \cup Range(wbFast')
                      <=> [age |-> a, due |-> n] \in R)
      <4> SUFFICES ASSUME NEW u, u \in R => rob[u.age].kind # "LOAD"
                   PROVE  u \in Range(executing') \cup Range(wbFast') <=> u \in R
        OBVIOUS
      <4> QED
        BY <1>2
    <3> QED
      BY <1>1, <1>3, <3>1 DEF Landing
  <2> QED
    BY <1>1, <2>1 DEF Booked, Slot
<1>11. Covered'
  <2> SUFFICES ASSUME NEW c \in Class \ {"MUL"}, NEW t \in Nat \ {0}
               PROVE  Cardinality(Occupants(c, t)') <= Cardinality(Busy(c, t)')
    BY DEF Covered
  <2>1. Range(executing') \subseteq R
    BY <1>2
  <2>2. Occupants(c, t)' \subseteq Occupants(c, t)
    <3> HIDE DEF R
    <3> QED
      BY <1>1, <2>1 DEF Occupants, R
  <2>3. /\ IsFiniteSet(Occupants(c, t)) /\ Cardinality(Occupants(c, t)) \in Nat
        /\ Cardinality(Busy(c, t)) \in Nat
    BY <1>1, CountRange
  <2>4. Cardinality(Occupants(c, t)') \in Nat /\ Cardinality(Occupants(c, t)') <= Cardinality(Occupants(c, t))
    BY <2>2, <2>3, FS_Subset, FS_CardinalityType
  <2>5. Busy(c, t)' = Busy(c, t)
    BY <1>1 DEF Busy
  <2>6. Cardinality(Occupants(c, t)) <= Cardinality(Busy(c, t))
    BY <1>1 DEF Covered
  <2> QED
    BY <2>3, <2>4, <2>5, <2>6
<1> QED
  BY <1>5, <1>6, <1>7, <1>8, <1>9, <1>10, <1>11 DEF Inv

-----------------------------------------------------------------------------
(* Issue. *)

\* Every entry of the queue has heard of its producers.
Heard(e) ==
  /\ e.ready1 = (rob[e.age].src1 = 0 \/ rob[rob[e.age].src1].complete)
  /\ e.ready2 = (rob[e.age].src2 = 0 \/ rob[rob[e.age].src2].complete)

AllHeard == \A e \in Range(iq) : Heard(e)

\* NoLostWakeup, by entry.
LEMMA WakeupByEntry == NoLostWakeup <=> AllHeard
<1>1. \A i \in DOMAIN iq : iq[i] \in Range(iq)
  BY DEF Range
<1>2. \A e \in Range(iq) : \E i \in DOMAIN iq : e = iq[i]
  BY DEF Range
<1>3. NoLostWakeup <=> \A i \in DOMAIN iq : Heard(iq[i])
  BY DEF NoLostWakeup, Heard
<1> HIDE DEF Heard
<1> QED
  BY <1>1, <1>2, <1>3 DEF AllHeard

\* What a turn of issue() does: the candidate is turned away, and at most spends a
\* unit for a cycle, or it starts, with a unit for as long as its class holds one
\* and with a port if its result needs one.
LEMMA IssueTurns ==
  ASSUME Inv, IssueNext
  PROVE  LET a == Head(cand)
             k == rob[a].kind
         IN \/ /\ TurnedAway
               /\ unit' = unit \/ (k \notin Unitless /\ FreeUnits(k) # {} /\ unit' = Taken(k, 1))
            \/ \E lat \in 1 .. Longest, held \in 1 .. Longest, wrong \in BOOLEAN :
                 /\ Started(a, lat, wrong)
                 /\ k \in Unitless \/ FreeUnits(k) # {}
                 /\ unit' = Taken(k, held)
                 /\ k # "MUL" => held = lat
                 /\ IF rob[a].writes /\ k # "LOAD"
                      THEN booked[Slot(lat)] < NumCdb /\ booked' = [booked EXCEPT ![Slot(lat)] = @ + 1]
                      ELSE booked' = booked
<1> DEFINE a == Head(cand)
           k == rob[a].kind
<1>1. /\ TypeOK /\ Places /\ Choosing /\ stage = "issue" /\ cand # <<>>
  BY DEF Inv, IssueNext
<1>2. a \in 1 .. Len(rob)
  <2>1. cand \in Seq(1 .. RobSize)
    BY <1>1 DEF TypeOK
  <2>2. 1 \in DOMAIN cand /\ a = cand[1]
    BY <1>1, <2>1
  <2>3. a \in Ages(iq)
    BY <1>1, <2>2 DEF Choosing
  <2> QED
    BY <1>1, <2>3, PlaceFacts
<1>3. k \in Kind
  BY <1>1, <1>2, RobFields
<1>4. /\ Longest \in Nat \ {0} /\ \A x \in Kind : Latency[x] \in 1 .. Longest
      /\ "LOAD" \in Kind /\ "LOAD" \notin Unitless
  BY Sizes DEF Kind, Unitless
<1>5. IF k \notin Unitless /\ FreeUnits(k) = {}
        THEN TurnedAway /\ unit' = unit
        ELSE IF k = "LOAD" THEN IssueLoad(a) ELSE IssueOther(a)
  BY DEF IssueNext
<1>6. CASE k \notin Unitless /\ FreeUnits(k) = {}
  BY <1>5, <1>6
<1>7. CASE ~(k \notin Unitless /\ FreeUnits(k) = {}) /\ k = "LOAD"
  <2>1. IssueLoad(a) /\ FreeUnits(k) # {} /\ k \notin Unitless
    BY <1>4, <1>5, <1>7
  <2>2. PICK answer \in Answers(a) :
          LET lat == IF answer = "FORWARD" THEN 1 ELSE Latency["LOAD"]
          IN IF answer = "REPLAY"
               THEN unit' = Taken("LOAD", 1) /\ TurnedAway
               ELSE /\ unit' = Taken("LOAD", lat)
                    /\ Started(a, lat, FALSE)
                    /\ booked' = booked
    BY <2>1 DEF IssueLoad
  <2> DEFINE lat == IF answer = "FORWARD" THEN 1 ELSE Latency["LOAD"]
  <2>3. lat \in 1 .. Longest
    BY <1>4
  <2>4. CASE answer = "REPLAY"
    BY <1>7, <2>1, <2>2, <2>4
  <2>5. CASE answer # "REPLAY"
    <3>1. unit' = Taken("LOAD", lat) /\ Started(a, lat, FALSE) /\ booked' = booked
      BY <2>2, <2>5
    <3> HIDE DEF lat
    <3> QED
      BY <1>7, <2>1, <2>3, <3>1
  <2> QED
    BY <2>4, <2>5
<1>8. CASE ~(k \notin Unitless /\ FreeUnits(k) = {}) /\ k # "LOAD"
  <2> DEFINE lat == Latency[k]
             held == Held(k, lat)
  <2>1. IssueOther(a) /\ (k \in Unitless \/ FreeUnits(k) # {})
    BY <1>5, <1>8
  <2>2. IF rob[a].writes /\ ~PortFree(lat)
          THEN TurnedAway /\ unit' = unit
          ELSE \E wrong \in IF k = "BRANCH" THEN BOOLEAN ELSE {FALSE} :
                 /\ booked' = IF rob[a].writes THEN [booked EXCEPT ![Slot(lat)] = @ + 1] ELSE booked
                 /\ unit' = Taken(k, held)
                 /\ Started(a, lat, wrong)
    BY <2>1 DEF IssueOther
  <2>3. lat \in 1 .. Longest /\ held \in 1 .. Longest /\ (k # "MUL" => held = lat)
    BY <1>3, <1>4 DEF Held
  <2>4. CASE rob[a].writes /\ ~PortFree(lat)
    BY <2>2, <2>4
  <2>5. CASE ~(rob[a].writes /\ ~PortFree(lat))
    <3>1. PICK wrong \in BOOLEAN :
            /\ booked' = IF rob[a].writes THEN [booked EXCEPT ![Slot(lat)] = @ + 1] ELSE booked
            /\ unit' = Taken(k, held)
            /\ Started(a, lat, wrong)
      BY <2>2, <2>5
    <3>2. rob[a].writes => booked[Slot(lat)] < NumCdb
      BY <2>5 DEF PortFree
    <3> HIDE DEF lat, held
    <3> QED
      BY <1>8, <2>1, <2>3, <3>1, <3>2
  <2> QED
    BY <2>4, <2>5
<1> QED
  BY <1>6, <1>7, <1>8

\* The candidates but the first.
LEMMA TailFacts ==
  ASSUME Inv, stage = "issue", cand # <<>>
  PROVE  LET a == Head(cand)
         IN /\ a \in Ages(iq) /\ a \in 1 .. Len(rob) /\ ~rob[a].complete
            /\ Tail(cand) \in Seq(1 .. RobSize) /\ Len(Tail(cand)) = Len(cand) - 1
            /\ \A i, j \in DOMAIN Tail(cand) : Tail(cand)[i] = Tail(cand)[j] => i = j
            /\ \A i \in DOMAIN Tail(cand) : Tail(cand)[i] \in Ages(iq) \ {a}
            /\ blocked + 1 + Len(Tail(cand)) <= IqSize /\ Len(Tail(cand)) \in Nat
<1> DEFINE t == Tail(cand)
           n == Len(cand)
<1>1. TypeOK /\ Places /\ Choosing
  BY DEF Inv
<1>2. cand \in Seq(1 .. RobSize) /\ blocked \in Nat
  BY <1>1, Sizes DEF TypeOK
<1>3. /\ n \in Nat \ {0} /\ DOMAIN cand = 1 .. n /\ Head(cand) = cand[1]
      /\ t \in Seq(1 .. RobSize) /\ Len(t) = n - 1 /\ DOMAIN t = 1 .. n - 1
      /\ \A i \in 1 .. n - 1 : t[i] = cand[i + 1]
  <2> DEFINE S == 1 .. RobSize
  <2> HIDE DEF S
  <2>1. cand \in Seq(S)
    BY <1>2 DEF S
  <2>2. /\ n \in Nat \ {0} /\ DOMAIN cand = 1 .. n /\ Head(cand) = cand[1]
        /\ t \in Seq(S) /\ Len(t) = n - 1 /\ DOMAIN t = 1 .. n - 1
        /\ \A i \in 1 .. n - 1 : t[i] = cand[i + 1]
    BY <2>1
  <2> QED
    BY <2>2 DEF S
<1>4. /\ \A i, j \in 1 .. n : cand[i] = cand[j] => i = j
      /\ \A i \in 1 .. n : cand[i] \in Ages(iq)
      /\ blocked + n <= IqSize
  BY <1>1, <1>3 DEF Choosing
<1> HIDE DEF t, n
<1>5. 1 \in 1 .. n /\ \A i \in 1 .. n - 1 : i + 1 \in 1 .. n /\ i + 1 # 1
  BY <1>3
<1>6. \A i, j \in 1 .. n - 1 : t[i] = t[j] => i = j
  <2> SUFFICES ASSUME NEW i \in 1 .. n - 1, NEW j \in 1 .. n - 1, t[i] = t[j] PROVE i = j
    OBVIOUS
  <2>1. i + 1 = j + 1
    BY <1>3, <1>4, <1>5
  <2> QED
    BY <2>1
<1>7. \A i \in 1 .. n - 1 : t[i] \in Ages(iq) \ {Head(cand)}
  <2> TAKE i \in 1 .. n - 1
  <2>1. t[i] = cand[i + 1] /\ i + 1 \in 1 .. n /\ i + 1 # 1 /\ 1 \in 1 .. n
    BY <1>3, <1>5
  <2>2. cand[i + 1] # cand[1]
    BY <1>4, <2>1
  <2> QED
    BY <1>3, <1>4, <2>1, <2>2
<1>8. Head(cand) \in Ages(iq)
  BY <1>3, <1>4, <1>5
<1>9. Head(cand) \in 1 .. Len(rob) /\ ~rob[Head(cand)].complete
  BY <1>1, <1>8, PlaceFacts
<1>10. blocked + 1 + (n - 1) <= IqSize /\ n - 1 \in Nat
  BY <1>2, <1>3, <1>4
<1> QED
  BY <1>3, <1>6, <1>7, <1>8, <1>9, <1>10 DEF t, n

\* A unit taken: of its class one more is busy for as long, of the others none.
LEMMA TakenCovers ==
  ASSUME TypeOK, NEW k \in Kind, k \notin Unitless, FreeUnits(k) # {}, NEW h \in 1 .. Longest,
         unit' = Taken(k, h)
  PROVE  /\ DOMAIN unit' = Class
         /\ \A c \in Class : unit'[c] \in [1 .. Units[c] -> 0 .. Longest]
         /\ \A c \in Class : \A t \in Nat \ {0} :
              LET now1 == Cardinality({u \in 1 .. Units[c] : unit'[c][u] >= t})
              IN now1 = IF c = UnitOf(k) /\ t <= h THEN Cardinality(Busy(c, t)) + 1
                                                   ELSE Cardinality(Busy(c, t))
<1> DEFINE d == UnitOf(k)
<1>1. Longest \in Nat \ {0} /\ h \in 0 .. Longest /\ h \in Nat
  BY Sizes
<1>2. PICK w \in 1 .. Units[d] :
        /\ unit[d][w] = 0
        /\ DOMAIN unit' = Class
        /\ \A c \in Class \ {d} : unit'[c] = unit[c]
        /\ unit'[d] = [unit[d] EXCEPT ![w] = h]
  BY <1>1, TakenFacts
<1>3. d \in Class
  BY UnitClass
<1> HIDE DEF d
<1>4. \A c \in Class : unit[c] \in [1 .. Units[c] -> 0 .. Longest]
  BY DEF TypeOK
<1>5. unit'[d] \in [1 .. Units[d] -> 0 .. Longest]
  BY <1>1, <1>2, <1>3, <1>4
<1>6. \A c \in Class : unit'[c] \in [1 .. Units[c] -> 0 .. Longest]
  BY <1>2, <1>4, <1>5
<1>7. ASSUME NEW c \in Class, NEW t \in Nat \ {0}
      PROVE  Cardinality({u \in 1 .. Units[c] : unit'[c][u] >= t})
               = IF c = d /\ t <= h THEN Cardinality(Busy(c, t)) + 1 ELSE Cardinality(Busy(c, t))
  <2> DEFINE T == {u \in 1 .. Units[c] : unit'[c][u] >= t}
  <2>1. CASE c # d
    <3>1. T = Busy(c, t)
      BY <1>2, <2>1 DEF Busy
    <3> QED
      BY <2>1, <3>1
  <2>2. CASE c = d
    <3>1. \A u \in 1 .. Units[d] : unit'[d][u] = IF u = w THEN h ELSE unit[d][u]
      BY <1>2, <1>3, <1>4
    <3>2. CASE t <= h
      <4>1. T = Busy(c, t) \cup {w}
        <5>1. \A u \in 1 .. Units[d] : unit'[d][u] >= t <=> (u = w \/ unit[d][u] >= t)
          BY <1>1, <3>1, <3>2
        <5> QED
          BY <2>2, <5>1 DEF Busy
      <4>2. w \notin Busy(c, t)
        BY <1>2, <2>2 DEF Busy
      <4>3. IsFiniteSet(Busy(c, t))
        BY CountRange
      <4>4. Cardinality(Busy(c, t) \cup {w}) = Cardinality(Busy(c, t)) + 1
        BY <4>2, <4>3, FS_AddElement
      <4> QED
        BY <2>2, <3>2, <4>1, <4>4
    <3>3. CASE ~(t <= h)
      <4>1. \A u \in 1 .. Units[d] : unit'[d][u] >= t <=> unit[d][u] >= t
        BY <1>1, <1>2, <3>1, <3>3
      <4>2. T = Busy(c, t)
        BY <2>2, <4>1 DEF Busy
      <4> QED
        BY <2>2, <3>3, <4>2
    <3> QED
      BY <3>2, <3>3
  <2> QED
    BY <2>1, <2>2
<1> QED
  BY <1>2, <1>6, <1>7 DEF d

\* A candidate turned away blocks only itself: the queue, the ring and the results are
\* as they were, and no unit is free the sooner.
LEMMA TurnedAwayKeeps ==
  ASSUME Inv, IssueNext, TurnedAway,
         \/ unit' = unit
         \/ LET k == rob[Head(cand)].kind
            IN k \notin Unitless /\ FreeUnits(k) # {} /\ unit' = Taken(k, 1)
  PROVE  Inv'
<1>1. /\ TypeOK /\ Places /\ NoLostWakeup /\ OnTime /\ Booked /\ Covered /\ Choosing
      /\ stage = "issue" /\ stage' = "issue" /\ cand # <<>> /\ cand' = Tail(cand)
      /\ now' = now /\ uncharged' = uncharged
  BY DEF Inv, IssueNext
<1>2. /\ blocked' = blocked + 1
      /\ rob' = rob /\ iq' = iq /\ booked' = booked /\ executing' = executing
      /\ wbFast' = wbFast /\ wbSlow' = wbSlow /\ slots' = slots /\ offender' = offender
  BY DEF TurnedAway
<1>3. /\ Head(cand) \in 1 .. Len(rob)
      /\ cand' \in Seq(1 .. RobSize)
      /\ \A i, j \in DOMAIN cand' : cand'[i] = cand'[j] => i = j
      /\ \A i \in DOMAIN cand' : cand'[i] \in Ages(iq)
      /\ blocked + 1 + Len(cand') <= IqSize /\ Len(cand') \in Nat
  BY <1>1, TailFacts
<1>4. /\ DOMAIN unit' = Class
      /\ \A c \in Class : unit'[c] \in [1 .. Units[c] -> 0 .. Longest]
      /\ \A c \in Class : \A t \in Nat \ {0} :
           Cardinality(Busy(c, t)) <= Cardinality({u \in 1 .. Units[c] : unit'[c][u] >= t})
  <2>1. CASE unit' = unit
    <3>1. \A c \in Class : \A t \in Nat \ {0} :
            {u \in 1 .. Units[c] : unit'[c][u] >= t} = Busy(c, t)
      BY <2>1 DEF Busy
    <3>2. \A c \in Class : \A t \in Nat \ {0} : Cardinality(Busy(c, t)) \in Nat
      BY <1>1, CountRange
    <3>3. /\ DOMAIN unit' = Class
          /\ \A c \in Class : unit'[c] \in [1 .. Units[c] -> 0 .. Longest]
      BY <1>1, <2>1 DEF TypeOK
    <3>4. \A c \in Class : \A t \in Nat \ {0} :
            Cardinality(Busy(c, t)) <= Cardinality({u \in 1 .. Units[c] : unit'[c][u] >= t})
      BY <3>1, <3>2
    <3> QED
      BY <3>3, <3>4
  <2>2. CASE unit' # unit
    <3> DEFINE k == rob[Head(cand)].kind
    <3>1. k \notin Unitless /\ FreeUnits(k) # {} /\ unit' = Taken(k, 1)
      BY <2>2
    <3>2. k \in Kind /\ 1 \in 1 .. Longest
      BY <1>1, <1>3, RobFields, Sizes
    <3> HIDE DEF k
    <3>3. /\ DOMAIN unit' = Class
          /\ \A c \in Class : unit'[c] \in [1 .. Units[c] -> 0 .. Longest]
          /\ \A c \in Class : \A t \in Nat \ {0} :
               LET now1 == Cardinality({u \in 1 .. Units[c] : unit'[c][u] >= t})
               IN now1 = IF c = UnitOf(k) /\ t <= 1 THEN Cardinality(Busy(c, t)) + 1
                                                    ELSE Cardinality(Busy(c, t))
      BY <1>1, <3>1, <3>2, TakenCovers
    <3>4. \A c \in Class : \A t \in Nat \ {0} : Cardinality(Busy(c, t)) \in Nat
      BY <1>1, CountRange
    <3> QED
      BY <3>3, <3>4
  <2> QED
    BY <2>1, <2>2
<1>5. TypeOK'
  <2>1. blocked' \in 0 .. IqSize
    <3>1. IqSize \in Nat /\ blocked \in 0 .. IqSize
      BY <1>1, Sizes DEF TypeOK
    <3> QED
      BY <1>2, <1>3, <3>1
  <2> QED
    BY <1>1, <1>2, <1>3, <1>4, <2>1 DEF TypeOK
<1>6. Places' /\ NoLostWakeup' /\ OnTime'
  <2>1. Places'
    <3>1. /\ Ages(iq') = Ages(iq) /\ Ages(executing') = Ages(executing)
          /\ Ages(wbFast') = Ages(wbFast) /\ Ages(wbSlow') = Ages(wbSlow)
          /\ Distinct(iq') <=> Distinct(iq)
          /\ Distinct(executing') <=> Distinct(executing)
          /\ Distinct(wbFast') <=> Distinct(wbFast)
          /\ Distinct(wbSlow') <=> Distinct(wbSlow)
      BY <1>2
    <3>2. {b \in DOMAIN rob' : ~rob'[b].complete} = {b \in DOMAIN rob : ~rob[b].complete}
      BY <1>2
    <3> QED
      BY <1>1, <3>1, <3>2 DEF Places
  <2>2. NoLostWakeup'
    BY <1>1, <1>2 DEF NoLostWakeup
  <2>3. OnTime'
    BY <1>1, <1>2 DEF OnTime, Range
  <2> QED
    BY <2>1, <2>2, <2>3
<1>7. Booked'
  BY <1>1, <1>2 DEF Booked, Slot, Landing, Range
<1>8. Covered'
  <2> SUFFICES ASSUME NEW c \in Class \ {"MUL"}, NEW t \in Nat \ {0}
               PROVE  Cardinality(Occupants(c, t)') <= Cardinality(Busy(c, t)')
    BY DEF Covered
  <2>1. Occupants(c, t)' = Occupants(c, t)
    BY <1>1, <1>2 DEF Occupants, Range
  <2>2. Cardinality(Busy(c, t)) <= Cardinality(Busy(c, t)')
    BY <1>4 DEF Busy
  <2>3. /\ Cardinality(Occupants(c, t)) \in Nat /\ Cardinality(Busy(c, t)) \in Nat
        /\ Cardinality(Occupants(c, t)) <= Cardinality(Busy(c, t))
    BY <1>1, CountRange DEF Covered
  <2>4. Cardinality(Busy(c, t)') \in Nat
    <3>1. TypeOK'
      BY <1>5
    <3>2. IsFiniteSet(1 .. Units[c]) /\ Busy(c, t)' \subseteq 1 .. Units[c]
      BY Sizes, FS_Interval DEF Busy
    <3> QED
      BY <3>2, FS_Subset, FS_CardinalityType
  <2> QED
    BY <2>1, <2>2, <2>3, <2>4
<1>9. Choosing'
  <2>1. Ages(iq') = Ages(iq)
    BY <1>2
  <2> QED
    BY <1>1, <1>2, <1>3, <2>1 DEF Choosing
<1> QED
  BY <1>5, <1>6, <1>7, <1>8, <1>9 DEF Inv

\* An operation that starts leaves the queue for one of the three places a result
\* waits in.
LEMMA StartedFacts ==
  ASSUME Inv, NEW a \in Ages(iq), NEW lat \in 1 .. Longest, NEW wrong, Started(a, lat, wrong)
  PROVE  LET u == [age |-> a, due |-> lat]
             x == IF lat > 1 THEN {u} ELSE {}
             s == IF lat = 1 /\ rob[a].kind = "LOAD" THEN {u} ELSE {}
             f == IF lat = 1 /\ rob[a].kind # "LOAD" THEN {u} ELSE {}
         IN /\ a \in 1 .. Len(rob) /\ u \in Pending
            /\ iq' \in Seq(Waiting) /\ Len(iq') <= Len(iq) /\ Distinct(iq')
            /\ Range(iq') \subseteq Range(iq) /\ Ages(iq') = Ages(iq) \ {a}
            /\ executing' \in Seq(Pending) /\ Distinct(executing')
            /\ Range(executing') = Range(executing) \cup x
            /\ wbSlow' \in Seq(Pending) /\ Distinct(wbSlow')
            /\ Range(wbSlow') = Range(wbSlow) \cup s
            /\ wbFast' \in Seq(Pending) /\ Distinct(wbFast')
            /\ Range(wbFast') = Range(wbFast) \cup f
            /\ a \notin Ages(executing) \cup Ages(wbFast) \cup Ages(wbSlow)
<1> DEFINE u == [age |-> a, due |-> lat]
           K == {e \in Range(iq) : e.age # a}
<1>1. TypeOK /\ Places
  BY DEF Inv
<1>2. /\ iq \in Seq(Waiting) /\ executing \in Seq(Pending)
      /\ wbSlow \in Seq(Pending) /\ wbFast \in Seq(Pending)
  BY <1>1 DEF TypeOK
<1>3. /\ Distinct(iq) /\ Distinct(executing) /\ Distinct(wbSlow) /\ Distinct(wbFast)
      /\ a \notin Ages(executing) \cup Ages(wbFast) \cup Ages(wbSlow)
  BY <1>1 DEF Places
<1>4. a \in 1 .. Len(rob) /\ u \in Pending /\ u.age = a
  <2>1. a \in 1 .. Len(rob) /\ lat \in 0 .. Longest
    BY <1>1, PlaceFacts, Sizes
  <2>2. a \in 1 .. RobSize
    BY <1>1, <2>1, RobFields, Sizes
  <2> QED
    BY <2>1, <2>2 DEF Pending
<1>5. /\ iq' = Those(iq, K)
      /\ executing' = IF lat > 1 THEN Append(executing, u) ELSE executing
      /\ wbSlow' = IF lat = 1 /\ rob[a].kind = "LOAD" THEN Append(wbSlow, u) ELSE wbSlow
      /\ wbFast' = IF lat = 1 /\ rob[a].kind # "LOAD" THEN Append(wbFast, u) ELSE wbFast
  BY DEF Started
<1>6. /\ iq' \in Seq(Waiting) /\ Len(iq') <= Len(iq) /\ Distinct(iq')
      /\ Range(iq') = Range(iq) \cap K
  <2> HIDE DEF K
  <2> QED
    BY <1>2, <1>3, <1>5, ThoseFacts
<1>7. Range(iq') \subseteq Range(iq) /\ Ages(iq') = Ages(iq) \ {a}
  <2>1. Ages(iq') = {e.age : e \in Range(iq')} /\ Ages(iq) = {e.age : e \in Range(iq)}
    BY AgesRange
  <2> QED
    BY <1>6, <2>1
<1> HIDE DEF u
<1>8. /\ \A v \in Range(executing) : v.age # u.age
      /\ \A v \in Range(wbSlow) : v.age # u.age
      /\ \A v \in Range(wbFast) : v.age # u.age
  BY <1>1, <1>3, <1>4, PlaceFacts
<1>9. /\ Append(executing, u) \in Seq(Pending) /\ Distinct(Append(executing, u))
      /\ Range(Append(executing, u)) = Range(executing) \cup {u}
  BY <1>2, <1>3, <1>4, <1>8, AppendKeeps
<1>10. /\ Append(wbSlow, u) \in Seq(Pending) /\ Distinct(Append(wbSlow, u))
       /\ Range(Append(wbSlow, u)) = Range(wbSlow) \cup {u}
  BY <1>2, <1>3, <1>4, <1>8, AppendKeeps
<1>11. /\ Append(wbFast, u) \in Seq(Pending) /\ Distinct(Append(wbFast, u))
       /\ Range(Append(wbFast, u)) = Range(wbFast) \cup {u}
  BY <1>2, <1>3, <1>4, <1>8, AppendKeeps
<1>12. /\ executing' \in Seq(Pending) /\ Distinct(executing')
       /\ Range(executing') = Range(executing) \cup (IF lat > 1 THEN {u} ELSE {})
  BY <1>2, <1>3, <1>5, <1>9
<1>13. /\ wbSlow' \in Seq(Pending) /\ Distinct(wbSlow')
       /\ Range(wbSlow') = Range(wbSlow) \cup (IF lat = 1 /\ rob[a].kind = "LOAD" THEN {u} ELSE {})
  BY <1>2, <1>3, <1>5, <1>10
<1>14. /\ wbFast' \in Seq(Pending) /\ Distinct(wbFast')
       /\ Range(wbFast') = Range(wbFast) \cup (IF lat = 1 /\ rob[a].kind # "LOAD" THEN {u} ELSE {})
  BY <1>2, <1>3, <1>5, <1>11
<1> QED
  BY <1>3, <1>4, <1>6, <1>7, <1>12, <1>13, <1>14 DEF u

\* issue() starting an operation, as IssueTurns finds it.
Starts(a, lat, held, wrong) ==
  LET k == rob[a].kind
  IN /\ Started(a, lat, wrong)
     /\ k \in Unitless \/ FreeUnits(k) # {}
     /\ unit' = Taken(k, held)
     /\ k # "MUL" => held = lat
     /\ IF rob[a].writes /\ k # "LOAD"
          THEN booked[Slot(lat)] < NumCdb /\ booked' = [booked EXCEPT ![Slot(lat)] = @ + 1]
          ELSE booked' = booked

\* The port: the slot of the cycle the result lands in counts it, and no other slot.
LEMMA StartedBooks ==
  ASSUME Inv, stage = "issue", rob' = rob, now' = now, NEW a \in Ages(iq), NEW lat \in 1 .. Longest,
         NEW held, NEW wrong, Starts(a, lat, held, wrong)
  PROVE  Booked' /\ booked' \in [0 .. Window - 1 -> 0 .. NumCdb]
<1> DEFINE k == rob[a].kind
           books == rob[a].writes /\ k # "LOAD"
           u == [age |-> a, due |-> lat]
<1>1. TypeOK /\ Booked /\ Started(a, lat, wrong)
  BY DEF Inv, Starts
<1>2. /\ now \in 0 .. Window - 1 /\ booked \in [0 .. Window - 1 -> 0 .. NumCdb]
      /\ Window = Longest + 2 /\ Longest \in Nat /\ NumCdb \in Nat
  BY <1>1, Sizes DEF TypeOK
<1>3. /\ a \in 1 .. Len(rob)
      /\ Range(executing') = Range(executing) \cup (IF lat > 1 THEN {u} ELSE {})
      /\ Range(wbFast') = Range(wbFast) \cup (IF lat = 1 /\ k # "LOAD" THEN {u} ELSE {})
      /\ a \notin Ages(executing) \cup Ages(wbFast)
  BY <1>1, StartedFacts
<1>4. IF books THEN booked[Slot(lat)] < NumCdb /\ booked' = [booked EXCEPT ![Slot(lat)] = @ + 1]
               ELSE booked' = booked
  BY DEF Starts
<1>5. DOMAIN rob = 1 .. Len(rob)
  BY <1>1, RobFields
<1>6. u \notin Range(executing) \cup Range(wbFast)
  <2>1. \A v \in Range(executing) \cup Range(wbFast) : v.age \in Ages(executing) \cup Ages(wbFast)
    BY PlaceFacts DEF Inv
  <2>2. u.age = a
    OBVIOUS
  <2> HIDE DEF u
  <2> QED
    BY <1>3, <2>1, <2>2
<1>7. \A v : rob[v.age].kind # "LOAD" =>
        (v \in Range(executing') \cup Range(wbFast')
           <=> (v \in Range(executing) \cup Range(wbFast) \/ (v = u /\ k # "LOAD")))
  <2> TAKE v
  <2>1. u.age = a
    OBVIOUS
  <2>2. lat > 1 \/ lat = 1
    BY <1>2
  <2> HIDE DEF u
  <2> QED
    BY <1>3, <2>1, <2>2
<1>8. \A n : Landing(n)' = IF books /\ n = lat THEN Landing(n) \cup {a} ELSE Landing(n)
  <2> TAKE n
  <2>1. Landing(n)' = {b \in 1 .. Len(rob) :
          /\ rob[b].writes /\ rob[b].kind # "LOAD"
          /\ [age |-> b, due |-> n] \in Range(executing') \cup Range(wbFast')}
    BY <1>5 DEF Landing
  <2>2. Landing(n) = {b \in 1 .. Len(rob) :
          /\ rob[b].writes /\ rob[b].kind # "LOAD"
          /\ [age |-> b, due |-> n] \in Range(executing) \cup Range(wbFast)}
    BY <1>5 DEF Landing
  <2>3. \A b : rob[b].kind # "LOAD" =>
          ([age |-> b, due |-> n] \in Range(executing') \cup Range(wbFast')
             <=> ([age |-> b, due |-> n] \in Range(executing) \cup Range(wbFast)
                    \/ (b = a /\ n = lat /\ k # "LOAD")))
    <3> TAKE b
    <3> DEFINE v == [age |-> b, due |-> n]
    <3>1. v.age = b /\ (v = u <=> (b = a /\ n = lat))
      OBVIOUS
    <3> HIDE DEF v, u
    <3> QED
      BY <1>7, <3>1 DEF v
  <2> QED
    BY <1>3, <2>1, <2>2, <2>3
<1>9. /\ lat \in 0 .. Window - 1 /\ \A n \in 0 .. Window - 1 : Slot(n) \in 0 .. Window - 1
      /\ \A m, n \in 0 .. Window - 1 : Slot(m) = Slot(n) => m = n
  <2>1. lat \in 0 .. Window - 1
    BY <1>2
  <2> QED
    BY <1>2, <2>1, SlotFacts
<1>10. a \notin Landing(lat)
  BY <1>6 DEF Landing
<1>11. CASE books
  <2>1. booked[Slot(lat)] < NumCdb /\ booked' = [booked EXCEPT ![Slot(lat)] = @ + 1]
    BY <1>4, <1>11
  <2>2. booked' \in [0 .. Window - 1 -> 0 .. NumCdb]
    <3>1. booked[Slot(lat)] + 1 \in 0 .. NumCdb
      <4>1. booked[Slot(lat)] \in 0 .. NumCdb
        BY <1>2, <1>9
      <4> QED
        BY <1>2, <2>1, <4>1
    <3> QED
      BY <1>2, <1>9, <2>1, <3>1
  <2>3. ASSUME NEW n \in 0 .. Window - 1
        PROVE  booked'[Slot(n)] = Cardinality(Landing(n)')
    <3>1. CASE n = lat
      <4>1. Landing(n)' = Landing(n) \cup {a} /\ IsFiniteSet(Landing(n))
        BY <1>1, <1>8, <1>11, <3>1, CountRange
      <4>2. Cardinality(Landing(n)') = Cardinality(Landing(n)) + 1
        BY <1>10, <3>1, <4>1, FS_AddElement
      <4>3. booked'[Slot(n)] = booked[Slot(n)] + 1
        BY <1>2, <1>9, <2>1, <3>1
      <4> QED
        BY <1>1, <4>2, <4>3 DEF Booked
    <3>2. CASE n # lat
      <4>1. Landing(n)' = Landing(n)
        BY <1>8, <3>2
      <4>2. booked'[Slot(n)] = booked[Slot(n)]
        BY <1>2, <1>9, <2>1, <3>2
      <4> QED
        BY <1>1, <4>1, <4>2 DEF Booked
    <3> QED
      BY <3>1, <3>2
  <2> QED
    BY <2>2, <2>3 DEF Booked, Slot
<1>12. CASE ~books
  <2>1. booked' = booked /\ \A n : Landing(n)' = Landing(n)
    BY <1>4, <1>8, <1>12
  <2> QED
    BY <1>1, <1>2, <2>1 DEF Booked, Slot
<1> QED
  BY <1>11, <1>12

\* The unit: it is held for as long as the operation executes.
LEMMA StartedCovers ==
  ASSUME Inv, rob' = rob, NEW a \in Ages(iq), NEW lat \in 1 .. Longest,
         NEW held \in 1 .. Longest, NEW wrong, Starts(a, lat, held, wrong)
  PROVE  /\ Covered' /\ DOMAIN unit' = Class
         /\ \A c \in Class : unit'[c] \in [1 .. Units[c] -> 0 .. Longest]
<1> DEFINE k == rob[a].kind
           u == [age |-> a, due |-> lat]
<1>1. TypeOK /\ Covered /\ Started(a, lat, wrong) /\ Longest \in Nat \ {0}
  BY Sizes DEF Inv, Starts
<1>2. /\ a \in 1 .. Len(rob)
      /\ Range(executing') = Range(executing) \cup (IF lat > 1 THEN {u} ELSE {})
  BY <1>1, StartedFacts
<1>3. k \in Kind /\ DOMAIN rob = 1 .. Len(rob)
  BY <1>1, <1>2, RobFields
<1>4. /\ k \in Unitless \/ FreeUnits(k) # {}
      /\ unit' = Taken(k, held) /\ (k # "MUL" => held = lat)
  BY DEF Starts
<1>5. \A c : \A t \in Nat \ {0} :
        Occupants(c, t)' \subseteq Occupants(c, t) \cup (IF UnitOf(k) = c /\ t <= lat THEN {a} ELSE {})
  <2> TAKE c
  <2> TAKE t \in Nat \ {0}
  <2> SUFFICES ASSUME NEW b \in Occupants(c, t)', b \notin Occupants(c, t)
               PROVE  UnitOf(k) = c /\ t <= lat /\ b = a
    OBVIOUS
  <2>1. PICK d \in t .. Longest : [age |-> b, due |-> d] \in Range(executing')
    BY DEF Occupants
  <2>2. b \in DOMAIN rob /\ UnitOf(rob[b].kind) = c
    BY DEF Occupants
  <2>3. [age |-> b, due |-> d] \notin Range(executing)
    BY <2>1, <2>2 DEF Occupants
  <2>4. [age |-> b, due |-> d] = u
    BY <1>2, <2>1, <2>3
  <2>5. b = a /\ d = lat
    BY <2>4
  <2> QED
    BY <1>1, <2>1, <2>2, <2>5
<1>6. CASE k \in Unitless
  <2>1. unit' = unit
    BY <1>4, <1>6 DEF Taken
  <2>2. UnitOf(k) \notin Class
    BY <1>6 DEF UnitOf, Unitless, Class
  <2>3. ASSUME NEW c \in Class \ {"MUL"}, NEW t \in Nat \ {0}
        PROVE  Cardinality(Occupants(c, t)') <= Cardinality(Busy(c, t)')
    <3>1. Occupants(c, t)' \subseteq Occupants(c, t)
      BY <1>5, <2>2
    <3>2. Busy(c, t)' = Busy(c, t)
      BY <2>1 DEF Busy
    <3>3. /\ IsFiniteSet(Occupants(c, t)) /\ Cardinality(Occupants(c, t)) \in Nat
          /\ Cardinality(Busy(c, t)) \in Nat
          /\ Cardinality(Occupants(c, t)) <= Cardinality(Busy(c, t))
      BY <1>1, CountRange DEF Covered
    <3>4. /\ Cardinality(Occupants(c, t)') \in Nat
          /\ Cardinality(Occupants(c, t)') <= Cardinality(Occupants(c, t))
      BY <3>1, <3>3, FS_Subset, FS_CardinalityType
    <3> QED
      BY <3>2, <3>3, <3>4
  <2> QED
    BY <1>1, <2>1, <2>3 DEF Covered, TypeOK
<1>7. CASE k \notin Unitless
  <2>1. /\ DOMAIN unit' = Class
        /\ \A c \in Class : unit'[c] \in [1 .. Units[c] -> 0 .. Longest]
        /\ \A c \in Class : \A t \in Nat \ {0} :
             LET now1 == Cardinality({v \in 1 .. Units[c] : unit'[c][v] >= t})
             IN now1 = IF c = UnitOf(k) /\ t <= held THEN Cardinality(Busy(c, t)) + 1
                                                    ELSE Cardinality(Busy(c, t))
    BY <1>1, <1>3, <1>4, <1>7, TakenCovers
  <2>2. ASSUME NEW c \in Class \ {"MUL"}, NEW t \in Nat \ {0}
        PROVE  Cardinality(Occupants(c, t)') <= Cardinality(Busy(c, t)')
    <3>1. /\ IsFiniteSet(Occupants(c, t)) /\ Cardinality(Occupants(c, t)) \in Nat
          /\ Cardinality(Busy(c, t)) \in Nat
          /\ Cardinality(Occupants(c, t)) <= Cardinality(Busy(c, t))
      BY <1>1, CountRange DEF Covered
    <3>2. Cardinality(Busy(c, t)') = IF c = UnitOf(k) /\ t <= held THEN Cardinality(Busy(c, t)) + 1
                                                                  ELSE Cardinality(Busy(c, t))
      BY <2>1 DEF Busy
    <3>3. CASE UnitOf(k) = c /\ t <= lat
      <4>1. k # "MUL"
        BY <3>3 DEF UnitOf
      <4>2. Cardinality(Busy(c, t)') = Cardinality(Busy(c, t)) + 1
        BY <1>4, <3>2, <3>3, <4>1
      <4>3. Occupants(c, t)' \subseteq Occupants(c, t) \cup {a}
        BY <1>5, <3>3
      <4>4. /\ IsFiniteSet(Occupants(c, t) \cup {a})
            /\ Cardinality(Occupants(c, t) \cup {a}) <= Cardinality(Occupants(c, t)) + 1
            /\ Cardinality(Occupants(c, t) \cup {a}) \in Nat
        <5>1. IsFiniteSet(Occupants(c, t) \cup {a})
          BY <3>1, FS_AddElement
        <5>2. /\ Cardinality(Occupants(c, t) \cup {a}) = Cardinality(Occupants(c, t)) + 1
              \/ Cardinality(Occupants(c, t) \cup {a}) = Cardinality(Occupants(c, t))
          <6>1. CASE a \in Occupants(c, t)
            <7>1. Occupants(c, t) \cup {a} = Occupants(c, t)
              BY <6>1
            <7> QED
              BY <7>1
          <6>2. CASE a \notin Occupants(c, t)
            BY <3>1, <6>2, FS_AddElement
          <6> QED
            BY <6>1, <6>2
        <5> QED
          BY <3>1, <5>1, <5>2
      <4>5. /\ Cardinality(Occupants(c, t)') \in Nat
            /\ Cardinality(Occupants(c, t)') <= Cardinality(Occupants(c, t) \cup {a})
        BY <4>3, <4>4, FS_Subset, FS_CardinalityType
      <4> QED
        BY <3>1, <4>2, <4>4, <4>5
    <3>4. CASE ~(UnitOf(k) = c /\ t <= lat)
      <4>1. Occupants(c, t)' \subseteq Occupants(c, t)
        BY <1>5, <3>4
      <4>2. /\ Cardinality(Occupants(c, t)') \in Nat
            /\ Cardinality(Occupants(c, t)') <= Cardinality(Occupants(c, t))
        BY <3>1, <4>1, FS_Subset, FS_CardinalityType
      <4>3. Cardinality(Busy(c, t)') >= Cardinality(Busy(c, t)) /\ Cardinality(Busy(c, t)') \in Nat
        BY <3>1, <3>2
      <4> QED
        BY <3>1, <4>2, <4>3
    <3> QED
      BY <3>3, <3>4
  <2> QED
    BY <2>1, <2>2 DEF Covered
<1> QED
  BY <1>6, <1>7

\* issue() starting an operation keeps the invariant.
LEMMA StartsKeeps ==
  ASSUME Inv, IssueNext, NEW lat \in 1 .. Longest, NEW held \in 1 .. Longest, NEW wrong \in BOOLEAN,
         Starts(Head(cand), lat, held, wrong)
  PROVE  Inv'
<1> DEFINE a == Head(cand)
           k == rob[a].kind
           u == [age |-> a, due |-> lat]
           x == IF lat > 1 THEN {u} ELSE {}
           s == IF lat = 1 /\ k = "LOAD" THEN {u} ELSE {}
           f == IF lat = 1 /\ k # "LOAD" THEN {u} ELSE {}
<1>1. /\ TypeOK /\ Places /\ NoLostWakeup /\ OnTime /\ Choosing
      /\ stage = "issue" /\ stage' = "issue" /\ cand # <<>> /\ cand' = Tail(cand) /\ slots > 0
      /\ now' = now /\ uncharged' = uncharged
  BY DEF Inv, IssueNext
<1>2. /\ a \in Ages(iq) /\ a \in 1 .. Len(rob) /\ ~rob[a].complete
      /\ cand' \in Seq(1 .. RobSize)
      /\ \A i, j \in DOMAIN cand' : cand'[i] = cand'[j] => i = j
      /\ \A i \in DOMAIN cand' : cand'[i] \in Ages(iq) \ {a}
      /\ blocked + 1 + Len(cand') <= IqSize /\ Len(cand') \in Nat
  BY <1>1, TailFacts
<1>3. /\ Started(a, lat, wrong) /\ rob' = rob /\ blocked' = blocked /\ slots' = slots - 1
      /\ offender' = IF wrong /\ (offender = 0 \/ a < offender) THEN a ELSE offender
  BY DEF Starts, Started
<1>4. /\ u \in Pending
      /\ iq' \in Seq(Waiting) /\ Len(iq') <= Len(iq) /\ Distinct(iq')
      /\ Range(iq') \subseteq Range(iq) /\ Ages(iq') = Ages(iq) \ {a}
      /\ executing' \in Seq(Pending) /\ Distinct(executing')
      /\ Range(executing') = Range(executing) \cup x
      /\ wbSlow' \in Seq(Pending) /\ Distinct(wbSlow')
      /\ Range(wbSlow') = Range(wbSlow) \cup s
      /\ wbFast' \in Seq(Pending) /\ Distinct(wbFast')
      /\ Range(wbFast') = Range(wbFast) \cup f
      /\ a \notin Ages(executing) \cup Ages(wbFast) \cup Ages(wbSlow)
  BY <1>2, <1>3, StartedFacts
<1>5. u.age = a /\ u.due = lat /\ (lat > 1 \/ lat = 1)
  BY Sizes
<1>6. /\ Booked' /\ booked' \in [0 .. Window - 1 -> 0 .. NumCdb]
      /\ Covered' /\ DOMAIN unit' = Class
      /\ \A c \in Class : unit'[c] \in [1 .. Units[c] -> 0 .. Longest]
  <2> HIDE DEF a
  <2>1. Starts(a, lat, held, wrong)
    BY DEF a
  <2> QED
    BY <1>1, <1>2, <1>3, <2>1, StartedBooks, StartedCovers
<1>7. TypeOK'
  <2>1. slots' \in 0 .. Width
    BY <1>1, <1>3, Sizes DEF TypeOK
  <2>2. offender' \in 0 .. Len(rob')
    <3>1. offender \in 0 .. Len(rob) /\ Len(rob) \in Nat
      BY <1>1, RobFields DEF TypeOK
    <3> QED
      BY <1>2, <1>3, <3>1
  <2>3. Len(iq') <= IqSize
    BY <1>1, <1>4, Sizes DEF TypeOK
  <2>4. /\ rob' \in Seq(InFlight) /\ Len(rob') <= RobSize
        /\ \A i \in DOMAIN rob' : rob'[i].src1 < i /\ rob'[i].src2 < i
        /\ now' \in 0 .. Window - 1 /\ stage' = "issue"
        /\ blocked' \in 0 .. IqSize /\ uncharged' \in 0 .. Width
    BY <1>1, <1>3 DEF TypeOK
  <2>5. /\ cand' \in Seq(1 .. RobSize) /\ iq' \in Seq(Waiting)
        /\ executing' \in Seq(Pending) /\ wbFast' \in Seq(Pending) /\ wbSlow' \in Seq(Pending)
    BY <1>2, <1>4
  <2> QED
    BY <1>6, <2>1, <2>2, <2>3, <2>4, <2>5 DEF TypeOK
<1>8. Places'
  <2> DEFINE X == IF lat > 1 THEN {a} ELSE {}
             S == IF lat = 1 /\ k = "LOAD" THEN {a} ELSE {}
             F == IF lat = 1 /\ k # "LOAD" THEN {a} ELSE {}
  <2>1. /\ Ages(executing') = Ages(executing) \cup X
        /\ Ages(wbSlow') = Ages(wbSlow) \cup S
        /\ Ages(wbFast') = Ages(wbFast) \cup F
    <3>1. /\ Ages(executing') = {v.age : v \in Range(executing')}
          /\ Ages(executing) = {v.age : v \in Range(executing)}
          /\ Ages(wbSlow') = {v.age : v \in Range(wbSlow')}
          /\ Ages(wbSlow) = {v.age : v \in Range(wbSlow)}
          /\ Ages(wbFast') = {v.age : v \in Range(wbFast')}
          /\ Ages(wbFast) = {v.age : v \in Range(wbFast)}
      BY AgesRange
    <3>2. ASSUME NEW A, NEW c \in BOOLEAN
          PROVE  {v.age : v \in A \cup (IF c THEN {u} ELSE {})}
                   = {v.age : v \in A} \cup (IF c THEN {a} ELSE {})
      <4> HIDE DEF u
      <4> QED
        BY <1>5
    <3>3. Ages(executing') = Ages(executing) \cup X
      <4> DEFINE c == lat > 1
      <4>1. c \in BOOLEAN /\ x = (IF c THEN {u} ELSE {}) /\ X = (IF c THEN {a} ELSE {})
        OBVIOUS
      <4> HIDE DEF c, x, X, u, a
      <4> QED
        BY <1>4, <3>1, <3>2, <4>1
    <3>4. Ages(wbSlow') = Ages(wbSlow) \cup S
      <4> DEFINE c == lat = 1 /\ k = "LOAD"
      <4>1. c \in BOOLEAN /\ s = (IF c THEN {u} ELSE {}) /\ S = (IF c THEN {a} ELSE {})
        OBVIOUS
      <4> HIDE DEF c, s, S, u, a
      <4> QED
        BY <1>4, <3>1, <3>2, <4>1
    <3>5. Ages(wbFast') = Ages(wbFast) \cup F
      <4> DEFINE c == lat = 1 /\ k # "LOAD"
      <4>1. c \in BOOLEAN /\ f = (IF c THEN {u} ELSE {}) /\ F = (IF c THEN {a} ELSE {})
        OBVIOUS
      <4> HIDE DEF c, f, F, u, a
      <4> QED
        BY <1>4, <3>1, <3>2, <4>1
    <3> QED
      BY <3>3, <3>4, <3>5
  <2>2. /\ X \cup S \cup F = {a} /\ X \cap S = {} /\ X \cap F = {} /\ S \cap F = {}
    BY <1>5
  <2> HIDE DEF X, S, F
  <2> DEFINE I == Ages(iq)
             E == Ages(executing)
             A == Ages(wbFast)
             B == Ages(wbSlow)
             Y == {b \in DOMAIN rob : ~rob[b].complete}
  <2>3. /\ I \cap E = {} /\ I \cap A = {} /\ I \cap B = {} /\ E \cap A = {} /\ E \cap B = {}
        /\ A \cap B = {} /\ I \cup E \cup A \cup B = Y
    BY <1>1 DEF Places
  <2>4. /\ Ages(iq') = I \ {a} /\ Ages(executing') = E \cup X /\ Ages(wbFast') = A \cup F
        /\ Ages(wbSlow') = B \cup S /\ a \in I
    BY <1>2, <1>4, <2>1
  <2> HIDE DEF I, E, A, B, Y
  <2>5. /\ (I \ {a}) \cap (E \cup X) = {} /\ (I \ {a}) \cap (A \cup F) = {}
        /\ (I \ {a}) \cap (B \cup S) = {} /\ (E \cup X) \cap (A \cup F) = {}
        /\ (E \cup X) \cap (B \cup S) = {} /\ (A \cup F) \cap (B \cup S) = {}
    BY <2>2, <2>3, <2>4
  <2>6. (I \ {a}) \cup (E \cup X) \cup (A \cup F) \cup (B \cup S) = Y
    BY <2>2, <2>3, <2>4
  <2>7. Y = {b \in DOMAIN rob' : ~rob'[b].complete}
    BY <1>3 DEF Y
  <2> QED
    BY <1>4, <2>4, <2>5, <2>6, <2>7 DEF Places
<1>9. NoLostWakeup'
  <2>1. \A e \in Range(iq) : Heard(e)
    BY <1>1, WakeupByEntry DEF AllHeard
  <2>2. AllHeard'
    BY <1>3, <1>4, <2>1 DEF Heard, AllHeard
  <2>3. NoLostWakeup' <=> AllHeard'
    BY WakeupByEntry, PTL
  <2> QED
    BY <2>2, <2>3
<1>10. OnTime'
  <2>1. \A v \in Range(executing) : v.due >= 2
    BY <1>1 DEF OnTime
  <2>2. \A v \in Range(wbFast) : rob[v.age].kind # "LOAD" /\ v.due = 1
    BY <1>1 DEF OnTime
  <2>3. lat > 1 => lat >= 2
    OBVIOUS
  <2> HIDE DEF u, a
  <2>4. \A v \in Range(executing') : v.due >= 2
    BY <1>4, <1>5, <2>1, <2>3
  <2>5. \A v \in Range(wbFast') : rob[v.age].kind # "LOAD" /\ v.due = 1
    BY <1>4, <1>5, <2>2
  <2> QED
    BY <1>1, <1>3, <2>4, <2>5 DEF OnTime
<1>11. Choosing'
  <2>1. blocked' + Len(cand') <= IqSize
    <3>1. blocked \in 0 .. IqSize /\ IqSize \in Nat
      BY <1>1, Sizes DEF TypeOK
    <3>2. blocked + 1 + Len(cand') <= IqSize /\ Len(cand') \in Nat /\ blocked' = blocked
      BY <1>2, <1>3
    <3> QED
      BY <3>1, <3>2
  <2> QED
    <3>1. \A i \in DOMAIN cand' : cand'[i] \in Ages(iq')
      BY <1>2, <1>4
    <3>2. \A i, j \in DOMAIN cand' : cand'[i] = cand'[j] => i = j
      BY <1>2
    <3> QED
      BY <1>1, <2>1, <3>1, <3>2 DEF Choosing
<1> QED
  BY <1>6, <1>7, <1>8, <1>9, <1>10, <1>11 DEF Inv

\* A turn of issue() keeps the invariant.
LEMMA IssueNextKeeps ==
  ASSUME Inv, IssueNext
  PROVE  Inv'
<1>1. CASE /\ TurnedAway
           /\ \/ unit' = unit
              \/ LET k == rob[Head(cand)].kind
                 IN k \notin Unitless /\ FreeUnits(k) # {} /\ unit' = Taken(k, 1)
  BY <1>1, TurnedAwayKeeps
<1>2. CASE \E lat \in 1 .. Longest, held \in 1 .. Longest, wrong \in BOOLEAN :
             Starts(Head(cand), lat, held, wrong)
  BY <1>2, StartsKeeps
<1>3. \/ /\ TurnedAway
         /\ \/ unit' = unit
            \/ LET k == rob[Head(cand)].kind
               IN k \notin Unitless /\ FreeUnits(k) # {} /\ unit' = Taken(k, 1)
      \/ \E lat \in 1 .. Longest, held \in 1 .. Longest, wrong \in BOOLEAN :
           Starts(Head(cand), lat, held, wrong)
  BY IssueTurns DEF Starts
<1> QED
  BY <1>1, <1>2, <1>3

\* What survives a squash of a queue.
LEMMA SurvivingFacts ==
  ASSUME NEW S, NEW s \in Seq(S), NEW keep
  PROVE  /\ Surviving(s, keep) \in Seq(S) /\ Len(Surviving(s, keep)) <= Len(s)
         /\ Range(Surviving(s, keep)) = {u \in Range(s) : u.age <= keep}
         /\ Ages(Surviving(s, keep)) = {a \in Ages(s) : a <= keep}
         /\ Distinct(s) => Distinct(Surviving(s, keep))
<1> DEFINE K == {u \in Range(s) : u.age <= keep}
           t == Surviving(s, keep)
<1>1. t = Those(s, K)
  BY DEF Surviving
<1>2. K \subseteq Range(s)
  OBVIOUS
<1> HIDE DEF t, K
<1>3. /\ t \in Seq(S) /\ Len(t) <= Len(s) /\ Range(t) = K /\ (Distinct(s) => Distinct(t))
  <2>1. /\ Those(s, K) \in Seq(S) /\ Len(Those(s, K)) <= Len(s)
        /\ Range(Those(s, K)) = Range(s) \cap K
        /\ Distinct(s) => Distinct(Those(s, K))
    BY ThoseFacts
  <2>2. Range(s) \cap K = K
    BY <1>2
  <2> QED
    BY <1>1, <2>1, <2>2
<1>4. Ages(t) = {a \in Ages(s) : a <= keep}
  <2>1. Ages(t) = {u.age : u \in Range(t)} /\ Ages(s) = {u.age : u \in Range(s)}
    BY AgesRange
  <2> QED
    BY <1>3, <2>1 DEF K
<1> QED
  BY <1>3, <1>4 DEF t, K

\* release_cdb gives back the ports of what was squashed, and no others.
LEMMA ReleasedExact ==
  ASSUME Inv, stage = "issue", NEW keep \in 0 .. Len(rob), NEW n \in 0 .. Window - 1
  PROVE  /\ Released(keep)[Slot(n)] = Cardinality({a \in Landing(n) : a <= keep})
         /\ Released(keep)[Slot(n)] \in 0 .. NumCdb
<1> DEFINE gone(s) == {u \in Range(s) : u.age > keep /\ rob[u.age].writes
                                          /\ rob[u.age].kind # "LOAD" /\ u.due > 0}
           squashed == gone(executing) \cup gone(wbFast)
           T == {u \in squashed : Slot(u.due) = Slot(n)}
           Kept == {a \in Landing(n) : a <= keep}
           Lost == {a \in Landing(n) : a > keep}
<1>1. TypeOK /\ Places /\ OnTime /\ Booked
  BY DEF Inv
<1>2. /\ now \in 0 .. Window - 1 /\ Window = Longest + 2 /\ Longest \in Nat
      /\ booked \in [0 .. Window - 1 -> 0 .. NumCdb] /\ NumCdb \in Nat
      /\ Len(rob) \in Nat /\ DOMAIN rob = 1 .. Len(rob)
  BY <1>1, RobFields, Sizes DEF TypeOK
<1>3. /\ \A m \in 0 .. Window - 1 : Slot(m) \in 0 .. Window - 1
      /\ \A m, j \in 0 .. Window - 1 : Slot(m) = Slot(j) => m = j
  BY <1>2, SlotFacts
<1>4. Released(keep)[Slot(n)] = booked[Slot(n)] - Cardinality(T)
  <2> DEFINE s == Slot(n)
  <2>1. s \in 0 .. Window - 1
    BY <1>3
  <2> HIDE DEF s
  <2>2. Released(keep)[s] = booked[s] - Cardinality({u \in squashed : Slot(u.due) = s})
    BY <2>1 DEF Released
  <2> QED
    BY <2>2 DEF s
<1>5. \A u \in Range(executing) \cup Range(wbFast) :
        /\ u.age \in 1 .. Len(rob) /\ u.due \in 0 .. Longest /\ u.due > 0
        /\ u = [age |-> u.age, due |-> u.due]
  <2> TAKE u \in Range(executing) \cup Range(wbFast)
  <2>1. u \in Pending /\ u.age \in 1 .. Len(rob)
    BY <1>1, PlaceFacts
  <2>2. u.due \in 0 .. Longest /\ u = [age |-> u.age, due |-> u.due]
    BY <2>1, PendingFacts
  <2>3. u.due >= 2 \/ u.due = 1
    BY <1>1 DEF OnTime
  <2> QED
    BY <2>1, <2>2, <2>3
<1>6. \A u : u \in T <=>
        /\ u \in Range(executing) \cup Range(wbFast)
        /\ u.age > keep /\ rob[u.age].writes /\ rob[u.age].kind # "LOAD" /\ u.due = n
  <2> TAKE u
  <2>1. u \in T <=>
          /\ u \in Range(executing) \cup Range(wbFast)
          /\ u.age > keep /\ rob[u.age].writes /\ rob[u.age].kind # "LOAD" /\ u.due > 0
          /\ Slot(u.due) = Slot(n)
    OBVIOUS
  <2>2. ASSUME u \in Range(executing) \cup Range(wbFast)
        PROVE  (u.due > 0 /\ Slot(u.due) = Slot(n)) <=> u.due = n
    <3>1. u.due \in 0 .. Window - 1 /\ u.due > 0
      BY <1>2, <1>5, <2>2
    <3> QED
      BY <1>3, <3>1
  <2> HIDE DEF T
  <2> QED
    BY <2>1, <2>2
<1>7. \A a : a \in Lost <=>
        /\ a \in 1 .. Len(rob) /\ a > keep /\ rob[a].writes /\ rob[a].kind # "LOAD"
        /\ [age |-> a, due |-> n] \in Range(executing) \cup Range(wbFast)
  BY <1>2 DEF Landing
<1>8. /\ IsFiniteSet(Landing(n)) /\ Cardinality(Landing(n)) \in Nat
      /\ \A a \in Landing(n) : a \in Int
  BY <1>1, CountRange
<1> HIDE DEF T, Kept, Lost
<1>9. /\ IsFiniteSet(Kept) /\ IsFiniteSet(Lost) /\ Kept \cap Lost = {}
      /\ Landing(n) = Kept \cup Lost
      /\ Cardinality(Kept) \in Nat /\ Cardinality(Lost) \in Nat
  <2>1. Kept \subseteq Landing(n) /\ Lost \subseteq Landing(n)
    BY DEF Kept, Lost
  <2>2. IsFiniteSet(Kept) /\ IsFiniteSet(Lost)
    BY <1>8, <2>1, FS_Subset
  <2>3. Kept \cap Lost = {} /\ Landing(n) = Kept \cup Lost
    BY <1>8 DEF Kept, Lost
  <2> QED
    BY <2>2, <2>3, FS_CardinalityType
<1>10. Cardinality(Landing(n)) = Cardinality(Kept) + Cardinality(Lost)
  <2>1. Cardinality(Kept \cup Lost) = Cardinality(Kept) + Cardinality(Lost) - Cardinality(Kept \cap Lost)
    BY <1>9, FS_Union
  <2>2. Cardinality(Kept \cap Lost) = 0
    BY <1>9, FS_EmptySet
  <2> QED
    BY <1>9, <2>1, <2>2
<1>11. Cardinality(T) = Cardinality(Lost)
  <2> DEFINE f == [a \in Lost |-> [age |-> a, due |-> n]]
  <2>1. \A a \in Lost : f[a] \in T
    <3> TAKE a \in Lost
    <3> DEFINE u == [age |-> a, due |-> n]
    <3>1. f[a] = u /\ u.age = a /\ u.due = n
      OBVIOUS
    <3>2. /\ a > keep /\ rob[a].writes /\ rob[a].kind # "LOAD"
          /\ u \in Range(executing) \cup Range(wbFast)
      BY <1>7
    <3> HIDE DEF u, f
    <3> QED
      BY <1>6, <3>1, <3>2
  <2>2. ASSUME NEW a \in Lost, NEW b \in Lost, f[a] = f[b] PROVE a = b
    <3>1. f[a].age = a /\ f[b].age = b
      OBVIOUS
    <3> QED
      BY <2>2, <3>1
  <2>3. ASSUME NEW u \in T PROVE \E a \in Lost : f[a] = u
    <3>1. /\ u \in Range(executing) \cup Range(wbFast)
          /\ u.age > keep /\ rob[u.age].writes /\ rob[u.age].kind # "LOAD" /\ u.due = n
      BY <1>6
    <3>2. u.age \in 1 .. Len(rob) /\ u = [age |-> u.age, due |-> n]
      BY <1>5, <3>1
    <3>3. u.age \in Lost
      BY <1>7, <3>1, <3>2
    <3>4. f[u.age] = u
      BY <3>2, <3>3
    <3> QED
      BY <3>3, <3>4
  <2>4. Counts(f, Lost, T)
    BY <2>1, <2>2, <2>3 DEF Counts
  <2> HIDE DEF f
  <2> QED
    BY <1>9, <2>4, CountImage
<1>12. booked[Slot(n)] = Cardinality(Landing(n)) /\ booked[Slot(n)] \in 0 .. NumCdb
  BY <1>1, <1>2, <1>3 DEF Booked
<1>13. Released(keep)[Slot(n)] = Cardinality(Kept)
  BY <1>4, <1>9, <1>10, <1>11, <1>12
<1>14. Cardinality(Kept) \in 0 .. NumCdb
  BY <1>2, <1>9, <1>10, <1>12
<1> QED
  BY <1>13, <1>14 DEF Kept

\* The end of issue() keeps the invariant: recovery squashes every structure at the
\* same age.
LEMMA IssueEndKeeps ==
  ASSUME Inv, IssueEnd
  PROVE  Inv'
<1> DEFINE keep == IF offender = 0 THEN Len(rob) ELSE offender
           lost == IF blocked < slots THEN slots - blocked ELSE 0
           n == Len(rob)
<1>1. /\ TypeOK /\ Places /\ NoLostWakeup /\ OnTime /\ Booked /\ Covered /\ Choosing
      /\ stage = "issue" /\ stage' = "dispatch"
      /\ uncharged' = IF iq = <<>> THEN lost ELSE 0
      /\ rob' = SubSeq(rob, 1, keep)
      /\ iq' = Surviving(iq, keep) /\ executing' = Surviving(executing, keep)
      /\ wbFast' = Surviving(wbFast, keep) /\ wbSlow' = Surviving(wbSlow, keep)
      /\ booked' = Released(keep)
      /\ cand' = <<>> /\ blocked' = 0 /\ offender' = 0
      /\ slots' = IF offender = 0 THEN Width ELSE 0
      /\ unit' = unit /\ now' = now
  BY DEF Inv, IssueEnd
<1>2. /\ n \in Nat /\ n <= RobSize /\ DOMAIN rob = 1 .. n /\ rob \in Seq(InFlight)
      /\ \A i \in 1 .. n : rob[i].src1 \in 0 .. i - 1 /\ rob[i].src2 \in 0 .. i - 1
      /\ iq \in Seq(Waiting) /\ executing \in Seq(Pending)
      /\ wbFast \in Seq(Pending) /\ wbSlow \in Seq(Pending)
      /\ offender \in 0 .. n /\ slots \in 0 .. Width /\ blocked \in Nat
      /\ Width \in Nat /\ RobSize \in Nat /\ IqSize \in Nat
  <2>1. /\ n \in Nat /\ n <= RobSize /\ DOMAIN rob = 1 .. n
        /\ \A i \in 1 .. n : rob[i].src1 \in 0 .. i - 1 /\ rob[i].src2 \in 0 .. i - 1
    BY <1>1, RobFields
  <2>2. Width \in Nat /\ RobSize \in Nat /\ IqSize \in Nat
    BY Sizes
  <2>3. blocked \in Nat
    BY <1>1, <2>2 DEF TypeOK
  <2> QED
    BY <1>1, <2>1, <2>2, <2>3 DEF TypeOK
<1>3. keep \in 0 .. n /\ keep \in Nat
  BY <1>2
<1>4. lost \in 0 .. Width /\ slots' \in 0 .. Width
  BY <1>1, <1>2
<1> HIDE DEF keep, lost, n
<1>5. /\ rob' \in Seq(InFlight) /\ Len(rob') = keep /\ DOMAIN rob' = 1 .. keep
      /\ \A i \in 1 .. keep : rob'[i] = rob[i] /\ i \in 1 .. n
  <2>1. keep \in 0 .. Len(rob) /\ rob \in Seq(InFlight)
    BY <1>2, <1>3 DEF n
  <2>2. /\ SubSeq(rob, 1, keep) \in Seq(InFlight) /\ Len(SubSeq(rob, 1, keep)) = keep
        /\ \A i \in 1 .. keep : SubSeq(rob, 1, keep)[i] = rob[i]
    BY <2>1, SplitKeeps
  <2>3. DOMAIN rob' = 1 .. keep
    BY <1>1, <1>3, <2>2
  <2>4. \A i \in 1 .. keep : i \in 1 .. n
    BY <1>2, <1>3
  <2> QED
    BY <1>1, <2>2, <2>3, <2>4
<1>6. /\ iq' \in Seq(Waiting) /\ Len(iq') <= Len(iq)
      /\ Range(iq') = {u \in Range(iq) : u.age <= keep}
      /\ Ages(iq') = {a \in Ages(iq) : a <= keep}
      /\ Distinct(iq) => Distinct(iq')
  BY <1>1, <1>2, SurvivingFacts
<1>7. /\ executing' \in Seq(Pending)
      /\ Range(executing') = {u \in Range(executing) : u.age <= keep}
      /\ Ages(executing') = {a \in Ages(executing) : a <= keep}
      /\ Distinct(executing) => Distinct(executing')
  BY <1>1, <1>2, SurvivingFacts
<1>8. /\ wbFast' \in Seq(Pending)
      /\ Range(wbFast') = {u \in Range(wbFast) : u.age <= keep}
      /\ Ages(wbFast') = {a \in Ages(wbFast) : a <= keep}
      /\ Distinct(wbFast) => Distinct(wbFast')
  BY <1>1, <1>2, SurvivingFacts
<1>9. /\ wbSlow' \in Seq(Pending)
      /\ Ages(wbSlow') = {a \in Ages(wbSlow) : a <= keep}
      /\ Distinct(wbSlow) => Distinct(wbSlow')
  BY <1>1, <1>2, SurvivingFacts
<1>10. /\ now \in 0 .. Window - 1
       /\ \A m \in 0 .. Window - 1 :
            /\ booked'[Slot(m)] = Cardinality({a \in Landing(m) : a <= keep})
            /\ booked'[Slot(m)] \in 0 .. NumCdb
  <2>1. keep \in 0 .. Len(rob) /\ now \in 0 .. Window - 1
    BY <1>1, <1>3 DEF TypeOK, n
  <2> QED
    BY <1>1, <2>1, ReleasedExact
<1>11. booked' \in [0 .. Window - 1 -> 0 .. NumCdb]
  <2>1. \A s \in 0 .. Window - 1 : booked'[s] \in 0 .. NumCdb
    <3> TAKE s \in 0 .. Window - 1
    <3>1. PICK m \in 0 .. Window - 1 : Slot(m) = s
      BY <1>10, SlotFacts
    <3> QED
      BY <1>10, <3>1
  <2>2. booked' = [s \in 0 .. Window - 1 |-> booked'[s]]
    BY <1>1 DEF Released
  <2> QED
    BY <2>1, <2>2
<1>12. TypeOK'
  <2>1. \A i \in DOMAIN rob' : rob'[i].src1 < i /\ rob'[i].src2 < i
    BY <1>2, <1>5
  <2>2. Len(iq') <= IqSize
    BY <1>1, <1>2, <1>6 DEF TypeOK
  <2>3. Len(rob') <= RobSize
    BY <1>2, <1>3, <1>5
  <2>4. uncharged' \in 0 .. Width
    BY <1>1, <1>2, <1>4
  <2>5. offender' \in 0 .. Len(rob') /\ blocked' \in 0 .. IqSize
    BY <1>1, <1>2, <1>3, <1>5
  <2>6. cand' \in Seq(1 .. RobSize)
    BY <1>1
  <2> QED
    BY <1>1, <1>4, <1>5, <1>6, <1>7, <1>8, <1>9, <1>10, <1>11, <2>1, <2>2, <2>3, <2>4, <2>5, <2>6
       DEF TypeOK
<1>13. Places'
  <2> DEFINE I == Ages(iq)
             E == Ages(executing)
             F == Ages(wbFast)
             S == Ages(wbSlow)
             Y == {a \in DOMAIN rob : ~rob[a].complete}
             Cut(A) == {a \in A : a <= keep}
  <2>1. /\ Distinct(iq) /\ Distinct(executing) /\ Distinct(wbFast) /\ Distinct(wbSlow)
        /\ I \cap E = {} /\ I \cap F = {} /\ I \cap S = {} /\ E \cap F = {} /\ E \cap S = {}
        /\ F \cap S = {} /\ I \cup E \cup F \cup S = Y
    BY <1>1 DEF Places
  <2>2. {a \in DOMAIN rob' : ~rob'[a].complete} = Cut(Y)
    BY <1>2, <1>3, <1>5
  <2>3. /\ Ages(iq') = Cut(I) /\ Ages(executing') = Cut(E)
        /\ Ages(wbFast') = Cut(F) /\ Ages(wbSlow') = Cut(S)
    BY <1>6, <1>7, <1>8, <1>9
  <2> HIDE DEF I, E, F, S, Y
  <2>4. /\ Cut(I) \cap Cut(E) = {} /\ Cut(I) \cap Cut(F) = {} /\ Cut(I) \cap Cut(S) = {}
        /\ Cut(E) \cap Cut(F) = {} /\ Cut(E) \cap Cut(S) = {} /\ Cut(F) \cap Cut(S) = {}
    BY <2>1
  <2>5. Cut(I) \cup Cut(E) \cup Cut(F) \cup Cut(S) = Cut(Y)
    BY <2>1
  <2> HIDE DEF Cut
  <2> QED
    BY <1>6, <1>7, <1>8, <1>9, <2>1, <2>2, <2>3, <2>4, <2>5 DEF Places
<1>14. NoLostWakeup'
  <2>1. \A e \in Range(iq) : Heard(e)
    BY <1>1, WakeupByEntry DEF AllHeard
  <2>2. ASSUME NEW e \in Range(iq') PROVE Heard(e)'
    <3>1. e \in Range(iq) /\ e.age <= keep
      BY <1>6
    <3>2. e.age \in 1 .. n
      BY <1>1, <3>1, PlaceFacts DEF n
    <3>3. e.age \in 1 .. keep
      BY <1>3, <3>1, <3>2
    <3>4. rob'[e.age] = rob[e.age] /\ rob[e.age].src1 \in 0 .. e.age - 1 /\ rob[e.age].src2 \in 0 .. e.age - 1
      BY <1>2, <1>5, <3>2, <3>3
    <3>5. \A i \in 0 .. e.age - 1 : i = 0 \/ i \in 1 .. keep
      BY <1>3, <3>3
    <3>6. \A i \in 0 .. e.age - 1 : i = 0 \/ rob'[i] = rob[i]
      BY <1>5, <3>5
    <3>7. Heard(e)
      BY <2>1, <3>1
    <3> QED
      BY <3>4, <3>6, <3>7 DEF Heard
  <2>3. AllHeard'
    BY <2>2 DEF AllHeard
  <2>4. NoLostWakeup' <=> AllHeard'
    BY WakeupByEntry, PTL
  <2> QED
    BY <2>3, <2>4
<1>15. OnTime'
  <2>1. /\ \A u \in Range(executing) : u.due >= 2
        /\ \A u \in Range(wbFast) : rob[u.age].kind # "LOAD" /\ u.due = 1
    BY <1>1 DEF OnTime
  <2>2. \A u \in Range(wbFast') : rob'[u.age] = rob[u.age]
    <3> TAKE u \in Range(wbFast')
    <3>1. u \in Range(wbFast) /\ u.age <= keep
      BY <1>8
    <3>2. u.age \in 1 .. n
      BY <1>1, <3>1, PlaceFacts DEF n
    <3>3. u.age \in 1 .. keep
      BY <1>3, <3>1, <3>2
    <3> QED
      BY <1>5, <3>3
  <2> QED
    BY <1>1, <1>7, <1>8, <2>1, <2>2 DEF OnTime
<1>16. Booked'
  <2>1. ASSUME NEW m PROVE Landing(m)' = {a \in Landing(m) : a <= keep}
    <3>1. Landing(m)' = {a \in 1 .. keep :
            /\ rob[a].writes /\ rob[a].kind # "LOAD"
            /\ [age |-> a, due |-> m] \in Range(executing') \cup Range(wbFast')}
      BY <1>5 DEF Landing
    <3>2. \A a : a <= keep =>
            ([age |-> a, due |-> m] \in Range(executing') \cup Range(wbFast')
               <=> [age |-> a, due |-> m] \in Range(executing) \cup Range(wbFast))
      <4> SUFFICES ASSUME NEW u, u.age <= keep
                   PROVE  u \in Range(executing') \cup Range(wbFast')
                            <=> u \in Range(executing) \cup Range(wbFast)
        OBVIOUS
      <4> QED
        BY <1>7, <1>8
    <3>3. \A a : a \in 1 .. keep <=> (a \in 1 .. n /\ a <= keep)
      BY <1>2, <1>3
    <3> QED
      BY <1>2, <3>1, <3>2, <3>3 DEF Landing
  <2>2. ASSUME NEW m \in 0 .. Window - 1 PROVE booked'[Slot(m)] = Cardinality(Landing(m)')
    BY <1>10, <2>1
  <2> QED
    BY <1>1, <2>2 DEF Booked, Slot
<1>17. Covered'
  <2> SUFFICES ASSUME NEW c \in Class \ {"MUL"}, NEW t \in Nat \ {0}
               PROVE  Cardinality(Occupants(c, t)') <= Cardinality(Busy(c, t)')
    BY DEF Covered
  <2>1. Occupants(c, t)' \subseteq Occupants(c, t)
    <3>1. Range(executing') \subseteq Range(executing)
      BY <1>7
    <3> QED
      BY <1>2, <1>5, <3>1 DEF Occupants
  <2>2. Busy(c, t)' = Busy(c, t)
    BY <1>1 DEF Busy
  <2>3. /\ IsFiniteSet(Occupants(c, t)) /\ Cardinality(Occupants(c, t)) \in Nat
        /\ Cardinality(Busy(c, t)) \in Nat
        /\ Cardinality(Occupants(c, t)) <= Cardinality(Busy(c, t))
    BY <1>1, CountRange DEF Covered
  <2>4. /\ Cardinality(Occupants(c, t)') \in Nat
        /\ Cardinality(Occupants(c, t)') <= Cardinality(Occupants(c, t))
    BY <2>1, <2>3, FS_Subset, FS_CardinalityType
  <2> QED
    BY <2>2, <2>3, <2>4
<1>18. Choosing'
  BY <1>1 DEF Choosing
<1> QED
  BY <1>12, <1>13, <1>14, <1>15, <1>16, <1>17, <1>18 DEF Inv

-----------------------------------------------------------------------------
(* Dispatch. *)

\* dispatch() keeps the invariant: the newcomer is the youngest, nobody waits for it
\* yet, and it hears of what has completed so far.
LEMMA DispatchKeeps ==
  ASSUME Inv, NEW d \in Supply, NEW src1 \in 0 .. Len(rob), NEW src2 \in 0 .. Len(rob),
         Dispatch(d, src1, src2)
  PROVE  Inv'
<1> DEFINE n == Len(rob)
           r == [kind |-> d.kind, writes |-> d.writes,
                 src1 |-> src1, src2 |-> src2, complete |-> FALSE]
           e == [age |-> n + 1, ready1 |-> Sampled(src1), ready2 |-> Sampled(src2)]
<1>1. /\ TypeOK /\ Places /\ NoLostWakeup /\ OnTime /\ Booked /\ Covered /\ Choosing
      /\ stage = "dispatch" /\ stage' = stage /\ slots > 0 /\ n < RobSize /\ Len(iq) < IqSize
      /\ rob' = Append(rob, r) /\ iq' = Append(iq, e) /\ slots' = slots - 1
      /\ unit' = unit /\ booked' = booked /\ now' = now /\ executing' = executing
      /\ wbFast' = wbFast /\ wbSlow' = wbSlow /\ cand' = cand /\ blocked' = blocked
      /\ offender' = offender /\ uncharged' = uncharged
  BY DEF Inv, Dispatch
<1>2. /\ n \in Nat /\ n <= RobSize /\ DOMAIN rob = 1 .. n /\ rob \in Seq(InFlight)
      /\ \A i \in 1 .. n : rob[i].src1 \in 0 .. i - 1 /\ rob[i].src2 \in 0 .. i - 1
      /\ iq \in Seq(Waiting) /\ Len(iq) \in Nat /\ slots \in 0 .. Width /\ offender \in 0 .. n
      /\ Width \in Nat /\ RobSize \in Nat /\ IqSize \in Nat
  <2>1. /\ n \in Nat /\ n <= RobSize /\ DOMAIN rob = 1 .. n
        /\ \A i \in 1 .. n : rob[i].src1 \in 0 .. i - 1 /\ rob[i].src2 \in 0 .. i - 1
    BY <1>1, RobFields
  <2>2. Width \in Nat /\ RobSize \in Nat /\ IqSize \in Nat
    BY Sizes
  <2> QED
    BY <1>1, <2>1, <2>2 DEF TypeOK
<1>3. r \in InFlight
  <2>1. d.kind \in Kind /\ d.writes \in BOOLEAN
    BY Sizes
  <2>2. src1 \in 0 .. RobSize /\ src2 \in 0 .. RobSize
    BY <1>2
  <2> QED
    BY <2>1, <2>2 DEF InFlight
<1>4. Sampled(src1) \in BOOLEAN /\ Sampled(src2) \in BOOLEAN
  <2>1. \A i \in 1 .. n : rob[i].complete \in BOOLEAN
    BY <1>1, RobFields
  <2>2. src1 = 0 \/ src1 \in 1 .. n
    BY <1>2
  <2>3. src2 = 0 \/ src2 \in 1 .. n
    BY <1>2
  <2> QED
    BY <2>1, <2>2, <2>3 DEF Sampled
<1>5. e \in Waiting /\ e.age = n + 1
  <2>1. n + 1 \in 1 .. RobSize
    BY <1>1, <1>2
  <2> QED
    BY <1>4, <2>1 DEF Waiting
<1>6. r.src1 = src1 /\ r.src2 = src2 /\ r.complete = FALSE
      /\ e.ready1 = Sampled(src1) /\ e.ready2 = Sampled(src2)
  OBVIOUS
<1>7. src1 \in 0 .. n /\ src2 \in 0 .. n
  OBVIOUS
<1> HIDE DEF n, r, e
<1>8. /\ rob' \in Seq(InFlight) /\ Len(rob') = n + 1 /\ DOMAIN rob' = 1 .. n + 1
      /\ \A i \in 1 .. n : rob'[i] = rob[i]
      /\ rob'[n + 1] = r
  <2>1. n = Len(rob)
    BY DEF n
  <2> QED
    BY <1>1, <1>2, <1>3, <2>1
<1>9. \A a \in Ages(iq) \cup Ages(executing) \cup Ages(wbFast) \cup Ages(wbSlow) : a \in 1 .. n
  BY <1>1, PlaceFacts DEF n
<1>10. n + 1 \notin 1 .. n
  BY <1>2
<1>11. /\ iq' \in Seq(Waiting) /\ Len(iq') = Len(iq) + 1 /\ Range(iq') = Range(iq) \cup {e}
       /\ Ages(iq') = Ages(iq) \cup {n + 1} /\ Distinct(iq')
  <2>1. /\ Append(iq, e) \in Seq(Waiting) /\ Len(Append(iq, e)) = Len(iq) + 1
        /\ Range(Append(iq, e)) = Range(iq) \cup {e}
        /\ Distinct(iq) /\ (\A v \in Range(iq) : v.age # e.age) => Distinct(Append(iq, e))
    BY <1>2, <1>5, AppendKeeps
  <2>2. \A v \in Range(iq) : v.age # e.age
    <3>1. \A v \in Range(iq) : v.age \in Ages(iq)
      BY <1>1, PlaceFacts
    <3> QED
      BY <1>5, <1>9, <1>10, <3>1
  <2>3. Distinct(iq)
    BY <1>1 DEF Places
  <2>4. Range(iq') = Range(iq) \cup {e}
    BY <1>1, <2>1
  <2>5. Ages(iq') = Ages(iq) \cup {n + 1}
    <3>1. Ages(iq') = {v.age : v \in Range(iq')} /\ Ages(iq) = {v.age : v \in Range(iq)}
      BY AgesRange
    <3> QED
      BY <1>5, <2>4, <3>1
  <2> QED
    BY <1>1, <2>1, <2>2, <2>3, <2>4, <2>5
<1>12. TypeOK'
  <2>1. \A i \in DOMAIN rob' : rob'[i].src1 < i /\ rob'[i].src2 < i
    <3> SUFFICES ASSUME NEW i \in 1 .. n + 1 PROVE rob'[i].src1 < i /\ rob'[i].src2 < i
      BY <1>8
    <3>1. CASE i \in 1 .. n
      BY <1>2, <1>8, <3>1
    <3>2. CASE i = n + 1
      BY <1>2, <1>6, <1>7, <1>8, <3>2
    <3> QED
      BY <1>2, <3>1, <3>2
  <2>2. Len(iq') <= IqSize /\ Len(rob') <= RobSize /\ slots' \in 0 .. Width
    BY <1>1, <1>2, <1>8, <1>11
  <2>3. offender' \in 0 .. Len(rob')
    BY <1>1, <1>2, <1>8
  <2> QED
    BY <1>1, <1>8, <1>11, <2>1, <2>2, <2>3 DEF TypeOK
<1>13. Places'
  <2> DEFINE I == Ages(iq)
             E == Ages(executing)
             F == Ages(wbFast)
             S == Ages(wbSlow)
             Y == {a \in 1 .. n : ~rob[a].complete}
  <2>1. /\ Distinct(executing) /\ Distinct(wbFast) /\ Distinct(wbSlow)
        /\ I \cap E = {} /\ I \cap F = {} /\ I \cap S = {} /\ E \cap F = {} /\ E \cap S = {}
        /\ F \cap S = {} /\ I \cup E \cup F \cup S = Y
    BY <1>1, <1>2 DEF Places
  <2>2. {a \in DOMAIN rob' : ~rob'[a].complete} = Y \cup {n + 1}
    <3>1. \A a \in 1 .. n + 1 : a \in 1 .. n \/ a = n + 1
      BY <1>2
    <3>2. \A a \in 1 .. n : a \in 1 .. n + 1
      BY <1>2
    <3>3. n + 1 \in 1 .. n + 1
      BY <1>2
    <3> QED
      BY <1>6, <1>8, <3>1, <3>2, <3>3
  <2>3. /\ Ages(iq') = I \cup {n + 1} /\ Ages(executing') = E
        /\ Ages(wbFast') = F /\ Ages(wbSlow') = S
        /\ Distinct(executing') /\ Distinct(wbFast') /\ Distinct(wbSlow')
    BY <1>1, <1>11, <2>1
  <2>4. n + 1 \notin E /\ n + 1 \notin F /\ n + 1 \notin S
    BY <1>9, <1>10
  <2> HIDE DEF I, E, F, S, Y
  <2>5. /\ (I \cup {n + 1}) \cap E = {} /\ (I \cup {n + 1}) \cap F = {} /\ (I \cup {n + 1}) \cap S = {}
        /\ (I \cup {n + 1}) \cup E \cup F \cup S = Y \cup {n + 1}
    BY <2>1, <2>4
  <2> QED
    BY <1>11, <2>1, <2>2, <2>3, <2>5 DEF Places
<1>14. NoLostWakeup'
  <2>1. \A v \in Range(iq) : Heard(v)
    BY <1>1, WakeupByEntry DEF AllHeard
  <2>2. ASSUME NEW v \in Range(iq) PROVE Heard(v)'
    <3>1. v.age \in 1 .. n
      BY <1>1, PlaceFacts DEF n
    <3>2. rob'[v.age] = rob[v.age] /\ rob[v.age].src1 \in 0 .. v.age - 1 /\ rob[v.age].src2 \in 0 .. v.age - 1
      BY <1>2, <1>8, <3>1
    <3>3. \A i \in 0 .. v.age - 1 : i = 0 \/ i \in 1 .. n
      BY <1>2, <3>1
    <3>4. \A i \in 0 .. v.age - 1 : i = 0 \/ rob'[i] = rob[i]
      BY <1>8, <3>3
    <3> QED
      BY <2>1, <3>2, <3>4 DEF Heard
  <2>3. ASSUME NEW w, w = e PROVE Heard(w)'
    <3>1. \A i \in 0 .. n : i = 0 \/ i \in 1 .. n
      BY <1>2
    <3>2. \A i \in 0 .. n : i = 0 \/ rob'[i] = rob[i]
      BY <1>8, <3>1
    <3>3. rob'[e.age].src1 = src1 /\ rob'[e.age].src2 = src2
      BY <1>5, <1>6, <1>8
    <3>4. /\ e.ready1 = (src1 = 0 \/ rob'[src1].complete)
          /\ e.ready2 = (src2 = 0 \/ rob'[src2].complete)
      BY <1>6, <1>7, <3>2 DEF Sampled
    <3> QED
      BY <2>3, <3>3, <3>4 DEF Heard
  <2>4. AllHeard'
    <3> SUFFICES ASSUME NEW w \in Range(iq') PROVE Heard(w)'
      BY DEF AllHeard
    <3>1. w \in Range(iq) \/ w = e
      BY <1>11
    <3> QED
      BY <2>2, <2>3, <3>1
  <2>5. NoLostWakeup' <=> AllHeard'
    BY WakeupByEntry, PTL
  <2> QED
    BY <2>4, <2>5
<1>15. \A u \in Range(executing) \cup Range(wbFast) : u.age \in 1 .. n /\ rob'[u.age] = rob[u.age]
  BY <1>1, <1>8, PlaceFacts DEF n
<1>16. OnTime'
  BY <1>1, <1>15 DEF OnTime, Range
<1>17. \A a : \A m : [age |-> a, due |-> m] \in Range(executing) \cup Range(wbFast)
                 => a \in 1 .. n /\ a \in 1 .. n + 1 /\ rob'[a] = rob[a]
  <2> SUFFICES ASSUME NEW a, NEW m, [age |-> a, due |-> m] \in Range(executing) \cup Range(wbFast)
               PROVE  a \in 1 .. n /\ a \in 1 .. n + 1 /\ rob'[a] = rob[a]
    OBVIOUS
  <2> DEFINE u == [age |-> a, due |-> m]
  <2>1. u \in Range(executing) \cup Range(wbFast) /\ u.age = a
    OBVIOUS
  <2> HIDE DEF u
  <2>2. a \in 1 .. n /\ rob'[a] = rob[a]
    BY <1>15, <2>1
  <2>3. a \in 1 .. n + 1
    BY <1>2, <2>2
  <2> QED
    BY <2>2, <2>3
<1>18. Range(executing') = Range(executing) /\ Range(wbFast') = Range(wbFast)
  BY <1>1
<1>19. Booked'
  <2>1. \A m : Landing(m)' = Landing(m)
    BY <1>2, <1>8, <1>17, <1>18 DEF Landing
  <2> QED
    BY <1>1, <2>1 DEF Booked, Slot
<1>20. Covered'
  <2>1. ASSUME NEW c, NEW t PROVE Occupants(c, t)' = Occupants(c, t)
    BY <1>2, <1>8, <1>17, <1>18 DEF Occupants
  <2>2. \A c \in Class : \A t : Busy(c, t)' = Busy(c, t)
    BY <1>1 DEF Busy
  <2> QED
    BY <1>1, <2>1, <2>2 DEF Covered
<1>21. Choosing'
  BY <1>1 DEF Choosing
<1> QED
  BY <1>12, <1>13, <1>14, <1>16, <1>19, <1>20, <1>21 DEF Inv

\* What the structures hold does not depend on the stage.
LEMMA SamePlaces ==
  ASSUME Inv, rob' = rob, iq' = iq, unit' = unit, booked' = booked, now' = now,
         executing' = executing, wbFast' = wbFast, wbSlow' = wbSlow
  PROVE  Places' /\ NoLostWakeup' /\ Booked' /\ Covered'
<1>1. Places /\ NoLostWakeup /\ Booked /\ Covered
  BY DEF Inv
<1>2. /\ Ages(iq') = Ages(iq) /\ Ages(executing') = Ages(executing)
      /\ Ages(wbFast') = Ages(wbFast) /\ Ages(wbSlow') = Ages(wbSlow)
      /\ Distinct(iq') <=> Distinct(iq)
      /\ Distinct(executing') <=> Distinct(executing)
      /\ Distinct(wbFast') <=> Distinct(wbFast)
      /\ Distinct(wbSlow') <=> Distinct(wbSlow)
      /\ {a \in DOMAIN rob' : ~rob'[a].complete} = {a \in DOMAIN rob : ~rob[a].complete}
  OBVIOUS
<1>3. Places'
  BY <1>1, <1>2 DEF Places
<1>4. NoLostWakeup'
  BY <1>1 DEF NoLostWakeup
<1>5. Booked'
  BY <1>1 DEF Booked, Slot, Landing, Range
<1>6. Covered'
  <2>1. \A c, t : Occupants(c, t)' = Occupants(c, t)
    BY DEF Occupants, Range
  <2>2. \A c, t : Busy(c, t)' = Busy(c, t)
    BY DEF Busy
  <2> QED
    BY <1>1, <2>1, <2>2 DEF Covered
<1> QED
  BY <1>3, <1>4, <1>5, <1>6

\* The end of the cycle keeps the invariant.
LEMMA CycleEndKeeps ==
  ASSUME Inv, CycleEnd
  PROVE  Inv'
<1>1. /\ TypeOK /\ OnTime /\ Choosing
      /\ stage = "dispatch" /\ stage' = "commit" /\ slots' = 0
      /\ rob' = rob /\ iq' = iq /\ unit' = unit /\ booked' = booked /\ now' = now
      /\ executing' = executing /\ wbFast' = wbFast /\ wbSlow' = wbSlow
      /\ cand' = cand /\ blocked' = blocked /\ offender' = offender /\ uncharged' = uncharged
  BY DEF Inv, CycleEnd
<1>2. TypeOK'
  <2>1. slots' \in 0 .. Width
    BY <1>1, Sizes
  <2> QED
    BY <1>1, <2>1 DEF TypeOK
<1>3. OnTime' /\ Choosing'
  BY <1>1 DEF OnTime, Choosing, Range
<1> QED
  BY <1>1, <1>2, <1>3, SamePlaces DEF Inv

\* A step that changes nothing.
LEMMA StutterKeeps ==
  ASSUME Inv, UNCHANGED vars
  PROVE  Inv'
<1>1. /\ TypeOK /\ OnTime /\ Choosing
      /\ stage' = stage /\ slots' = slots
      /\ rob' = rob /\ iq' = iq /\ unit' = unit /\ booked' = booked /\ now' = now
      /\ executing' = executing /\ wbFast' = wbFast /\ wbSlow' = wbSlow
      /\ cand' = cand /\ blocked' = blocked /\ offender' = offender /\ uncharged' = uncharged
  BY DEF Inv, vars, loop
<1>2. TypeOK'
  BY <1>1 DEF TypeOK
<1>3. OnTime' /\ Choosing'
  BY <1>1 DEF OnTime, Choosing, Range, Ages
<1> QED
  BY <1>1, <1>2, <1>3, SamePlaces DEF Inv

\* An empty back end, every unit free and no port booked.
LEMMA Starting ==
  ASSUME Init
  PROVE  Inv
<1>1. /\ rob = <<>> /\ iq = <<>>
      /\ unit = [c \in Class |-> [u \in 1 .. Units[c] |-> 0]]
      /\ booked = [s \in 0 .. Window - 1 |-> 0] /\ now = 0
      /\ executing = <<>> /\ wbFast = <<>> /\ wbSlow = <<>>
      /\ stage = "commit"
      /\ cand = <<>> /\ slots = 0 /\ blocked = 0 /\ offender = 0
      /\ uncharged = 0
  BY DEF Init
<1>2. /\ Window \in Nat \ {0} /\ NumCdb \in Nat /\ IqSize \in Nat /\ RobSize \in Nat /\ Width \in Nat
      /\ Longest \in Nat
  BY Sizes
<1>3. /\ Len(rob) = 0 /\ Len(iq) = 0 /\ DOMAIN rob = {} /\ DOMAIN iq = {} /\ DOMAIN cand = {}
      /\ rob \in Seq(InFlight) /\ iq \in Seq(Waiting) /\ cand \in Seq(1 .. RobSize)
      /\ executing \in Seq(Pending) /\ wbFast \in Seq(Pending) /\ wbSlow \in Seq(Pending)
  BY <1>1
<1>4. TypeOK
  <2>1. booked \in [0 .. Window - 1 -> 0 .. NumCdb] /\ now \in 0 .. Window - 1
    BY <1>1, <1>2
  <2>2. DOMAIN unit = Class /\ \A c \in Class : unit[c] \in [1 .. Units[c] -> 0 .. Longest]
    BY <1>1, <1>2
  <2> QED
    BY <1>1, <1>2, <1>3, <2>1, <2>2 DEF TypeOK
<1>5. /\ Range(executing) = {} /\ Range(wbFast) = {}
      /\ Ages(iq) = {} /\ Ages(executing) = {} /\ Ages(wbFast) = {} /\ Ages(wbSlow) = {}
      /\ Distinct(iq) /\ Distinct(executing) /\ Distinct(wbFast) /\ Distinct(wbSlow)
  BY <1>1 DEF Range, Ages, Distinct
<1>6. Places
  BY <1>3, <1>5 DEF Places
<1>7. NoLostWakeup /\ OnTime /\ Choosing
  BY <1>1, <1>3, <1>5 DEF NoLostWakeup, OnTime, Choosing
<1>8. Booked
  <2>1. \A n : Landing(n) = {}
    BY <1>3 DEF Landing
  <2>2. \A n \in 0 .. Window - 1 : booked[Slot(n)] = 0
    <3>1. now \in 0 .. Window - 1
      BY <1>1, <1>2
    <3> QED
      BY <1>1, <3>1, SlotFacts
  <2> QED
    BY <2>1, <2>2, FS_EmptySet DEF Booked
<1>9. Covered
  <2>1. \A c, t : Occupants(c, t) = {}
    BY <1>3 DEF Occupants
  <2>2. \A c \in Class : \A t : Cardinality(Busy(c, t)) \in Nat
    BY <1>4, CountRange
  <2> QED
    BY <2>1, <2>2, FS_EmptySet DEF Covered
<1> QED
  BY <1>4, <1>6, <1>7, <1>8, <1>9 DEF Inv

-----------------------------------------------------------------------------
(* The theorems. *)

\* Every stage keeps the invariant.
LEMMA InvHolds == Spec => []Inv
<1>1. Inv /\ [Next]_vars => Inv'
  <2> SUFFICES ASSUME Inv, [Next]_vars PROVE Inv'
    OBVIOUS
  <2>1. CASE Commit
    BY <2>1, CommitKeeps
  <2>2. CASE Writeback
    BY <2>2, WritebackKeeps
  <2>3. CASE Execute
    BY <2>3, ExecuteKeeps
  <2>4. CASE IssueNext
    BY <2>4, IssueNextKeeps
  <2>5. CASE IssueEnd
    BY <2>5, IssueEndKeeps
  <2>6. ASSUME NEW d \in Supply, NEW src1 \in 0 .. Len(rob), NEW src2 \in 0 .. Len(rob),
               Dispatch(d, src1, src2)
        PROVE  Inv'
    BY <2>6, DispatchKeeps
  <2>7. CASE CycleEnd
    BY <2>7, CycleEndKeeps
  <2>8. CASE UNCHANGED vars
    BY <2>8, StutterKeeps
  <2> QED
    BY <2>1, <2>2, <2>3, <2>4, <2>5, <2>6, <2>7, <2>8 DEF Next
<1> QED
  BY Starting, <1>1, PTL DEF Spec

\* The positions of a queue that hold an operation: one at most.
LEMMA AgeCount ==
  ASSUME NEW s, Distinct(s), NEW a
  PROVE  Cardinality({i \in DOMAIN s : s[i].age = a}) = IF a \in Ages(s) THEN 1 ELSE 0
<1> DEFINE T == {i \in DOMAIN s : s[i].age = a}
<1>1. CASE a \in Ages(s)
  <2>1. PICK i \in DOMAIN s : s[i].age = a
    BY <1>1 DEF Ages
  <2>2. T = {i}
    BY <2>1 DEF Distinct
  <2>3. Cardinality({i}) = 1
    BY FS_Singleton
  <2> QED
    BY <1>1, <2>2, <2>3
<1>2. CASE a \notin Ages(s)
  <2>1. T = {}
    BY <1>2 DEF Ages
  <2> QED
    BY <1>2, <2>1, FS_EmptySet
<1> QED
  BY <1>1, <1>2

\* Places says it by age, OnePlace by counting.
LEMMA PlacesCount ==
  ASSUME Inv
  PROVE  OnePlace
<1>1. TypeOK /\ Places
  BY DEF Inv
<1>2. DOMAIN rob = 1 .. Len(rob)
  BY <1>1, RobFields
<1>3. ASSUME NEW a \in DOMAIN rob
      PROVE  Holders(a) = IF rob[a].complete THEN 0 ELSE 1
  <2>1. /\ Cardinality({i \in DOMAIN iq : iq[i].age = a}) = IF a \in Ages(iq) THEN 1 ELSE 0
        /\ Cardinality({i \in DOMAIN executing : executing[i].age = a})
             = IF a \in Ages(executing) THEN 1 ELSE 0
        /\ Cardinality({i \in DOMAIN wbFast : wbFast[i].age = a})
             = IF a \in Ages(wbFast) THEN 1 ELSE 0
        /\ Cardinality({i \in DOMAIN wbSlow : wbSlow[i].age = a})
             = IF a \in Ages(wbSlow) THEN 1 ELSE 0
    BY <1>1, AgeCount DEF Places
  <2>2. /\ ~rob[a].complete <=> a \in Ages(iq) \cup Ages(executing) \cup Ages(wbFast) \cup Ages(wbSlow)
        /\ ~(a \in Ages(iq) /\ a \in Ages(executing)) /\ ~(a \in Ages(iq) /\ a \in Ages(wbFast))
        /\ ~(a \in Ages(iq) /\ a \in Ages(wbSlow)) /\ ~(a \in Ages(executing) /\ a \in Ages(wbFast))
        /\ ~(a \in Ages(executing) /\ a \in Ages(wbSlow)) /\ ~(a \in Ages(wbFast) /\ a \in Ages(wbSlow))
    BY <1>1 DEF Places
  <2> QED
    BY <2>1, <2>2 DEF Holders
<1>4. Ages(iq) \cup Ages(executing) \cup Ages(wbFast) \cup Ages(wbSlow) \subseteq DOMAIN rob
  BY <1>1, <1>2, PlaceFacts
<1> QED
  BY <1>3, <1>4 DEF OnePlace

\* Booked says it by age, BookingsExact by counting results.
LEMMA BookedCounts ==
  ASSUME Inv
  PROVE  BookingsExact
<1>1. TypeOK /\ Places /\ OnTime /\ Booked
  BY DEF Inv
<1> SUFFICES ASSUME NEW n \in 0 .. Window - 1
             PROVE  Cardinality(Landing(n)) = DueIn(n)
  BY <1>1 DEF BookingsExact, Booked
<1> DEFINE I == {i \in DOMAIN executing :
                   executing[i].due = n /\ rob[executing[i].age].writes
                     /\ rob[executing[i].age].kind # "LOAD"}
           J == {i \in DOMAIN wbFast : wbFast[i].due = n /\ rob[wbFast[i].age].writes}
           A == {executing[i].age : i \in I}
           B == {wbFast[i].age : i \in J}
<1>2. DueIn(n) = Cardinality(I) + Cardinality(J)
  BY DEF DueIn
<1>3. /\ executing \in Seq(Pending) /\ wbFast \in Seq(Pending)
      /\ Distinct(executing) /\ Distinct(wbFast) /\ Ages(executing) \cap Ages(wbFast) = {}
  BY <1>1 DEF TypeOK, Places
<1>4. \A u \in Range(wbFast) : rob[u.age].kind # "LOAD"
  BY <1>1 DEF OnTime
<1>5. \A u \in Range(executing) \cup Range(wbFast) :
        u.age \in DOMAIN rob /\ u = [age |-> u.age, due |-> u.due]
  <2> TAKE u \in Range(executing) \cup Range(wbFast)
  <2>1. u \in Pending /\ u.age \in 1 .. Len(rob)
    BY <1>1, PlaceFacts
  <2> QED
    BY <1>1, <2>1, PendingFacts, RobFields
<1>6. ASSUME NEW a \in Landing(n) PROVE a \in A \cup B
  <2> DEFINE u == [age |-> a, due |-> n]
  <2>1. /\ u.age = a /\ u.due = n /\ u \in Range(executing) \cup Range(wbFast)
        /\ rob[a].writes /\ rob[a].kind # "LOAD"
    BY DEF Landing
  <2> HIDE DEF u
  <2>2. CASE u \in Range(executing)
    <3>1. PICK i \in DOMAIN executing : u = executing[i]
      BY <2>2 DEF Range
    <3> QED
      BY <2>1, <3>1
  <2>3. CASE u \in Range(wbFast)
    <3>1. PICK i \in DOMAIN wbFast : u = wbFast[i]
      BY <2>3 DEF Range
    <3> QED
      BY <2>1, <3>1
  <2> QED
    BY <2>1, <2>2, <2>3
<1>7. ASSUME NEW i \in I PROVE executing[i].age \in Landing(n) /\ executing[i].age \in Ages(executing)
  <2> DEFINE u == executing[i]
  <2>1. u \in Range(executing) /\ u.due = n /\ rob[u.age].writes /\ rob[u.age].kind # "LOAD"
        /\ u.age \in Ages(executing)
    BY DEF Range, Ages
  <2> HIDE DEF u
  <2>2. u.age \in Landing(n)
    BY <1>5, <2>1 DEF Landing
  <2> QED
    BY <2>1, <2>2 DEF u
<1>8. ASSUME NEW i \in J PROVE wbFast[i].age \in Landing(n) /\ wbFast[i].age \in Ages(wbFast)
  <2> DEFINE u == wbFast[i]
  <2>1. u \in Range(wbFast) /\ u.due = n /\ rob[u.age].writes /\ u.age \in Ages(wbFast)
    BY DEF Range, Ages
  <2> HIDE DEF u
  <2>2. u.age \in Landing(n)
    BY <1>4, <1>5, <2>1 DEF Landing
  <2> QED
    BY <2>1, <2>2 DEF u
<1>9. I \in SUBSET (DOMAIN executing) /\ J \in SUBSET (DOMAIN wbFast)
  OBVIOUS
<1> HIDE DEF I, J
<1>10. A \subseteq Landing(n) /\ B \subseteq Landing(n) /\ A \cap B = {}
  <2>1. A \subseteq Landing(n) /\ A \subseteq Ages(executing)
    BY <1>7
  <2>2. B \subseteq Landing(n) /\ B \subseteq Ages(wbFast)
    BY <1>8
  <2>3. Ages(executing) \cap Ages(wbFast) = {}
    BY <1>3
  <2> HIDE DEF A, B
  <2> QED
    BY <2>1, <2>2, <2>3
<1>11. IsFiniteSet(A) /\ Cardinality(A) = Cardinality(I) /\ Cardinality(I) \in Nat
  <2>1. executing \in Seq(Pending) /\ Distinct(executing) /\ I \in SUBSET (DOMAIN executing)
    BY <1>3, <1>9
  <2>2. IsFiniteSet({executing[i].age : i \in I})
    BY <2>1, CountByAge
  <2>3. Cardinality({executing[i].age : i \in I}) = Cardinality(I)
    BY <2>1, CountByAge
  <2>4. Cardinality(I) \in Nat
    BY <2>1, CountByAge
  <2> QED
    BY <2>2, <2>3, <2>4
<1>12. IsFiniteSet(B) /\ Cardinality(B) = Cardinality(J) /\ Cardinality(J) \in Nat
  <2>1. wbFast \in Seq(Pending) /\ Distinct(wbFast) /\ J \in SUBSET (DOMAIN wbFast)
    BY <1>3, <1>9
  <2>2. IsFiniteSet({wbFast[i].age : i \in J})
    BY <2>1, CountByAge
  <2>3. Cardinality({wbFast[i].age : i \in J}) = Cardinality(J)
    BY <2>1, CountByAge
  <2>4. Cardinality(J) \in Nat
    BY <2>1, CountByAge
  <2> QED
    BY <2>2, <2>3, <2>4
<1> HIDE DEF A, B
<1>13. Landing(n) = A \cup B
  BY <1>6, <1>10
<1>14. Cardinality(A \cup B) = Cardinality(A) + Cardinality(B)
  <2>1. Cardinality(A \cup B) = Cardinality(A) + Cardinality(B) - Cardinality(A \cap B)
    BY <1>11, <1>12, FS_Union
  <2>2. Cardinality(A \cap B) = 0
    BY <1>10, FS_EmptySet
  <2> QED
    BY <1>11, <1>12, <2>1, <2>2
<1> QED
  BY <1>2, <1>11, <1>12, <1>13, <1>14

\* OnTime says more than BookedLands.
LEMMA OnTimeLands ==
  ASSUME Inv
  PROVE  BookedLands
<1>1. TypeOK /\ OnTime
  BY DEF Inv
<1>2. \A i \in DOMAIN executing : executing[i].due > 0
  <2> TAKE i \in DOMAIN executing
  <2>1. executing[i] \in Range(executing) /\ executing \in Seq(Pending)
    BY <1>1 DEF Range, TypeOK
  <2>2. executing[i] \in Pending
    BY <2>1, RangeFacts
  <2>3. executing[i].due \in 0 .. Longest /\ Longest \in Nat
    BY <2>2, PendingFacts, Sizes
  <2>4. executing[i].due >= 2 \/ executing[i].due >= 1
    BY <1>1, <2>1 DEF OnTime
  <2> QED
    BY <2>3, <2>4
<1>3. stage = "writeback" => \A i \in DOMAIN wbFast : wbFast[i].due = 0
  <2> SUFFICES ASSUME stage = "writeback", NEW i \in DOMAIN wbFast PROVE wbFast[i].due = 0
    OBVIOUS
  <2>1. wbFast[i] \in Range(wbFast)
    BY DEF Range
  <2> QED
    BY <1>1, <2>1 DEF OnTime
<1> QED
  BY <1>1, <1>2, <1>3 DEF BookedLands, OnTime

-----------------------------------------------------------------------------
(* What holds a unit. *)

\* The units of a class that are busy for exactly n more cycles.
Holding(c, n) == {u \in 1 .. Units[c] : unit[c][u] = n}

\* The operations begun, squashed since or not, and the units they hold.
Matched ==
  /\ working \in [Blocking -> [1 .. Longest -> Nat]]
  /\ \A c \in Blocking, n \in 1 .. Longest : working[c][n] = Cardinality(Holding(c, n))

\* A turn of issue() begins an operation and takes it a unit, or does neither.
LEMMA WorkTurns ==
  ASSUME Inv, IssueNext
  PROVE  LET k == rob[Head(cand)].kind
         IN /\ k \in Kind
            /\ \/ unit' = unit /\ working' = working
               \/ \E n \in 1 .. Longest, held \in 1 .. Longest :
                    /\ k \in Unitless \/ FreeUnits(k) # {}
                    /\ unit' = Taken(k, held) /\ working' = Begun(k, n)
                    /\ k # "MUL" => held = n
<1> DEFINE a == Head(cand)
           k == rob[a].kind
<1>1. /\ TypeOK /\ Places /\ Choosing /\ stage = "issue" /\ cand # <<>>
  BY DEF Inv, IssueNext
<1>2. a \in 1 .. Len(rob)
  <2>1. cand \in Seq(1 .. RobSize)
    BY <1>1 DEF TypeOK
  <2>2. 1 \in DOMAIN cand /\ a = cand[1]
    BY <1>1, <2>1
  <2>3. a \in Ages(iq)
    BY <1>1, <2>2 DEF Choosing
  <2> QED
    BY <1>1, <2>3, PlaceFacts
<1>3. k \in Kind
  BY <1>1, <1>2, RobFields
<1>4. /\ Longest \in Nat \ {0} /\ \A x \in Kind : Latency[x] \in 1 .. Longest
      /\ "LOAD" \in Kind /\ "LOAD" \notin Unitless /\ 1 \in 1 .. Longest
  BY Sizes DEF Kind, Unitless
<1>5. IF k \notin Unitless /\ FreeUnits(k) = {}
        THEN TurnedAway /\ UNCHANGED <<unit, working>>
        ELSE IF k = "LOAD" THEN IssueLoad(a) ELSE IssueOther(a)
  BY DEF IssueNext
<1>6. CASE k \notin Unitless /\ FreeUnits(k) = {}
  BY <1>3, <1>5, <1>6
<1>7. CASE ~(k \notin Unitless /\ FreeUnits(k) = {}) /\ k = "LOAD"
  <2>1. IssueLoad(a) /\ FreeUnits(k) # {}
    BY <1>4, <1>5, <1>7
  <2>2. \E n \in 1 .. Longest : unit' = Taken("LOAD", n) /\ working' = Begun("LOAD", n)
    BY <1>4, <2>1 DEF IssueLoad
  <2> QED
    BY <1>3, <1>7, <2>1, <2>2
<1>8. CASE ~(k \notin Unitless /\ FreeUnits(k) = {}) /\ k # "LOAD"
  <2> DEFINE lat == Latency[k]
  <2>1. IssueOther(a) /\ (k \in Unitless \/ FreeUnits(k) # {})
    BY <1>5, <1>8
  <2>2. \/ unit' = unit /\ working' = working
        \/ unit' = Taken(k, Held(k, lat)) /\ working' = Begun(k, lat)
    BY <2>1 DEF IssueOther
  <2>3. lat \in 1 .. Longest /\ Held(k, lat) \in 1 .. Longest /\ (k # "MUL" => Held(k, lat) = lat)
    BY <1>3, <1>4 DEF Held
  <2> QED
    BY <1>3, <2>1, <2>2, <2>3
<1> QED
  BY <1>6, <1>7, <1>8

\* One more is counted in one place.
LEMMA OneMore ==
  ASSUME NEW f \in [1 .. Longest -> Nat], NEW n \in 1 .. Longest
  PROVE  /\ [f EXCEPT ![n] = @ + 1] \in [1 .. Longest -> Nat]
         /\ \A m \in 1 .. Longest : [f EXCEPT ![n] = @ + 1][m] = IF m = n THEN f[m] + 1 ELSE f[m]
<1>1. f[n] + 1 \in Nat
  OBVIOUS
<1> QED
  BY <1>1

\* One more operation begun in a blocking class is one more unit held, as long.
LEMMA TakenMatches ==
  ASSUME TypeOK, Matched, NEW k \in Kind, k \in Unitless \/ FreeUnits(k) # {},
         NEW n \in 1 .. Longest, NEW held \in 1 .. Longest, k # "MUL" => held = n,
         unit' = Taken(k, held), working' = Begun(k, n)
  PROVE  Matched'
<1> DEFINE d == UnitOf(k)
<1>1. /\ \A c \in Blocking : c \in Class /\ c # "MUL"
      /\ "MUL" \notin Blocking /\ k \in Unitless => d \notin Blocking
  BY DEF Blocking, Class, Unitless, UnitOf
<1>2. Longest \in Nat \ {0} /\ held \in 0 .. Longest /\ held \in Nat \ {0}
  BY Sizes
<1>3. CASE k \in Unitless
  <2>1. unit' = unit /\ working' = working
    BY <1>1, <1>3 DEF Taken, Begun
  <2> QED
    BY <2>1 DEF Matched, Holding
<1>4. CASE k \notin Unitless
  <2>1. PICK w \in 1 .. Units[d] :
          /\ unit[d][w] = 0
          /\ \A c \in Class \ {d} : unit'[c] = unit[c]
          /\ unit'[d] = [unit[d] EXCEPT ![w] = held]
    BY <1>2, <1>4, TakenFacts
  <2>2. d \in Class
    BY <1>4, UnitClass
  <2>3. ASSUME NEW c \in Blocking, c # d, NEW m \in 1 .. Longest
        PROVE  Holding(c, m)' = Holding(c, m)
    BY <1>1, <2>1, <2>3 DEF Holding
  <2>4. CASE d \notin Blocking
    <3>1. working' = working
      BY <2>4 DEF Begun
    <3> QED
      BY <2>3, <2>4, <3>1 DEF Matched
  <2>5. CASE d \in Blocking
    <3>1. k # "MUL" /\ held = n
      BY <1>1, <2>5 DEF UnitOf
    <3>2. working' = [working EXCEPT ![d][n] = @ + 1]
      BY <2>5 DEF Begun
    <3>3. /\ working \in [Blocking -> [1 .. Longest -> Nat]]
          /\ \A c \in Blocking, m \in 1 .. Longest : working[c][m] = Cardinality(Holding(c, m))
      BY DEF Matched
    <3>4. /\ working' \in [Blocking -> [1 .. Longest -> Nat]]
          /\ \A c \in Blocking, m \in 1 .. Longest :
               working'[c][m] = IF c = d /\ m = n THEN working[c][m] + 1 ELSE working[c][m]
      <4> DEFINE row == [working[d] EXCEPT ![n] = @ + 1]
      <4>1. working[d] \in [1 .. Longest -> Nat]
        BY <2>5, <3>3
      <4>2. /\ row \in [1 .. Longest -> Nat]
            /\ \A m \in 1 .. Longest : row[m] = IF m = n THEN working[d][m] + 1 ELSE working[d][m]
        BY <4>1, OneMore
      <4>3. working' = [working EXCEPT ![d] = row]
        BY <3>2
      <4> HIDE DEF row, d
      <4> QED
        BY <2>5, <3>3, <4>2, <4>3
    <3>5. unit[d] \in [1 .. Units[d] -> 0 .. Longest]
      BY <2>2 DEF TypeOK
    <3>6. \A u \in 1 .. Units[d] : unit'[d][u] = IF u = w THEN n ELSE unit[d][u]
      BY <2>1, <3>1, <3>5
    <3>7. IsFiniteSet(Holding(d, n)) /\ w \notin Holding(d, n)
      <4>1. IsFiniteSet(1 .. Units[d])
        <5>1. 1 \in Int /\ Units[d] \in Int
          BY <2>2, Sizes
        <5> QED
          BY <5>1, FS_Interval
      <4>2. Holding(d, n) \in SUBSET (1 .. Units[d])
        BY DEF Holding
      <4>3. n # 0
        OBVIOUS
      <4> QED
        BY <2>1, <4>1, <4>2, <4>3, FS_Subset DEF Holding
    <3> HIDE DEF d
    <3>8. Holding(d, n)' = Holding(d, n) \cup {w}
      BY <3>6 DEF Holding
    <3>9. \A m \in (1 .. Longest) \ {n} : Holding(d, m)' = Holding(d, m)
      <4> TAKE m \in (1 .. Longest) \ {n}
      <4>1. m # 0 /\ m # n
        OBVIOUS
      <4> QED
        BY <2>1, <3>6, <4>1 DEF Holding
    <3>10. Cardinality(Holding(d, n)') = Cardinality(Holding(d, n)) + 1
      BY <3>7, <3>8, FS_AddElement
    <3>11. ASSUME NEW c \in Blocking, NEW m \in 1 .. Longest
           PROVE  working'[c][m] = Cardinality(Holding(c, m)')
      <4>1. CASE c # d
        BY <2>3, <3>3, <3>4, <4>1
      <4>2. CASE c = d /\ m # n
        BY <3>3, <3>4, <3>9, <4>2
      <4>3. CASE c = d /\ m = n
        BY <3>3, <3>4, <3>10, <4>3
      <4> QED
        BY <4>1, <4>2, <4>3
    <3> QED
      BY <3>4, <3>11 DEF Matched
  <2> QED
    BY <2>4, <2>5
<1> QED
  BY <1>3, <1>4

\* The clock takes a cycle off every operation and every unit.
LEMMA TickMatches ==
  ASSUME TypeOK, Matched, Commit
  PROVE  Matched'
<1>1. /\ unit' = [c \in Class |-> [u \in 1 .. Units[c] |->
                    IF unit[c][u] = 0 THEN 0 ELSE unit[c][u] - 1]]
      /\ working' = [c \in Blocking |-> [n \in 1 .. Longest |->
                       IF n = Longest THEN 0 ELSE working[c][n + 1]]]
  BY DEF Commit
<1>2. Longest \in Nat \ {0} /\ \A c \in Blocking : c \in Class
  BY Sizes DEF Blocking
<1>3. /\ working \in [Blocking -> [1 .. Longest -> Nat]]
      /\ \A c \in Blocking, n \in 1 .. Longest : working[c][n] = Cardinality(Holding(c, n))
  BY DEF Matched
<1>4. working' \in [Blocking -> [1 .. Longest -> Nat]]
  <2>1. \A c \in Blocking, n \in 1 .. Longest :
          (IF n = Longest THEN 0 ELSE working[c][n + 1]) \in Nat
    BY <1>2, <1>3
  <2> QED
    BY <1>1, <2>1
<1>5. ASSUME NEW c \in Blocking, NEW n \in 1 .. Longest
      PROVE  working'[c][n] = Cardinality(Holding(c, n)')
  <2>1. working'[c][n] = IF n = Longest THEN 0 ELSE working[c][n + 1]
    BY <1>1
  <2>2. \A u \in 1 .. Units[c] :
          /\ unit[c][u] \in 0 .. Longest
          /\ unit'[c][u] = IF unit[c][u] = 0 THEN 0 ELSE unit[c][u] - 1
    <3>1. unit[c] \in [1 .. Units[c] -> 0 .. Longest]
      BY <1>2 DEF TypeOK
    <3> QED
      BY <1>1, <1>2, <3>1
  <2>3. \A u \in 1 .. Units[c] : unit'[c][u] = n <=> unit[c][u] = n + 1
    <3> TAKE u \in 1 .. Units[c]
    <3>1. /\ unit[c][u] \in 0 .. Longest /\ n \in 1 .. Longest
          /\ unit'[c][u] = IF unit[c][u] = 0 THEN 0 ELSE unit[c][u] - 1
      BY <2>2
    <3> QED
      BY <1>2, <3>1
  <2>4. Holding(c, n)' = {u \in 1 .. Units[c] : unit[c][u] = n + 1}
    BY <2>3 DEF Holding
  <2>5. CASE n = Longest
    <3>1. \A u \in 1 .. Units[c] : unit[c][u] # n + 1
      <4> TAKE u \in 1 .. Units[c]
      <4>1. unit[c][u] \in 0 .. Longest
        BY <2>2
      <4> QED
        BY <1>2, <2>5, <4>1
    <3>2. Holding(c, n)' = {}
      BY <2>4, <3>1
    <3> QED
      BY <2>1, <2>5, <3>2, FS_EmptySet
  <2>6. CASE n # Longest
    <3>1. n + 1 \in 1 .. Longest
      BY <1>2, <2>6
    <3>2. Holding(c, n)' = Holding(c, n + 1)
      BY <2>4 DEF Holding
    <3> QED
      BY <1>3, <2>1, <2>6, <3>1, <3>2
  <2> QED
    BY <2>5, <2>6
<1> QED
  BY <1>4, <1>5 DEF Matched

\* A squash takes an operation out of the machine, not off its unit.
LEMMA MatchedHolds == Spec => []Matched
<1>1. Init => Matched
  <2> SUFFICES ASSUME Init PROVE Matched
    OBVIOUS
  <2>1. /\ working = [c \in Blocking |-> [n \in 1 .. Longest |-> 0]]
        /\ unit = [c \in Class |-> [u \in 1 .. Units[c] |-> 0]]
    BY DEF Init
  <2>2. ASSUME NEW c \in Blocking, NEW n \in 1 .. Longest
        PROVE  working[c][n] = Cardinality(Holding(c, n))
    <3>1. c \in Class /\ n # 0
      BY DEF Blocking
    <3>2. Holding(c, n) = {}
      BY <2>1, <3>1 DEF Holding
    <3> QED
      BY <2>1, <3>2, FS_EmptySet
  <2>3. working \in [Blocking -> [1 .. Longest -> Nat]]
    BY <2>1
  <2> QED
    BY <2>2, <2>3 DEF Matched
<1>2. Inv /\ Matched /\ [Next]_vars => Matched'
  <2> SUFFICES ASSUME Inv, Matched, [Next]_vars PROVE Matched'
    OBVIOUS
  <2>1. ASSUME unit' = unit, working' = working PROVE Matched'
    BY <2>1 DEF Matched, Holding
  <2>2. TypeOK
    BY DEF Inv
  <2>3. CASE Commit
    BY <2>2, <2>3, TickMatches
  <2>4. CASE IssueNext
    <3> DEFINE k == rob[Head(cand)].kind
    <3>1. /\ k \in Kind
          /\ \/ unit' = unit /\ working' = working
             \/ \E n \in 1 .. Longest, held \in 1 .. Longest :
                  /\ k \in Unitless \/ FreeUnits(k) # {}
                  /\ unit' = Taken(k, held) /\ working' = Begun(k, n)
                  /\ k # "MUL" => held = n
      BY <2>4, WorkTurns
    <3> HIDE DEF k
    <3> QED
      BY <2>1, <2>2, <3>1, TakenMatches
  <2>5. CASE Writeback
    BY <2>1, <2>5 DEF Writeback
  <2>6. CASE Execute
    BY <2>1, <2>6 DEF Execute
  <2>7. CASE IssueEnd
    BY <2>1, <2>7 DEF IssueEnd
  <2>8. ASSUME NEW d \in Supply, NEW src1 \in 0 .. Len(rob), NEW src2 \in 0 .. Len(rob),
               Dispatch(d, src1, src2)
        PROVE  Matched'
    BY <2>1, <2>8 DEF Dispatch
  <2>9. CASE CycleEnd
    BY <2>1, <2>9 DEF CycleEnd
  <2>10. CASE UNCHANGED vars
    BY <2>1, <2>10 DEF vars
  <2> QED
    BY <2>3, <2>4, <2>5, <2>6, <2>7, <2>8, <2>9, <2>10 DEF Next
<1> QED
  BY <1>1, <1>2, InvHolds, PTL DEF Spec

\* Covered says it by age, UnitsNotShared by counting, and for the squashed
\* operations too.
LEMMA MatchedShares ==
  ASSUME Inv, Matched
  PROVE  UnitsNotShared
<1>1. TypeOK /\ Places /\ Covered
  BY DEF Inv
<1>2. ASSUME NEW c \in Blocking, NEW n \in 1 .. Longest
      PROVE  working[c][n] = Cardinality({u \in 1 .. Units[c] : unit[c][u] = n})
  BY DEF Matched, Holding
<1>3. ASSUME NEW c \in Blocking, NEW n \in 1 .. Longest
      PROVE  Cardinality({i \in DOMAIN executing :
                 UnitOf(rob[executing[i].age].kind) = c /\ executing[i].due >= n})
               <= Cardinality({u \in 1 .. Units[c] : unit[c][u] >= n})
  <2> DEFINE I == {i \in DOMAIN executing :
                     UnitOf(rob[executing[i].age].kind) = c /\ executing[i].due >= n}
             A == {executing[i].age : i \in I}
  <2>1. c \in Class \ {"MUL"} /\ n \in Nat \ {0}
    BY DEF Blocking
  <2>2. executing \in Seq(Pending) /\ Distinct(executing)
    BY <1>1 DEF TypeOK, Places
  <2>3. A \subseteq Occupants(c, n)
    <3> SUFFICES ASSUME NEW i \in I PROVE executing[i].age \in Occupants(c, n)
      OBVIOUS
    <3> DEFINE u == executing[i]
    <3>1. u \in Range(executing) /\ UnitOf(rob[u.age].kind) = c /\ u.due >= n
      BY DEF Range
    <3> HIDE DEF u
    <3>2. u \in Pending /\ u.age \in DOMAIN rob
      BY <1>1, <3>1, PlaceFacts, RobFields
    <3>3. u.due \in n .. Longest /\ u = [age |-> u.age, due |-> u.due]
      BY <2>1, <3>1, <3>2, PendingFacts, Sizes
    <3>4. u.age \in Occupants(c, n)
      BY <3>1, <3>2, <3>3 DEF Occupants
    <3> QED
      BY <3>4 DEF u
  <2>4. Cardinality(A) = Cardinality(I) /\ Cardinality(I) \in Nat
    <3>1. \A J \in SUBSET (DOMAIN executing) :
            /\ Cardinality({executing[i].age : i \in J}) = Cardinality(J)
            /\ Cardinality(J) \in Nat
      BY <2>2, CountByAge
    <3>2. I \in SUBSET (DOMAIN executing)
      OBVIOUS
    <3> HIDE DEF I
    <3> QED
      BY <3>1, <3>2
  <2>5. /\ IsFiniteSet(Occupants(c, n)) /\ Cardinality(Occupants(c, n)) \in Nat
        /\ Cardinality(Busy(c, n)) \in Nat
    BY <1>1, <2>1, CountRange
  <2> HIDE DEF A, I
  <2>6. Cardinality(A) <= Cardinality(Occupants(c, n))
    BY <2>3, <2>5, FS_Subset
  <2>7. Cardinality(Occupants(c, n)) <= Cardinality(Busy(c, n))
    BY <1>1, <2>1 DEF Covered
  <2>8. Cardinality(I) <= Cardinality(Busy(c, n))
    BY <2>4, <2>5, <2>6, <2>7
  <2> QED
    BY <2>8 DEF I, Busy
<1> QED
  BY <1>2, <1>3 DEF UnitsNotShared

-----------------------------------------------------------------------------

\* Every structure of the back end keeps to its type and its capacity.
THEOREM TypeCorrect == Spec => []TypeOK
<1>1. Inv => TypeOK
  BY DEF Inv
<1> QED
  BY <1>1, InvHolds, PTL

\* An operation in flight waits, executes or writes back, in one place only, until
\* it completes: issue(), execute(), writeback() and the squashes lose and keep none
\* too many.
THEOREM InOnePlace == Spec => []OnePlace
<1>1. Inv => OnePlace
  BY PlacesCount
<1> QED
  BY <1>1, InvHolds, PTL

\* IssueQueue::wakeup and the sampling at dispatch miss no broadcast between them.
THEOREM WakeupsAreHeard == Spec => []NoLostWakeup
<1>1. Inv => NoLostWakeup
  BY DEF Inv
<1> QED
  BY <1>1, InvHolds, PTL

\* reserve_cdb and release_cdb keep the ring exact, whatever is squashed.
THEOREM RingIsExact == Spec => []BookingsExact
<1>1. Inv => BookingsExact
  BY BookedCounts
<1> QED
  BY <1>1, InvHolds, PTL

\* writeback() lands every result in the cycle issue() booked for it.
THEOREM PromisesAreKept == Spec => []BookedLands
<1>1. Inv => BookedLands
  BY OnTimeLands
<1> QED
  BY <1>1, InvHolds, PTL

\* free_unit() never lets a second operation into a blocking unit before the first
\* is through, be the first squashed on the way or not.
THEOREM UnitsAreHeldAlone == Spec => []UnitsNotShared
<1>1. Inv /\ Matched => UnitsNotShared
  BY MatchedShares
<1> QED
  BY <1>1, InvHolds, MatchedHolds, PTL
=============================================================================
