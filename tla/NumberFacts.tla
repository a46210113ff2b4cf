----------------------------- MODULE NumberFacts -----------------------------
(***************************************************************************)
(* Facts that the proofs share: the arithmetic of a ring of slots, the     *)
(* least and the greatest element of a bounded set, which also give        *)
(* induction a form the provers can use, and what the loops that keep part *)
(* of a queue make of it.                                                  *)
(***************************************************************************)
EXTENDS Queues, Functions, FiniteSetTheorems, WellFoundedInduction, NaturalsInduction, TLAPS

-----------------------------------------------------------------------------
(* A ring of c slots: wrap() in lsq.h, and addresses modulo their number.  *)

\* wrap() leaves an index inside the ring alone.
LEMMA ModInside ==
  ASSUME NEW c \in Nat \ {0}, NEW x \in 0 .. c - 1
  PROVE  x % c = x
  OBVIOUS

\* One turn past the end comes back at the start.
LEMMA ModPast ==
  ASSUME NEW c \in Nat \ {0}, NEW x \in c .. 2 * c - 1
  PROVE  x % c = x - c
  OBVIOUS

\* One turn before the start comes back at the end.
LEMMA ModBefore ==
  ASSUME NEW c \in Nat \ {0}, NEW x \in -c .. -1
  PROVE  x % c = x + c
  OBVIOUS

\* Whatever is wrapped lands inside the ring.
LEMMA ModRange ==
  ASSUME NEW c \in Nat \ {0}, NEW x \in Int
  PROVE  x % c \in 0 .. c - 1
  OBVIOUS

\* The k-th slot from h, as a comparison instead of a remainder.
LEMMA RingSlot ==
  ASSUME NEW c \in Nat \ {0}, NEW h \in 0 .. c - 1, NEW k \in 0 .. c
  PROVE  /\ (h + k) % c = IF h + k < c THEN h + k ELSE h + k - c
         /\ (h + k) % c \in 0 .. c - 1
<1>1. CASE h + k < c
  <2>1. h + k \in 0 .. c - 1
    BY <1>1
  <2> QED
    BY <2>1, <1>1, ModInside
<1>2. CASE h + k >= c
  <2>1. h + k \in c .. 2 * c - 1
    BY <1>2
  <2>2. (h + k) % c = h + k - c
    BY <2>1, ModPast
  <2> QED
    BY <2>1, <2>2, <1>2
<1> QED
  BY <1>1, <1>2

-----------------------------------------------------------------------------
(* Least and greatest elements. *)

\* The order the library's well-foundedness is stated about, as a set.
LEMMA LessThanRelation == OpToRel(<, Nat) = {p \in Nat \X Nat : p[1] < p[2]}
  BY Zenon DEF OpToRel

\* A set of naturals with an element has a least one.
LEMMA LeastElement ==
  ASSUME NEW T \in SUBSET Nat, T # {}
  PROVE  \E x \in T : \A y \in T : x <= y
<1> DEFINE R == OpToRel(<, Nat)
<1>1. PICK x \in T : \A y \in T : ~(<<y, x>> \in R)
  BY NatLessThanWellFounded, WFMin
<1>2. R = {p \in Nat \X Nat : p[1] < p[2]}
  BY LessThanRelation
<1> HIDE DEF R
<1>3. \A y \in T : ~(y < x)
  BY <1>1, <1>2
<1> QED
  BY <1>3

\* A bounded set of naturals with an element has a greatest one.
LEMMA GreatestElement ==
  ASSUME NEW n \in Nat, NEW T \in SUBSET (0 .. n), T # {}
  PROVE  \E x \in T : \A y \in T : y <= x
<1> DEFINE U == {m \in Nat : n - m \in T}
<1>1. PICK t \in T : TRUE
  OBVIOUS
<1>2. n - t \in U
  OBVIOUS
<1>3. PICK m \in U : \A y \in U : m <= y
  <2>1. U \in SUBSET Nat /\ U # {}
    BY <1>2
  <2> QED
    BY <2>1, LeastElement, Zenon
<1>4. ASSUME NEW y \in T
      PROVE  y <= n - m
  <2>1. n - y \in U /\ m \in Nat /\ y \in Nat
    BY <1>4
  <2>2. m <= n - y
    BY <2>1, <1>3
  <2> HIDE DEF U
  <2> QED
    BY <2>1, <2>2
<1> QED
  BY <1>3, <1>4

\* What holds at 0 and passes from each number to the next holds of all: P is
\* the set of the numbers it holds of.
LEMMA Induction ==
  ASSUME NEW P, 0 \in P, \A n \in Nat : n \in P => n + 1 \in P
  PROVE  Nat \subseteq P
<1> SUFFICES ASSUME NEW m \in Nat, m \notin P
             PROVE  FALSE
  OBVIOUS
<1> DEFINE U == Nat \ P
<1>1. PICK x \in U : \A y \in U : x <= y
  <2>1. U \in SUBSET Nat /\ U # {}
    OBVIOUS
  <2> QED
    BY <2>1, LeastElement, Zenon
<1>2. x - 1 \in Nat /\ x - 1 \notin U
  BY <1>1
<1> QED
  BY <1>1, <1>2

-----------------------------------------------------------------------------
(* Queues, as the stages change them. *)

\* Of two elements of s, the one in front and the one behind are related by R.
Ranked(s, R) == \A i, j \in DOMAIN s : i < j => <<s[i], s[j]>> \in R

\* A newcomer joins behind everybody else.
LEMMA AppendOrder ==
  ASSUME NEW S, NEW s \in Seq(S), NEW u \in S, NEW R
  PROVE  /\ Append(s, u) \in Seq(S) /\ Len(Append(s, u)) = Len(s) + 1
         /\ Range(Append(s, u)) = Range(s) \cup {u}
         /\ Ranked(s, R) /\ (\A v \in Range(s) : <<v, u>> \in R) => Ranked(Append(s, u), R)
<1> DEFINE t == Append(s, u)
           n == Len(s)
<1>1. /\ n \in Nat /\ t \in Seq(S) /\ Len(t) = n + 1
      /\ DOMAIN s = 1 .. n /\ DOMAIN t = 1 .. n + 1
      /\ \A i \in 1 .. n : t[i] = s[i]
      /\ t[n + 1] = u
  OBVIOUS
<1> HIDE DEF t, n
<1>2. \A i \in 1 .. n + 1 : i \in 1 .. n \/ i = n + 1
  BY <1>1
<1>3. n + 1 \in 1 .. n + 1 /\ \A i \in 1 .. n : i \in 1 .. n + 1
  BY <1>1
<1>4. Range(t) = Range(s) \cup {u}
  BY <1>1, <1>2, <1>3 DEF Range
<1>5. ASSUME Ranked(s, R), \A v \in Range(s) : <<v, u>> \in R,
             NEW i \in 1 .. n + 1, NEW j \in 1 .. n + 1, i < j
      PROVE  <<t[i], t[j]>> \in R
  <2>1. i \in 1 .. n /\ t[i] = s[i]
    BY <1>1, <1>5
  <2>2. CASE j \in 1 .. n
    BY <1>1, <1>5, <2>1, <2>2 DEF Ranked
  <2>3. CASE j = n + 1
    BY <1>1, <1>5, <2>1, <2>3 DEF Range
  <2> QED
    BY <1>2, <2>2, <2>3
<1> QED
  BY <1>1, <1>4, <1>5 DEF t, n, Ranked

\* The same, of the elements alone.
LEMMA AppendRange ==
  ASSUME NEW S, NEW s \in Seq(S), NEW u \in S
  PROVE  Append(s, u) \in Seq(S) /\ Range(Append(s, u)) = Range(s) \cup {u}
BY AppendOrder

\* One turn of the loops of squash_queue, select and execute().
KeepStep(g, s, K, k) ==
  IF k = 0 THEN <<>> ELSE IF s[k] \in K THEN Append(g[k - 1], s[k]) ELSE g[k - 1]

\* They have a result.
LEMMA ThoseExists ==
  ASSUME NEW s, NEW n \in Nat, NEW K
  PROVE  \E g : g = [k \in 0 .. n |-> KeepStep(g, s, K, k)]
<1> DEFINE P == {j \in Nat : \E g : /\ g = [k \in 0 .. n |-> g[k]]
                                    /\ \A k \in 0 .. n : k <= j => g[k] = KeepStep(g, s, K, k)}
<1>1. 0 \in P
  <2> DEFINE g == [k \in 0 .. n |-> <<>>]
  <2>1. g = [k \in 0 .. n |-> g[k]] /\ \A k \in 0 .. n : k <= 0 => g[k] = KeepStep(g, s, K, k)
    BY DEF KeepStep
  <2> HIDE DEF g
  <2> QED
    BY <2>1
<1>2. ASSUME NEW j \in Nat, j \in P PROVE j + 1 \in P
  <2>1. PICK g : /\ g = [k \in 0 .. n |-> g[k]]
                 /\ \A k \in 0 .. n : k <= j => g[k] = KeepStep(g, s, K, k)
    BY <1>2
  <2> DEFINE h == [k \in 0 .. n |-> IF k <= j THEN g[k] ELSE KeepStep(g, s, K, k)]
  <2>2. /\ h = [k \in 0 .. n |-> h[k]]
        /\ \A k \in 0 .. n : h[k] = IF k <= j THEN g[k] ELSE KeepStep(g, s, K, k)
    OBVIOUS
  <2> HIDE DEF h
  <2>3. ASSUME NEW k \in 0 .. n, k <= j + 1
        PROVE  h[k] = KeepStep(h, s, K, k)
    <3>1. h[k] = KeepStep(g, s, K, k)
      BY <2>1, <2>2
    <3>2. CASE k = 0
      BY <3>1, <3>2 DEF KeepStep
    <3>3. CASE k # 0
      <4>1. k - 1 \in 0 .. n /\ k - 1 <= j
        BY <2>3, <3>3
      <4>2. h[k - 1] = g[k - 1]
        BY <2>2, <4>1
      <4> QED
        BY <3>1, <3>3, <4>2 DEF KeepStep
    <3> QED
      BY <3>2, <3>3
  <2> QED
    BY <2>2, <2>3
<1> HIDE DEF P
<1>3. n \in P
  BY <1>1, <1>2, Induction
<1>4. PICK g : /\ g = [k \in 0 .. n |-> g[k]]
               /\ \A k \in 0 .. n : k <= n => g[k] = KeepStep(g, s, K, k)
  BY <1>3 DEF P
<1>5. \A k \in 0 .. n : g[k] = KeepStep(g, s, K, k)
  BY <1>4
<1> QED
  BY <1>4, <1>5

\* What is kept of a queue is part of it, and stands in its order: the loop,
\* turn by turn.
LEMMA ThoseTurns ==
  ASSUME NEW S, NEW s \in Seq(S), NEW K, NEW R
  PROVE  /\ Those(s, K) \in Seq(S) /\ Len(Those(s, K)) <= Len(s)
         /\ Range(Those(s, K)) = Range(s) \cap K
         /\ Ranked(s, R) => Ranked(Those(s, K), R)
<1> DEFINE n == Len(s)
           kept == CHOOSE g : g = [k \in 0 .. n |-> KeepStep(g, s, K, k)]
<1>0. n \in Nat /\ DOMAIN s = 1 .. n /\ \A i \in 1 .. n : s[i] \in S
  OBVIOUS
<1>1. kept = [k \in 0 .. n |-> KeepStep(kept, s, K, k)]
  BY <1>0, ThoseExists
<1>2. Those(s, K) = kept[n]
  BY DEF Those, KeepStep
<1>3. kept[0] = <<>>
  <2>1. 0 \in 0 .. n
    BY <1>0
  <2> HIDE DEF kept
  <2> QED
    BY <1>1, <2>1 DEF KeepStep
<1>4. \A k \in 1 .. n :
        kept[k] = IF s[k] \in K THEN Append(kept[k - 1], s[k]) ELSE kept[k - 1]
  <2>1. \A k \in 1 .. n : k \in 0 .. n /\ k # 0
    BY <1>0
  <2> HIDE DEF kept
  <2> QED
    BY <1>1, <2>1 DEF KeepStep
<1> HIDE DEF kept, n
<1> DEFINE Upto(k) == {s[i] : i \in 1 .. k}
           Good(k) == /\ kept[k] \in Seq(S) /\ Len(kept[k]) <= k
                      /\ Range(kept[k]) = Upto(k) \cap K
                      /\ Ranked(s, R) => Ranked(kept[k], R)
           P == {k \in Nat : k <= n => Good(k)}
<1>5. 0 \in P
  <2>1. <<>> \in Seq(S) /\ Len(<<>>) = 0 /\ Range(<<>>) = {} /\ Ranked(<<>>, R)
    BY DEF Range, Ranked
  <2>2. Upto(0) = {}
    OBVIOUS
  <2> HIDE DEF Upto
  <2>3. Good(0)
    BY <1>3, <2>1, <2>2
  <2> HIDE DEF Good
  <2> QED
    BY <2>3
<1>6. ASSUME NEW k \in Nat, k \in P PROVE k + 1 \in P
  <2> SUFFICES ASSUME k + 1 <= n
               PROVE  Good(k + 1)
    OBVIOUS
  <2>1. Good(k)
    BY <1>0, <1>6
  <2>2. k + 1 \in 1 .. n /\ (k + 1) - 1 = k /\ s[k + 1] \in S
    BY <1>0
  <2>3. Upto(k + 1) = Upto(k) \cup {s[k + 1]}
    <3>1. \A i : i \in 1 .. k + 1 <=> i \in 1 .. k \/ i = k + 1
      OBVIOUS
    <3> QED
      BY <3>1
  <2>4. CASE s[k + 1] \notin K
    <3>1. kept[k + 1] = kept[k]
      BY <1>4, <2>2, <2>4
    <3>2. Upto(k + 1) \cap K = Upto(k) \cap K
      BY <2>3, <2>4
    <3> HIDE DEF Upto
    <3> QED
      BY <2>1, <3>1, <3>2
  <2>5. CASE s[k + 1] \in K
    <3>1. kept[k + 1] = Append(kept[k], s[k + 1])
      BY <1>4, <2>2, <2>5
    <3>2. Upto(k + 1) \cap K = (Upto(k) \cap K) \cup {s[k + 1]}
      BY <2>3, <2>5
    <3>3. Ranked(s, R) => \A v \in Range(kept[k]) : <<v, s[k + 1]>> \in R
      <4> SUFFICES ASSUME Ranked(s, R), NEW i \in 1 .. k
                   PROVE  <<s[i], s[k + 1]>> \in R
        BY <2>1
      <4>1. i \in 1 .. n /\ i < k + 1
        BY <1>0
      <4> QED
        BY <1>0, <2>2, <4>1 DEF Ranked
    <3> HIDE DEF Upto
    <3>4. /\ Append(kept[k], s[k + 1]) \in Seq(S)
          /\ Len(Append(kept[k], s[k + 1])) = Len(kept[k]) + 1
          /\ Range(Append(kept[k], s[k + 1])) = Range(kept[k]) \cup {s[k + 1]}
          /\ Ranked(s, R) => Ranked(Append(kept[k], s[k + 1]), R)
      BY <2>1, <2>2, <3>3, AppendOrder
    <3>5. Len(kept[k]) \in Nat
      BY <2>1
    <3> QED
      BY <2>1, <3>1, <3>2, <3>4, <3>5
  <2> QED
    BY <2>4, <2>5
<1> HIDE DEF P
<1>7. n \in P
  BY <1>0, <1>5, <1>6, Induction
<1>8. Good(n)
  BY <1>0, <1>7 DEF P
<1>9. Upto(n) = Range(s)
  BY <1>0 DEF Range
<1> QED
  BY <1>2, <1>8, <1>9 DEF n

\* What it leaves,
LEMMA ThoseKeeps ==
  ASSUME NEW S, NEW s \in Seq(S), NEW K
  PROVE  /\ Those(s, K) \in Seq(S) /\ Len(Those(s, K)) <= Len(s)
         /\ Range(Those(s, K)) = Range(s) \cap K
BY ThoseTurns

\* and in which order.
LEMMA ThoseOrder ==
  ASSUME NEW S, NEW s \in Seq(S), NEW K, NEW R,
         \A i, j \in DOMAIN s : i < j => <<s[i], s[j]>> \in R
  PROVE  \A i, j \in DOMAIN Those(s, K) : i < j => <<Those(s, K)[i], Those(s, K)[j]>> \in R
BY ThoseTurns DEF Ranked

\* The head leaves a queue.
LEMMA TailOrder ==
  ASSUME NEW S, NEW s \in Seq(S), s # <<>>, NEW R
  PROVE  /\ Tail(s) \in Seq(S) /\ Head(s) \in S
         /\ Range(s) = {Head(s)} \cup Range(Tail(s))
         /\ Ranked(s, R) => Ranked(Tail(s), R) /\ \A v \in Range(Tail(s)) : <<Head(s), v>> \in R
<1> DEFINE t == Tail(s)
           n == Len(s)
<1>1. /\ n \in Nat /\ n >= 1 /\ Head(s) = s[1] /\ Head(s) \in S
      /\ t \in Seq(S) /\ Len(t) = n - 1
      /\ DOMAIN s = 1 .. n /\ DOMAIN t = 1 .. n - 1
      /\ \A i \in 1 .. n - 1 : t[i] = s[i + 1]
  OBVIOUS
<1> HIDE DEF t, n
<1>2. /\ \A i \in 1 .. n - 1 : i + 1 \in 1 .. n /\ 1 < i + 1
      /\ \A i \in 1 .. n : i = 1 \/ (i - 1 \in 1 .. n - 1 /\ (i - 1) + 1 = i)
      /\ 1 \in 1 .. n
  BY <1>1
<1>3. Range(s) = {Head(s)} \cup Range(t)
  <2>1. \A i \in 1 .. n : s[i] \in {Head(s)} \cup Range(t)
    <3> SUFFICES ASSUME NEW i \in 1 .. n, i # 1
                 PROVE  s[i] \in Range(t)
      BY <1>1
    <3>1. i - 1 \in 1 .. n - 1 /\ s[i] = t[i - 1]
      BY <1>1, <1>2
    <3> QED
      BY <1>1, <3>1 DEF Range
  <2>2. \A i \in 1 .. n - 1 : t[i] = s[i + 1] /\ i + 1 \in 1 .. n
    BY <1>1, <1>2
  <2>3. Range(s) = {s[i] : i \in 1 .. n} /\ Range(t) = {t[i] : i \in 1 .. n - 1}
    BY <1>1 DEF Range
  <2>4. Head(s) \in Range(s)
    BY <1>1, <1>2, <2>3
  <2>5. Range(t) \subseteq Range(s)
    BY <2>2, <2>3
  <2>6. Range(s) \subseteq {Head(s)} \cup Range(t)
    BY <2>1, <2>3
  <2> QED
    BY <2>4, <2>5, <2>6
<1>4. ASSUME Ranked(s, R)
      PROVE  Ranked(t, R) /\ \A v \in Range(t) : <<Head(s), v>> \in R
  <2>1. ASSUME NEW i \in 1 .. n - 1, NEW j \in 1 .. n - 1, i < j PROVE <<t[i], t[j]>> \in R
    <3>1. i + 1 \in 1 .. n /\ j + 1 \in 1 .. n /\ i + 1 < j + 1
      BY <1>2, <2>1
    <3> QED
      BY <1>1, <1>4, <3>1 DEF Ranked
  <2>2. \A i \in 1 .. n - 1 : <<Head(s), t[i]>> \in R
    BY <1>1, <1>2, <1>4 DEF Ranked
  <2> QED
    BY <1>1, <2>1, <2>2 DEF Ranked, Range
<1> QED
  BY <1>1, <1>3, <1>4 DEF t

\* One queue behind another.
LEMMA ConcatOrder ==
  ASSUME NEW S, NEW s \in Seq(S), NEW t \in Seq(S), NEW R
  PROVE  /\ s \o t \in Seq(S)
         /\ Range(s \o t) = Range(s) \cup Range(t)
         /\ Ranked(s, R) /\ Ranked(t, R) /\ (\A u \in Range(s), v \in Range(t) : <<u, v>> \in R)
              => Ranked(s \o t, R)
<1> DEFINE r == s \o t
           m == Len(s)
           n == Len(t)
<1>1. /\ m \in Nat /\ n \in Nat /\ r \in Seq(S) /\ Len(r) = m + n
      /\ DOMAIN s = 1 .. m /\ DOMAIN t = 1 .. n /\ DOMAIN r = 1 .. m + n
      /\ \A i \in 1 .. m : r[i] = s[i]
      /\ \A i \in m + 1 .. m + n : r[i] = t[i - m]
  OBVIOUS
<1> HIDE DEF r, m, n
<1>2. \A i \in 1 .. m + n :
        i \in 1 .. m \/ (i \in m + 1 .. m + n /\ i - m \in 1 .. n)
  BY <1>1
<1>3. /\ \A i \in 1 .. m : i \in 1 .. m + n
      /\ \A i \in 1 .. n : m + i \in m + 1 .. m + n /\ m + i \in 1 .. m + n /\ (m + i) - m = i
  BY <1>1
<1>4. Range(r) = Range(s) \cup Range(t)
  <2>1. \A i \in 1 .. m + n : r[i] \in Range(s) \cup Range(t)
    BY <1>1, <1>2 DEF Range
  <2>2. \A i \in 1 .. m : s[i] = r[i] /\ i \in 1 .. m + n
    BY <1>1, <1>3
  <2>3. \A i \in 1 .. n : t[i] = r[m + i] /\ m + i \in 1 .. m + n
    BY <1>1, <1>3
  <2>4. Range(s) \cup Range(t) \subseteq Range(r)
    BY <1>1, <2>2, <2>3 DEF Range
  <2> QED
    BY <1>1, <2>1, <2>4 DEF Range
<1>5. ASSUME Ranked(s, R), Ranked(t, R), \A u \in Range(s), v \in Range(t) : <<u, v>> \in R,
             NEW i \in 1 .. m + n, NEW j \in 1 .. m + n, i < j
      PROVE  <<r[i], r[j]>> \in R
  <2>1. CASE i \in 1 .. m /\ j \in 1 .. m
    BY <1>1, <1>5, <2>1 DEF Ranked
  <2>2. CASE i \in m + 1 .. m + n /\ j \in m + 1 .. m + n
    <3>1. i - m \in 1 .. n /\ j - m \in 1 .. n /\ i - m < j - m
      BY <1>1, <1>2, <1>5, <2>2
    <3> QED
      BY <1>1, <1>5, <2>2, <3>1 DEF Ranked
  <2>3. CASE i \in 1 .. m /\ j \in m + 1 .. m + n
    <3>1. r[i] = s[i] /\ r[j] = t[j - m] /\ j - m \in 1 .. n
      BY <1>1, <1>2, <2>3
    <3>2. r[i] \in Range(s) /\ r[j] \in Range(t)
      BY <1>1, <2>3, <3>1 DEF Range
    <3> QED
      BY <1>5, <3>2
  <2>4. ~(i \in m + 1 .. m + n /\ j \in 1 .. m)
    BY <1>1, <1>5
  <2> QED
    BY <1>2, <2>1, <2>2, <2>3, <2>4
<1> QED
  BY <1>1, <1>4, <1>5 DEF r, Ranked
=============================================================================
