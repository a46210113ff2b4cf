--------------------------- MODULE FrontEndProofs ---------------------------
(***************************************************************************)
(* Speculative fetch, proved for every program, every size of the history, *)
(* the counters, the target buffer and the return stack, and every number  *)
(* of instructions in flight.                                              *)
(***************************************************************************)
EXTENDS FrontEnd, NumberFacts

-----------------------------------------------------------------------------
(* Sequences, as the actions use them. *)

\* fetch() adds an instruction at the end.
LEMMA AppendFacts ==
  ASSUME NEW S, NEW s \in Seq(S), NEW e \in S
  PROVE  /\ Append(s, e) \in Seq(S)
         /\ Len(Append(s, e)) = Len(s) + 1
         /\ \A i \in 1 .. Len(s) : Append(s, e)[i] = s[i]
         /\ Append(s, e)[Len(s) + 1] = e
  OBVIOUS

\* commit() takes the oldest one.
LEMMA TailFacts ==
  ASSUME NEW S, NEW s \in Seq(S), s # <<>>
  PROVE  /\ Len(s) \in Nat /\ Len(s) >= 1
         /\ Head(s) = s[1] /\ Head(s) \in S
         /\ Tail(s) \in Seq(S)
         /\ Len(Tail(s)) = Len(s) - 1
         /\ \A i \in 1 .. Len(s) - 1 : Tail(s)[i] = s[i + 1]
  OBVIOUS

\* recover() and decode_stage() keep the oldest k.
LEMMA PrefixFacts ==
  ASSUME NEW S, NEW s \in Seq(S), NEW k \in 0 .. Len(s)
  PROVE  /\ SubSeq(s, 1, k) \in Seq(S)
         /\ Len(SubSeq(s, 1, k)) = k
         /\ \A i \in 1 .. k : SubSeq(s, 1, k)[i] = s[i]
  OBVIOUS

\* decode_stage() and issue() change one entry in place.
LEMMA ExceptFacts ==
  ASSUME NEW S, NEW s \in Seq(S), NEW i \in 1 .. Len(s), NEW e \in S
  PROVE  /\ [s EXCEPT ![i] = e] \in Seq(S)
         /\ Len([s EXCEPT ![i] = e]) = Len(s)
         /\ \A j \in 1 .. Len(s) : [s EXCEPT ![i] = e][j] = IF j = i THEN e ELSE s[j]
  OBVIOUS

-----------------------------------------------------------------------------
(* The exclusive or of Gshare's index is one of n, for every n.            *)

\* One step of the recursion over the bits below k.
XorBit(a, b, k) == IF (a \div (k \div 2)) % 2 = (b \div (k \div 2)) % 2 THEN 0 ELSE k \div 2
XorStep(g, a, b, k) == IF k = 1 THEN 0 ELSE g[k \div 2] + XorBit(a, b, k)

\* Halving stays inside 1 .. n and makes progress.
LEMMA Half ==
  ASSUME NEW k \in Nat, k >= 1, k # 1
  PROVE  k \div 2 \in Nat /\ k \div 2 >= 1 /\ k \div 2 < k /\ 2 * (k \div 2) <= k
  OBVIOUS

\* The recursion has a solution.
LEMMA XorExists ==
  ASSUME NEW n \in Nat, NEW a, NEW b
  PROVE  \E g : g = [k \in 1 .. n |-> XorStep(g, a, b, k)]
<1> DEFINE P == {j \in Nat : \E g : DOMAIN g = 1 .. n /\ g = [k \in 1 .. n |-> g[k]] /\
                     \A k \in 1 .. n : k <= j => g[k] = XorStep(g, a, b, k)}
<1>1. 0 \in P
  <2> DEFINE g == [k \in 1 .. n |-> 0]
  <2>1. DOMAIN g = 1 .. n /\ g = [k \in 1 .. n |-> g[k]]
    OBVIOUS
  <2>2. \A k \in 1 .. n : k <= 0 => g[k] = XorStep(g, a, b, k)
    OBVIOUS
  <2> HIDE DEF g
  <2> QED
    BY <2>1, <2>2
<1>2. ASSUME NEW j \in Nat, j \in P PROVE j + 1 \in P
  <2>1. PICK g : /\ DOMAIN g = 1 .. n /\ g = [k \in 1 .. n |-> g[k]]
                 /\ \A k \in 1 .. n : k <= j => g[k] = XorStep(g, a, b, k)
    BY <1>2
  <2> DEFINE h == [k \in 1 .. n |-> IF k <= j THEN g[k] ELSE XorStep(g, a, b, k)]
  <2>2. /\ DOMAIN h = 1 .. n /\ h = [k \in 1 .. n |-> h[k]]
        /\ \A k \in 1 .. n : h[k] = IF k <= j THEN g[k] ELSE XorStep(g, a, b, k)
    OBVIOUS
  <2> HIDE DEF h
  <2>3. ASSUME NEW k \in 1 .. n, k <= j + 1
        PROVE  h[k] = XorStep(h, a, b, k)
    <3>1. h[k] = XorStep(g, a, b, k)
      BY <2>1, <2>2
    <3>2. CASE k = 1
      BY <3>1, <3>2 DEF XorStep
    <3>3. CASE k # 1
      <4>1. k \div 2 \in 1 .. n /\ k \div 2 <= j
        BY <2>3, <3>3, Half
      <4>2. h[k \div 2] = g[k \div 2]
        BY <2>2, <4>1
      <4> QED
        BY <3>1, <3>3, <4>2 DEF XorStep
    <3> QED
      BY <3>2, <3>3
  <2> QED
    BY <2>2, <2>3
<1> HIDE DEF P
<1>3. n \in P
  BY <1>1, <1>2, Induction
<1>4. PICK g : /\ DOMAIN g = 1 .. n /\ g = [k \in 1 .. n |-> g[k]]
               /\ \A k \in 1 .. n : k <= n => g[k] = XorStep(g, a, b, k)
  BY <1>3 DEF P
<1> QED
  <2>1. \A k \in 1 .. n : g[k] = XorStep(g, a, b, k)
    BY <1>4
  <2>2. g = [k \in 1 .. n |-> XorStep(g, a, b, k)]
    BY <1>4, <2>1
  <2> QED
    BY <2>2

\* Gshare::index is a slot of the counters: what of the two operands counts is
\* below n.
LEMMA XorRange ==
  ASSUME NEW n \in Nat \ {0}, NEW a \in Nat, NEW b \in Nat
  PROVE  Xor(a, b, n) \in 0 .. n - 1
<1> DEFINE f == CHOOSE g : g = [k \in 1 .. n |-> XorStep(g, a, b, k)]
<1>1. f = [k \in 1 .. n |-> XorStep(f, a, b, k)]
  BY XorExists
<1>2. Xor(a, b, n) = f[n]
  BY DEF Xor, XorStep, XorBit
<1> HIDE DEF f
<1>3. \A k \in 1 .. n : f[k] = XorStep(f, a, b, k)
  BY <1>1
<1> DEFINE P == {j \in Nat : \A k \in 1 .. n : k <= j => f[k] \in 0 .. k - 1}
<1>4. 0 \in P
  OBVIOUS
<1>5. ASSUME NEW j \in Nat, j \in P PROVE j + 1 \in P
  <2> SUFFICES ASSUME NEW k \in 1 .. n, k <= j + 1 PROVE f[k] \in 0 .. k - 1
    OBVIOUS
  <2>1. CASE k = 1
    BY <1>3, <2>1 DEF XorStep
  <2>2. CASE k # 1
    <3>1. k \div 2 \in 1 .. n /\ k \div 2 <= j /\ 2 * (k \div 2) <= k
      BY <2>2, Half
    <3>2. f[k \div 2] \in 0 .. (k \div 2) - 1
      BY <1>5, <3>1
    <3>3. XorBit(a, b, k) \in 0 .. k \div 2
      BY <3>1 DEF XorBit
    <3>4. f[k] = f[k \div 2] + XorBit(a, b, k)
      BY <1>3, <2>2 DEF XorStep
    <3> HIDE DEF P
    <3> DEFINE half == k \div 2
    <3>5. half \in Nat /\ 2 * half <= k /\ f[half] \in 0 .. half - 1 /\ XorBit(a, b, k) \in 0 .. half
          /\ f[k] = f[half] + XorBit(a, b, k)
      BY <3>1, <3>2, <3>3, <3>4
    <3> HIDE DEF half
    <3> QED
      BY <3>5
  <2> QED
    BY <2>1, <2>2
<1> HIDE DEF P
<1>6. n \in P
  BY <1>4, <1>5, Induction
<1> QED
  BY <1>2, <1>6 DEF P

-----------------------------------------------------------------------------
(* The steps' effect on the instructions in flight, entry by entry. *)

\* What fetch() decided about an instruction, and no later stage changes.
Like(u, v) ==
  /\ v.pc = u.pc /\ v.ins = u.ins /\ v.hit = u.hit /\ v.taken = u.taken
  /\ v.pred = u.pred /\ v.index = u.index /\ v.snap = u.snap

\* decode_stage() only marks an entry, and behind a trap drops the younger
\* ones and stops fetch.
LEMMA DecodeFacts ==
  ASSUME TypeOK, NEW i \in DOMAIN window, Decode(i)
  PROVE  /\ mode = "run" /\ offender = 0 /\ (stalled => stalled')
         /\ window' \in Seq(InFlight)
         /\ Len(window') \in Nat /\ Len(window') <= Len(window)
         /\ window # <<>> /\ window' # <<>>
         /\ Len(window') < Len(window) => stalled'
         /\ \A j \in 1 .. Len(window') :
              /\ Like(window[j], window'[j])
              /\ window'[j].resolved = window[j].resolved
              /\ window'[j].next = window[j].next
<1>1. window \in Seq(InFlight) /\ i \in 1 .. Len(window) /\ Len(window) \in Nat
  BY DEF TypeOK
<1> DEFINE u == window[i]
           v == [u EXCEPT !.decoded = TRUE]
           after == [window EXCEPT ![i] = v]
<1>2. u \in InFlight
  BY <1>1
<1>3. /\ v \in InFlight /\ Like(u, v)
      /\ v.resolved = u.resolved /\ v.next = u.next
  BY <1>2 DEF InFlight, Like
<1>4. /\ after \in Seq(InFlight) /\ Len(after) = Len(window)
      /\ \A j \in 1 .. Len(window) : after[j] = IF j = i THEN v ELSE window[j]
  <2> HIDE DEF v
  <2> QED
    BY <1>1, <1>3, ExceptFacts
<1>5. /\ window' = IF window[i].ins.op = "TRAP" THEN SubSeq(after, 1, i) ELSE after
      /\ stalled' = (stalled \/ window[i].ins.op = "TRAP")
      /\ mode = "run" /\ offender = 0
  BY DEF Decode
<1> HIDE DEF after
<1>6. \A j \in 1 .. Len(window) :
        /\ Like(window[j], after[j])
        /\ after[j].resolved = window[j].resolved /\ after[j].next = window[j].next
  <2> SUFFICES ASSUME NEW j \in 1 .. Len(window)
               PROVE  /\ Like(window[j], after[j])
                      /\ after[j].resolved = window[j].resolved /\ after[j].next = window[j].next
    OBVIOUS
  <2>1. CASE j = i
    BY <1>3, <1>4, <2>1
  <2>2. CASE j # i
    BY <1>4, <2>2 DEF Like
  <2> QED
    BY <2>1, <2>2
<1>7. /\ i \in 0 .. Len(after)
      /\ SubSeq(after, 1, i) \in Seq(InFlight) /\ Len(SubSeq(after, 1, i)) = i
      /\ \A j \in 1 .. i : SubSeq(after, 1, i)[j] = after[j]
  <2>1. i \in 0 .. Len(after)
    BY <1>1, <1>4
  <2> QED
    BY <1>4, <2>1, PrefixFacts
<1>8. CASE window[i].ins.op = "TRAP"
  <2>1. window' = SubSeq(after, 1, i) /\ stalled'
    BY <1>5, <1>8
  <2>2. /\ window' \in Seq(InFlight) /\ Len(window') = i
        /\ \A j \in 1 .. i : window'[j] = after[j] /\ j \in 1 .. Len(window)
    BY <1>1, <1>7, <2>1
  <2>3. /\ Len(window') \in Nat /\ Len(window') <= Len(window)
        /\ window # <<>> /\ window' # <<>>
    BY <1>1, <2>2
  <2>4. \A j \in 1 .. Len(window') :
          /\ Like(window[j], window'[j])
          /\ window'[j].resolved = window[j].resolved
          /\ window'[j].next = window[j].next
    BY <1>6, <2>2
  <2> QED
    BY <1>5, <2>1, <2>2, <2>3, <2>4
<1>9. CASE window[i].ins.op # "TRAP"
  <2>1. window' = after
    BY <1>5, <1>9
  <2>2. Len(window') = Len(window) /\ window # <<>> /\ window' # <<>>
    BY <1>1, <1>4, <2>1
  <2>3. window' \in Seq(InFlight) /\ Len(window') \in Nat /\ Len(window') <= Len(window)
    BY <1>1, <1>4, <2>1
  <2>4. \A j \in 1 .. Len(window') :
          /\ Like(window[j], window'[j])
          /\ window'[j].resolved = window[j].resolved
          /\ window'[j].next = window[j].next
    BY <1>4, <1>6, <2>1
  <2>5. stalled => stalled'
    BY <1>5
  <2>6. ~(Len(window') < Len(window))
    BY <1>1, <2>2
  <2> QED
    BY <1>5, <2>2, <2>3, <2>4, <2>5, <2>6
<1> QED
  BY <1>8, <1>9

\* issue() records an outcome and moves nothing.
LEMMA ResolveFacts ==
  ASSUME TypeOK, NEW i \in DOMAIN window, NEW next \in Pc, Resolve(i, next)
  PROVE  /\ mode = "run" /\ ~window[i].resolved
         /\ i \in 1 .. Len(window)
         /\ window' \in Seq(InFlight) /\ Len(window') = Len(window)
         /\ \A j \in 1 .. Len(window) :
              /\ Like(window[j], window'[j])
              /\ j # i => window'[j] = window[j]
         /\ window'[i].resolved /\ window'[i].next = next
         /\ offender' = IF next # window[i].pred /\ (offender = 0 \/ i < offender)
                        THEN i ELSE offender
<1>1. window \in Seq(InFlight) /\ i \in 1 .. Len(window) /\ Len(window) \in Nat
  BY DEF TypeOK
<1> DEFINE u == window[i]
           v == [u EXCEPT !.resolved = TRUE, !.next = next]
           after == [window EXCEPT ![i] = v]
<1>2. u \in InFlight
  BY <1>1
<1>3. v \in InFlight /\ Like(u, v) /\ v.resolved /\ v.next = next
  BY <1>2 DEF InFlight, Like
<1>4. window' = after
  <2>1. window' = [window EXCEPT ![i].resolved = TRUE, ![i].next = next]
    BY DEF Resolve
  <2> QED
    BY <1>1, <2>1
<1>5. /\ after \in Seq(InFlight) /\ Len(after) = Len(window)
      /\ \A j \in 1 .. Len(window) : after[j] = IF j = i THEN v ELSE window[j]
  <2> HIDE DEF v
  <2> QED
    BY <1>1, <1>3, ExceptFacts
<1> HIDE DEF after
<1>6. \A j \in 1 .. Len(window) : Like(window[j], after[j]) /\ (j # i => after[j] = window[j])
  <2> SUFFICES ASSUME NEW j \in 1 .. Len(window)
               PROVE  Like(window[j], after[j]) /\ (j # i => after[j] = window[j])
    OBVIOUS
  <2>1. CASE j = i
    BY <1>3, <1>5, <2>1
  <2>2. CASE j # i
    BY <1>5, <2>2 DEF Like
  <2> QED
    BY <2>1, <2>2
<1>7. /\ mode = "run" /\ ~window[i].resolved
      /\ offender' = IF next # window[i].pred /\ (offender = 0 \/ i < offender)
                     THEN i ELSE offender
  BY DEF Resolve, Offends
<1> HIDE DEF v
<1> QED
  BY <1>1, <1>3, <1>4, <1>5, <1>6, <1>7

-----------------------------------------------------------------------------
(* The tables. *)

\* The constants, as the arithmetic needs them.
LEMMA Sizes ==
  /\ NumPc \in Nat /\ NumPc >= 1
  /\ MaxInFlight \in Nat /\ MaxInFlight >= 1
  /\ GhrSize \in Nat /\ GhrSize >= 1
  /\ PhtSize \in Nat /\ PhtSize >= 1
  /\ BtbSets \in Nat /\ BtbSets >= 1
  /\ BtbWays \in Nat /\ BtbWays >= 1
  /\ RasSize \in Nat /\ RasSize >= 1
  BY FrontEndAssumption

\* A remainder lies below the modulus.
LEMMA Remainder ==
  ASSUME NEW a \in Int, NEW n \in Nat, n >= 1
  PROVE  a % n \in 0 .. n - 1
  OBVIOUS

\* The next address, a set of the target buffer, a shifted history.
LEMMA Ranges ==
  /\ \A p \in Pc : Succ(p) \in Pc
  /\ \A p \in Pc : SetOf(p) \in 0 .. BtbSets - 1
  /\ \A g \in Ghrs : \A t \in BOOLEAN : Shifted(g, t) \in Ghrs
<1>1. ASSUME NEW p \in Pc PROVE Succ(p) \in Pc
  BY Sizes, Remainder DEF Succ, Pc
<1>2. ASSUME NEW p \in Pc PROVE SetOf(p) \in 0 .. BtbSets - 1
  BY Sizes, Remainder DEF SetOf, Pc
<1>3. ASSUME NEW g \in Ghrs, NEW t \in BOOLEAN PROVE Shifted(g, t) \in Ghrs
  <2>1. 2 * g + Bit(t) \in Int
    BY Sizes DEF Ghrs, Bit
  <2> QED
    BY <2>1, Sizes, Remainder DEF Ghrs, Shifted
<1> QED
  BY <1>1, <1>2, <1>3

\* The first of a set of ways.
LEMMA FirstFacts ==
  ASSUME NEW S \in SUBSET Ways, S # {}
  PROVE  First(S) \in S /\ \A v \in S : First(S) <= v
<1>1. S \in SUBSET Nat
  BY Sizes DEF Ways
<1>2. \E w \in S : \A v \in S : w <= v
  BY <1>1, LeastElement
<1> QED
  BY <1>2 DEF First

\* Btb::update replaces the first way that is the address's own or unused, or
\* else the one that was filled longest ago.
LEMMA VictimFacts ==
  ASSUME NEW set \in [Ways -> BtbEntry], NEW p
  PROVE  LET w == Victim(set, p)
         IN /\ w \in Ways
            /\ \/ /\ set[w].valid => set[w].tag = p
                  /\ \A v \in Ways : (set[v].valid => set[v].tag = p) => w <= v
               \/ /\ \A v \in Ways : set[v].valid /\ set[v].tag # p
                  /\ \A v \in Ways : set[w].used <= set[v].used
<1> DEFINE own == {w \in Ways : set[w].valid => set[w].tag = p}
<1>1. CASE own # {}
  <2>1. Victim(set, p) = First(own)
    BY <1>1 DEF Victim
  <2>2. First(own) \in own /\ \A v \in own : First(own) <= v
    <3>1. own \in SUBSET Ways
      OBVIOUS
    <3> HIDE DEF own
    <3> QED
      BY <1>1, <3>1, FirstFacts
  <2> QED
    BY <2>1, <2>2
<1>2. CASE own = {}
  <2>1. Victim(set, p) = CHOOSE w \in Ways : \A v \in Ways : set[w].used <= set[v].used
    BY <1>2 DEF Victim
  <2> DEFINE T == {set[v].used : v \in Ways}
  <2>2. T \in SUBSET Nat /\ T # {}
    <3>1. \A v \in Ways : set[v].used \in Nat
      BY Sizes DEF BtbEntry
    <3>2. 1 \in Ways
      BY Sizes DEF Ways
    <3> QED
      BY <3>1, <3>2
  <2>3. \E x \in T : \A y \in T : x <= y
    BY <2>2, LeastElement, Zenon
  <2>4. \E w \in Ways : \A v \in Ways : set[w].used <= set[v].used
    BY <2>3
  <2>5. /\ Victim(set, p) \in Ways
        /\ \A v \in Ways : set[Victim(set, p)].used <= set[v].used
    BY <2>1, <2>4
  <2>6. \A v \in Ways : set[v].valid /\ set[v].tag # p
    <3>1. \A v \in Ways : set[v] \in BtbEntry
      OBVIOUS
    <3> QED
      BY <1>2, <3>1 DEF BtbEntry
  <2> QED
    BY <2>5, <2>6
<1> QED
  BY <1>1, <1>2

\* What Btb::update leaves in a set: the new entry, with the youngest rank,
\* and the others, those younger than the victim one rank older.
LEMMA FilledFacts ==
  ASSUME NEW set \in [Ways -> BtbEntry], NEW w \in Ways, NEW p \in Pc, NEW t \in Pc,
         NEW kind \in Kinds
  PROVE  LET new == Filled(set, w, p, t, kind)
         IN /\ new \in [Ways -> BtbEntry]
            /\ new[w].valid /\ new[w].tag = p /\ new[w].target = t
            /\ new[w].kind = kind /\ new[w].used = BtbWays
            /\ \A v \in Ways \ {w} :
                 /\ new[v].valid = set[v].valid /\ new[v].tag = set[v].tag
                 /\ new[v].target = set[v].target /\ new[v].kind = set[v].kind
                 /\ new[v].used = IF set[v].used > set[w].used THEN set[v].used - 1
                                  ELSE set[v].used
<1> DEFINE e == [valid |-> TRUE, tag |-> p, target |-> t, kind |-> kind, used |-> BtbWays]
           older(v) == IF set[v].used > set[w].used THEN set[v].used - 1 ELSE set[v].used
           other(v) == [set[v] EXCEPT !.used = older(v)]
           new == [v \in Ways |-> IF v = w THEN e ELSE other(v)]
<1>1. Filled(set, w, p, t, kind) = new
  BY DEF Filled
<1>2. e \in BtbEntry
  BY Sizes DEF BtbEntry
<1>3. ASSUME NEW v \in Ways
      PROVE  /\ other(v) \in BtbEntry
             /\ other(v).valid = set[v].valid /\ other(v).tag = set[v].tag
             /\ other(v).target = set[v].target /\ other(v).kind = set[v].kind
             /\ other(v).used = older(v)
  <2>1. set[v] \in BtbEntry /\ set[w] \in BtbEntry
    OBVIOUS
  <2>2. older(v) \in 0 .. BtbWays
    BY <2>1, Sizes DEF BtbEntry
  <2> HIDE DEF older
  <2> QED
    BY <2>1, <2>2 DEF BtbEntry
<1>4. /\ e.valid /\ e.tag = p /\ e.target = t /\ e.kind = kind /\ e.used = BtbWays
      /\ \A v \in Ways : new[v] = IF v = w THEN e ELSE other(v)
  OBVIOUS
<1>5. new \in [Ways -> BtbEntry]
  <2> HIDE DEF e, other
  <2> QED
    BY <1>2, <1>3
<1> HIDE DEF e, other, new
<1> QED
  BY <1>1, <1>3, <1>4, <1>5 DEF older

\* The return stack stays a ring of RasSize addresses.
LEMMA RasTypes ==
  /\ \A r \in RasState : \A p \in Pc : Pushed(r, p) \in RasState
  /\ \A r \in RasState : r.count > 0 => Popped(r) \in RasState
  /\ \A r \in RasState : r.stack[r.top] \in Pc
<1>1. ASSUME NEW r \in RasState, NEW p \in Pc PROVE Pushed(r, p) \in RasState
  <2>1. /\ r.stack \in [0 .. RasSize - 1 -> Pc] /\ r.top \in 0 .. RasSize - 1
        /\ r.count \in 0 .. RasSize
    BY DEF RasState
  <2> DEFINE top == (r.top + 1) % RasSize
  <2>2. top \in 0 .. RasSize - 1
    <3>1. r.top + 1 \in Int
      BY <2>1, Sizes
    <3> QED
      BY <3>1, Sizes, Remainder
  <2>3. (IF r.count < RasSize THEN r.count + 1 ELSE r.count) \in 0 .. RasSize
    BY <2>1, Sizes
  <2>4. [r.stack EXCEPT ![top] = p] \in [0 .. RasSize - 1 -> Pc]
    BY <2>1
  <2> QED
    BY <2>2, <2>3, <2>4 DEF Pushed, RasState
<1>2. ASSUME NEW r \in RasState, r.count > 0 PROVE Popped(r) \in RasState
  <2>1. /\ r.stack \in [0 .. RasSize - 1 -> Pc] /\ r.top \in 0 .. RasSize - 1
        /\ r.count \in 0 .. RasSize
    BY DEF RasState
  <2>2. r.top + RasSize - 1 \in Int
    BY <2>1, Sizes
  <2>3. (r.top + RasSize - 1) % RasSize \in 0 .. RasSize - 1
    BY <2>2, Sizes, Remainder
  <2>4. r.count - 1 \in 0 .. RasSize
    BY <1>2, <2>1, Sizes
  <2> QED
    BY <2>1, <2>3, <2>4 DEF Popped, RasState
<1>3. \A r \in RasState : r.stack[r.top] \in Pc
  BY DEF RasState
<1> QED
  BY <1>1, <1>2, <1>3

-----------------------------------------------------------------------------
(* Prediction and fetch. *)

\* What Btb::lookup returns: nothing, or an entry of the address's set with its
\* tag.
LEMMA LookupFacts ==
  ASSUME TypeOK, NEW p \in Pc
  PROVE  /\ Lookup(p) \in BtbEntry
         /\ Lookup(p).valid =>
              \E w \in Ways : /\ btb[SetOf(p)][w] = Lookup(p)
                              /\ btb[SetOf(p)][w].valid /\ btb[SetOf(p)][w].tag = p
<1>1. btb[SetOf(p)] \in [Ways -> BtbEntry]
  BY Ranges DEF TypeOK
<1>2. CASE Hitting(p) = {}
  <2>1. Lookup(p) = NoBtbEntry
    BY <1>2 DEF Lookup
  <2> QED
    BY <2>1, Sizes DEF NoBtbEntry, BtbEntry, Pc, Kinds
<1>3. CASE Hitting(p) # {}
  <2>1. Hitting(p) \in SUBSET Ways
    BY DEF Hitting
  <2>2. First(Hitting(p)) \in Hitting(p)
    BY <1>3, <2>1, FirstFacts
  <2>3. Lookup(p) = btb[SetOf(p)][First(Hitting(p))]
    BY <1>3 DEF Lookup
  <2> QED
    BY <1>1, <2>2, <2>3 DEF Hitting
<1> QED
  BY <1>2, <1>3

\* BranchPredictor::predict, field by field.
LEMMA PredictFacts ==
  ASSUME TypeOK
  PROVE  LET pr   == Predict(pc)
             hit  == Lookup(pc)
             cond == hit.valid /\ hit.kind = "CONDITIONAL"
         IN /\ pr.hit \in BOOLEAN /\ pr.taken \in BOOLEAN
            /\ pr.hit <=> hit.valid
            /\ pr.next \in Pc
            /\ pr.index \in 0 .. PhtSize - 1 /\ pr.index = Xor(ghr, pc, PhtSize)
            /\ pr.ghr \in Ghrs
            /\ pr.ghr = IF cond THEN Shifted(ghr, pr.taken) ELSE ghr
            /\ pr.ras \in RasState
            /\ pr.ras = IF hit.valid /\ hit.kind = "RETURN" /\ ras.count > 0 THEN Popped(ras)
                        ELSE IF hit.valid /\ hit.kind = "CALL" THEN Pushed(ras, Succ(pc)) ELSE ras
            /\ pr.taken => hit.valid
            /\ ~pr.taken => pr.next = Succ(pc)
            /\ cond /\ pr.taken => pr.next = hit.target
<1> DEFINE hit  == Lookup(pc)
           cond == hit.valid /\ hit.kind = "CONDITIONAL"
           pops == hit.valid /\ hit.kind = "RETURN" /\ ras.count > 0
           taken == CASE ~hit.valid -> FALSE
                      [] hit.valid /\ hit.kind = "CONDITIONAL" -> pht[PhtIndex(pc)] >= 2
                      [] OTHER -> TRUE
           next == IF ~taken THEN Succ(pc) ELSE IF pops THEN ras.stack[ras.top] ELSE hit.target
           newRas == IF pops THEN Popped(ras)
                     ELSE IF hit.valid /\ hit.kind = "CALL" THEN Pushed(ras, Succ(pc)) ELSE ras
           newGhr == IF cond THEN Shifted(ghr, taken) ELSE ghr
<1>1. /\ Predict(pc).hit = hit.valid /\ Predict(pc).taken = taken /\ Predict(pc).next = next
      /\ Predict(pc).index = PhtIndex(pc) /\ Predict(pc).ghr = newGhr /\ Predict(pc).ras = newRas
  BY DEF Predict
<1>2. /\ pc \in Pc /\ ghr \in Ghrs /\ ras \in RasState
      /\ pht \in [0 .. PhtSize - 1 -> 0 .. 3]
  BY DEF TypeOK
<1>3. /\ hit \in BtbEntry /\ hit.valid \in BOOLEAN /\ hit.target \in Pc
  BY <1>2, LookupFacts DEF BtbEntry
<1>4. PhtIndex(pc) \in 0 .. PhtSize - 1 /\ PhtIndex(pc) = Xor(ghr, pc, PhtSize)
  <2>1. pc \in Nat /\ ghr \in Nat /\ PhtSize \in Nat \ {0}
    BY <1>2, Sizes DEF Pc, Ghrs
  <2> QED
    BY <2>1, XorRange DEF PhtIndex
<1> HIDE DEF hit
<1>5. /\ taken \in BOOLEAN
      /\ taken => hit.valid
      /\ hit.valid /\ hit.kind # "CONDITIONAL" => taken
  <2>1. CASE ~hit.valid
    BY <2>1
  <2>2. CASE hit.valid /\ hit.kind = "CONDITIONAL"
    <3>1. taken = (pht[PhtIndex(pc)] >= 2)
      BY <2>2
    <3>2. (pht[PhtIndex(pc)] >= 2) \in BOOLEAN
      BY <1>2, <1>4
    <3> HIDE DEF taken
    <3> QED
      BY <2>2, <3>1, <3>2
  <2>3. CASE hit.valid /\ hit.kind # "CONDITIONAL"
    BY <2>3
  <2> QED
    BY <1>3, <2>1, <2>2, <2>3
<1> HIDE DEF taken
<1>6. newGhr \in Ghrs
  BY <1>2, <1>5, Ranges
<1>7. newRas \in RasState /\ next \in Pc
  BY <1>2, <1>3, Ranges, RasTypes
<1>8. /\ ~taken => next = Succ(pc)
      /\ cond /\ taken => next = hit.target
  OBVIOUS
<1> HIDE DEF next
<1> QED
  BY <1>1, <1>3, <1>4, <1>5, <1>6, <1>7, <1>8 DEF hit

\* fetch() adds one entry, with what was read and predicted at pc.
LEMMA FetchFacts ==
  ASSUME TypeOK, Fetch
  PROVE  LET pr == Predict(pc)
             u  == window'[Len(window) + 1]
         IN /\ mode = "run" /\ ~stalled /\ offender = 0
            /\ Len(window) \in Nat /\ Len(window) < MaxInFlight
            /\ window' \in Seq(InFlight) /\ Len(window') = Len(window) + 1
            /\ \A j \in 1 .. Len(window) : window'[j] = window[j]
            /\ u.pc = pc /\ u.ins = code[pc] /\ u.hit = pr.hit /\ u.taken = pr.taken
            /\ u.pred = pr.next /\ u.index = pr.index
            /\ u.snap.ghr = ghr /\ u.snap.ras = pr.ras /\ ~u.resolved
            /\ pc' = pr.next /\ ghr' = pr.ghr /\ ras' = pr.ras
            /\ UNCHANGED <<code, stalled, pht, btb, offender, archPc, archGhr, archStack, mode>>
<1> DEFINE pr   == Predict(pc)
           snap == [ghr |-> ghr, ras |-> pr.ras]
           succ == Succ(pc)
           ins  == code[pc]
           e    == [pc |-> pc, ins |-> ins, hit |-> pr.hit, taken |-> pr.taken, pred |-> pr.next,
                    index |-> pr.index, snap |-> snap,
                    decoded |-> FALSE, resolved |-> FALSE, next |-> succ]
<1>1. window' = Append(window, e)
  BY DEF Fetch, Snapshot
<1>2. /\ pr.hit \in BOOLEAN /\ pr.taken \in BOOLEAN /\ pr.next \in Pc
      /\ pr.index \in 0 .. PhtSize - 1 /\ pr.ras \in RasState
  BY PredictFacts
<1>3. pc \in Pc /\ succ \in Pc /\ ins \in Instr /\ ghr \in Ghrs
      /\ window \in Seq(InFlight) /\ Len(window) \in Nat
  BY Ranges DEF TypeOK
<1>4. /\ mode = "run" /\ ~stalled /\ offender = 0 /\ Len(window) < MaxInFlight
      /\ pc' = pr.next /\ ghr' = pr.ghr /\ ras' = pr.ras
      /\ UNCHANGED <<code, stalled, pht, btb, offender, archPc, archGhr, archStack, mode>>
  BY DEF Fetch
<1> HIDE DEF pr, succ, ins
<1>5. snap \in [ghr : Ghrs, ras : RasState] /\ snap.ghr = ghr /\ snap.ras = pr.ras
  BY <1>2, <1>3
<1> HIDE DEF snap
<1>6. /\ e \in InFlight
      /\ e.pc = pc /\ e.ins = ins /\ e.hit = pr.hit /\ e.taken = pr.taken
      /\ e.pred = pr.next /\ e.index = pr.index /\ e.snap = snap /\ ~e.resolved
  BY <1>2, <1>3, <1>5 DEF InFlight
<1> HIDE DEF e
<1>7. /\ window' \in Seq(InFlight) /\ Len(window') = Len(window) + 1
      /\ \A j \in 1 .. Len(window) : window'[j] = window[j]
      /\ window'[Len(window) + 1] = e
  BY <1>1, <1>3, <1>6, AppendFacts
<1> QED
  BY <1>3, <1>4, <1>5, <1>6, <1>7 DEF pr, ins

-----------------------------------------------------------------------------
(* Recovery, commit, and the types. *)

\* recover() keeps the instructions up to the branch and takes back its
\* snapshot.
LEMMA RecoverFacts ==
  ASSUME TypeOK, Recover
  PROVE  /\ mode = "run" /\ offender \in 1 .. Len(window) /\ IsBranch(window[offender].ins)
         /\ window[offender] \in InFlight
         /\ window' \in Seq(InFlight) /\ Len(window') = offender
         /\ window' # <<>>
         /\ \A j \in 1 .. offender : window'[j] = window[j] /\ j \in 1 .. Len(window)
         /\ ghr' = Restored(window[offender]) /\ ras' = window[offender].snap.ras
         /\ pc' = window[offender].next /\ offender' = 0 /\ stalled' = FALSE
         /\ UNCHANGED <<code, pht, btb, archPc, archGhr, archStack, mode>>
<1>1. /\ window \in Seq(InFlight) /\ Len(window) \in Nat
      /\ offender \in 0 .. Len(window) /\ offender # 0
  BY DEF TypeOK, Recover
<1>2. offender \in 1 .. Len(window) /\ window' = SubSeq(window, 1, offender)
  BY <1>1 DEF Recover
<1>3. /\ window' \in Seq(InFlight) /\ Len(window') = offender
      /\ \A j \in 1 .. offender : window'[j] = window[j]
  BY <1>1, <1>2, PrefixFacts
<1>4. window' # <<>> /\ window[offender] \in InFlight
      /\ \A j \in 1 .. offender : j \in 1 .. Len(window)
  BY <1>1, <1>2, <1>3
<1> QED
  BY <1>2, <1>3, <1>4 DEF Recover

\* What an instruction does to the history and to the return stack keeps
\* their ranges; a call pushes on top of what was there.
LEMMA AfterFacts ==
  ASSUME NEW u \in InFlight, NEW g \in Ghrs, NEW s \in Seq(Pc), Len(s) <= RasSize
  PROVE  /\ GhrAfter(g, u) \in Ghrs
         /\ StackAfter(s, u) \in Seq(Pc) /\ Len(StackAfter(s, u)) <= RasSize
         /\ u.hit /\ KindOf(u.ins) = "CALL" =>
              /\ Len(StackAfter(s, u)) = IF Len(s) < RasSize THEN Len(s) + 1 ELSE RasSize
              /\ StackAfter(s, u)[1] = Succ(u.pc)
              /\ \A k \in 2 .. Len(StackAfter(s, u)) : StackAfter(s, u)[k] = s[k - 1]
         /\ u.hit /\ KindOf(u.ins) = "RETURN" /\ s # <<>> => StackAfter(s, u) = Tail(s)
         /\ ~(u.hit /\ KindOf(u.ins) = "CALL") /\ ~(u.hit /\ KindOf(u.ins) = "RETURN" /\ s # <<>>)
              => StackAfter(s, u) = s
<1>1. /\ u.pc \in Pc /\ u.hit \in BOOLEAN /\ u.taken \in BOOLEAN /\ u.resolved \in BOOLEAN
      /\ Succ(u.pc) \in Pc
  BY Ranges DEF InFlight
<1>2. GhrAfter(g, u) \in Ghrs
  <2>1. (IF u.resolved THEN u.next # Succ(u.pc) ELSE u.taken) \in BOOLEAN
    BY <1>1
  <2> QED
    BY <2>1, Ranges DEF GhrAfter
<1> DEFINE succ == Succ(u.pc)
           all == <<succ>> \o s
           n == IF Len(s) < RasSize THEN Len(s) + 1 ELSE RasSize
<1>3. CASE u.hit /\ KindOf(u.ins) = "CALL"
  <2>1. StackAfter(s, u) = SubSeq(all, 1, n)
    BY <1>3 DEF StackAfter
  <2>2. succ \in Pc
    BY <1>1
  <2> HIDE DEF succ
  <2>3. /\ all \in Seq(Pc) /\ Len(all) = Len(s) + 1 /\ all[1] = succ
        /\ \A k \in 2 .. Len(s) + 1 : all[k] = s[k - 1]
    BY <2>2
  <2> HIDE DEF all
  <2>4. n \in 0 .. Len(all) /\ n >= 1 /\ n <= RasSize
    BY <2>3, Sizes
  <2> HIDE DEF n
  <2>5. /\ SubSeq(all, 1, n) \in Seq(Pc) /\ Len(SubSeq(all, 1, n)) = n
        /\ \A k \in 1 .. n : SubSeq(all, 1, n)[k] = all[k]
    BY <2>3, <2>4, PrefixFacts
  <2>6. /\ SubSeq(all, 1, n)[1] = succ
        /\ \A k \in 2 .. n : SubSeq(all, 1, n)[k] = s[k - 1]
    BY <2>3, <2>4, <2>5
  <2>7. /\ StackAfter(s, u) \in Seq(Pc) /\ Len(StackAfter(s, u)) = n
        /\ StackAfter(s, u)[1] = succ
        /\ \A k \in 2 .. Len(StackAfter(s, u)) : StackAfter(s, u)[k] = s[k - 1]
    BY <2>1, <2>5, <2>6
  <2> QED
    BY <1>2, <1>3, <2>4, <2>7 DEF n, succ
<1>4. CASE u.hit /\ KindOf(u.ins) = "RETURN" /\ s # <<>>
  <2>1. StackAfter(s, u) = Tail(s)
    BY <1>4 DEF StackAfter
  <2>2. Tail(s) \in Seq(Pc) /\ Len(Tail(s)) <= RasSize
    BY <1>4, Sizes, TailFacts
  <2> QED
    BY <1>2, <1>4, <2>1, <2>2
<1>5. CASE /\ ~(u.hit /\ KindOf(u.ins) = "CALL")
           /\ ~(u.hit /\ KindOf(u.ins) = "RETURN" /\ s # <<>>)
  <2>1. StackAfter(s, u) = s
    BY <1>5 DEF StackAfter
  <2> QED
    BY <1>2, <1>5, <2>1
<1> QED
  BY <1>3, <1>4, <1>5

\* Where an instruction may lead is an address.
LEMMA OutcomeFacts ==
  ASSUME NEW i \in Instr, NEW p \in Pc
  PROVE  /\ Outcomes(i, p) \in SUBSET Pc
         /\ ~IsBranch(i) => Outcomes(i, p) = {Succ(p)}
         /\ IsBranch(i) => \A q \in Outcomes(i, p) : q # Succ(p) => q \in i.targets
         /\ KindOf(i) \in Kinds
         /\ IsBranch(i) <=> KindOf(i) # "NONE"
<1>1. /\ i.op \in {"PLAIN", "BXX", "JAL", "JALR", "TRAP"}
      /\ i.targets \in SUBSET Pc /\ i.linkRd \in BOOLEAN /\ i.linkRs1 \in BOOLEAN
  BY DEF Instr
<1>2. Succ(p) \in Pc
  BY Ranges
<1>3. CASE i.op = "BXX"
  BY <1>1, <1>2, <1>3 DEF Outcomes, IsBranch, KindOf, Kinds
<1>4. CASE i.op = "JAL"
  BY <1>1, <1>2, <1>4 DEF Outcomes, IsBranch, KindOf, Kinds
<1>5. CASE i.op = "JALR"
  BY <1>1, <1>2, <1>5 DEF Outcomes, IsBranch, KindOf, Kinds
<1>6. CASE i.op \in {"PLAIN", "TRAP"}
  BY <1>1, <1>2, <1>6 DEF Outcomes, IsBranch, KindOf, Kinds
<1> QED
  BY <1>1, <1>3, <1>4, <1>5, <1>6

\* commit() takes the oldest instruction, trains the tables with it, and ends
\* the run at a trap.
LEMMA CommitFacts ==
  ASSUME TypeOK, Commit
  PROVE  LET u == window[1]
             s == SetOf(u.pc)
             taken == u.next # Succ(u.pc)
             set == Filled(btb[s], Victim(btb[s], u.pc), u.pc, u.next, KindOf(u.ins))
         IN /\ mode = "run" /\ offender = 0 /\ u.resolved
            /\ u \in InFlight /\ s \in 0 .. BtbSets - 1
            /\ window # <<>> /\ Len(window) \in Nat /\ Len(window) >= 1
            /\ pht' \in [0 .. PhtSize - 1 -> 0 .. 3]
            /\ btb' = IF IsBranch(u.ins) /\ taken THEN [btb EXCEPT ![s] = set] ELSE btb
            /\ archGhr' = GhrAfter(archGhr, u) /\ archStack' = StackAfter(archStack, u)
            /\ UNCHANGED <<code, pc, ghr, ras, offender>>
            /\ \/ /\ u.ins.op = "TRAP"
                  /\ mode' = "done" /\ window' = <<>> /\ archPc' = u.pc /\ stalled' = FALSE
               \/ /\ u.ins.op # "TRAP"
                  /\ mode' = mode /\ archPc' = u.next /\ stalled' = stalled
                  /\ window' \in Seq(InFlight) /\ Len(window') = Len(window) - 1
                  /\ \A j \in 1 .. Len(window) - 1 :
                       window'[j] = window[j + 1] /\ j + 1 \in 1 .. Len(window)
<1> DEFINE u == window[1]
<1>1. /\ mode = "run" /\ offender = 0 /\ window # <<>> /\ window \in Seq(InFlight)
      /\ archGhr \in Ghrs
  BY DEF Commit, TypeOK
<1>2. /\ Head(window) = u /\ u \in InFlight /\ Len(window) \in Nat /\ Len(window) >= 1
      /\ Tail(window) \in Seq(InFlight) /\ Len(Tail(window)) = Len(window) - 1
      /\ \A j \in 1 .. Len(window) - 1 : Tail(window)[j] = window[j + 1]
  BY <1>1, TailFacts
<1>3. /\ u.pc \in Pc /\ u.index \in 0 .. PhtSize - 1 /\ SetOf(u.pc) \in 0 .. BtbSets - 1
  BY <1>2, Ranges DEF InFlight
<1>4. /\ u.resolved
      /\ pht' = IF KindOf(u.ins) = "CONDITIONAL"
                  THEN [pht EXCEPT ![u.index] = Saturated(@, u.next # Succ(u.pc))] ELSE pht
      /\ btb' = IF IsBranch(u.ins) /\ u.next # Succ(u.pc)
                  THEN [btb EXCEPT ![SetOf(u.pc)] =
                          Filled(@, Victim(@, u.pc), u.pc, u.next, KindOf(u.ins))]
                  ELSE btb
      /\ archGhr' = GhrAfter(archGhr, u) /\ archStack' = StackAfter(archStack, u)
      /\ UNCHANGED <<code, pc, ghr, ras, offender>>
  BY <1>2 DEF Commit
<1>5. \/ /\ u.ins.op = "TRAP"
         /\ mode' = "done" /\ window' = <<>> /\ archPc' = u.pc /\ stalled' = FALSE
      \/ /\ u.ins.op # "TRAP"
         /\ mode' = mode /\ archPc' = u.next /\ stalled' = stalled
         /\ window' = Tail(window)
  BY <1>2 DEF Commit
<1>6. pht' \in [0 .. PhtSize - 1 -> 0 .. 3]
  <2>1. pht \in [0 .. PhtSize - 1 -> 0 .. 3]
    BY DEF TypeOK
  <2>2. \A c \in 0 .. 3 : \A t \in BOOLEAN : Saturated(c, t) \in 0 .. 3
    BY DEF Saturated
  <2>3. (u.next # Succ(u.pc)) \in BOOLEAN
    OBVIOUS
  <2> QED
    BY <1>3, <1>4, <2>1, <2>2, <2>3
<1>7. btb' = IF IsBranch(u.ins) /\ u.next # Succ(u.pc)
               THEN [btb EXCEPT ![SetOf(u.pc)] =
                       Filled(btb[SetOf(u.pc)], Victim(btb[SetOf(u.pc)], u.pc), u.pc, u.next,
                              KindOf(u.ins))]
               ELSE btb
  BY <1>4
<1>8. \A j \in 1 .. Len(window) - 1 : j + 1 \in 1 .. Len(window)
  BY <1>2
<1> HIDE DEF u
<1>9. \/ /\ u.ins.op = "TRAP"
         /\ mode' = "done" /\ window' = <<>> /\ archPc' = u.pc /\ stalled' = FALSE
      \/ /\ u.ins.op # "TRAP"
         /\ mode' = mode /\ archPc' = u.next /\ stalled' = stalled
         /\ window' \in Seq(InFlight) /\ Len(window') = Len(window) - 1
         /\ \A j \in 1 .. Len(window) - 1 :
              window'[j] = window[j + 1] /\ j + 1 \in 1 .. Len(window)
  BY <1>2, <1>5, <1>8
<1> QED
  BY <1>1, <1>2, <1>3, <1>4, <1>6, <1>7, <1>9 DEF u

-----------------------------------------------------------------------------
(* Type correctness. *)

\* At reset everything is empty and fetch starts at 0.
LEMMA InitType == Init => TypeOK
<1> SUFFICES ASSUME Init PROVE TypeOK
  OBVIOUS
<1>1. /\ code = Program /\ pc = 0 /\ archPc = 0 /\ stalled = FALSE
      /\ ghr = 0 /\ archGhr = 0 /\ ras = EmptyRas /\ archStack = <<>> /\ window = <<>>
      /\ offender = 0 /\ mode = "run"
      /\ pht = [k \in 0 .. PhtSize - 1 |-> 1]
      /\ btb = [s \in 0 .. BtbSets - 1 |-> [w \in Ways |-> NoBtbEntry]]
  BY DEF Init
<1>2. code \in [Pc -> Instr] /\ 0 \in Pc /\ 0 \in Ghrs
  BY <1>1, FrontEndAssumption, Sizes DEF Pc, Ghrs
<1>3. EmptyRas \in RasState
  BY <1>2, Sizes DEF EmptyRas, RasState
<1>4. NoBtbEntry \in BtbEntry
  BY <1>2, Sizes DEF NoBtbEntry, BtbEntry, Kinds
<1>5. btb \in [0 .. BtbSets - 1 -> [Ways -> BtbEntry]]
  BY <1>1, <1>4
<1>6. /\ Len(archStack) <= RasSize /\ Len(window) <= MaxInFlight
      /\ offender \in 0 .. Len(window)
      /\ archStack \in Seq(Pc) /\ window \in Seq(InFlight)
  BY <1>1, Sizes
<1>7. pht \in [0 .. PhtSize - 1 -> 0 .. 3]
  BY <1>1
<1> QED
  BY <1>1, <1>2, <1>3, <1>5, <1>6, <1>7 DEF TypeOK

\* fetch() reads an address of the program and predicts another.
LEMMA FetchType == ASSUME TypeOK, Fetch PROVE TypeOK'
<1>1. /\ window' \in Seq(InFlight) /\ Len(window') = Len(window) + 1
      /\ Len(window) \in Nat /\ Len(window) < MaxInFlight
      /\ pc' \in Pc /\ ghr' \in Ghrs /\ ras' \in RasState
      /\ UNCHANGED <<code, stalled, pht, btb, offender, archPc, archGhr, archStack, mode>>
  BY FetchFacts, PredictFacts
<1>2. Len(window') <= MaxInFlight /\ offender' \in 0 .. Len(window')
  BY <1>1, Sizes DEF TypeOK
<1> QED
  BY <1>1, <1>2 DEF TypeOK

\* decode_stage() may only drop what it does not reach.
LEMMA DecodeType ==
  ASSUME TypeOK, NEW i \in DOMAIN window, Decode(i) PROVE TypeOK'
<1>1. /\ window' \in Seq(InFlight) /\ Len(window') \in Nat /\ Len(window') <= Len(window)
      /\ offender = 0
  BY DecodeFacts
<1>2. /\ UNCHANGED <<code, pc, ghr, pht, btb, ras, offender, archPc, archGhr, archStack, mode>>
      /\ stalled' \in BOOLEAN
  BY DEF Decode, TypeOK
<1>3. Len(window') <= MaxInFlight /\ offender' \in 0 .. Len(window')
  BY <1>1, <1>2, Sizes DEF TypeOK
<1> QED
  BY <1>1, <1>2, <1>3 DEF TypeOK

\* issue() records an address the instruction can lead to.
LEMMA ResolveType ==
  ASSUME TypeOK, NEW i \in DOMAIN window, NEW next \in Outcomes(window[i].ins, window[i].pc),
         Resolve(i, next)
  PROVE  TypeOK' /\ next \in Pc
<1>1. i \in 1 .. Len(window) /\ window[i] \in InFlight /\ Len(window) \in Nat
  BY DEF TypeOK
<1>2. next \in Pc
  <2>1. window[i].ins \in Instr /\ window[i].pc \in Pc
    BY <1>1 DEF InFlight
  <2> QED
    BY <2>1, OutcomeFacts
<1>3. /\ window' \in Seq(InFlight) /\ Len(window') = Len(window)
      /\ offender' = IF next # window[i].pred /\ (offender = 0 \/ i < offender)
                     THEN i ELSE offender
  BY <1>2, ResolveFacts
<1>4. UNCHANGED <<code, pc, stalled, ghr, pht, btb, ras, archPc, archGhr, archStack, mode>>
  BY DEF Resolve
<1>5. offender' \in 0 .. Len(window')
  <2>1. offender \in 0 .. Len(window)
    BY DEF TypeOK
  <2> QED
    BY <1>1, <1>3, <2>1
<1> QED
  BY <1>2, <1>3, <1>4, <1>5 DEF TypeOK

\* recover() takes back what the branch's snapshot holds.
LEMMA RecoverType == ASSUME TypeOK, Recover PROVE TypeOK'
<1> DEFINE br == window[offender]
<1>1. /\ br \in InFlight /\ offender \in 1 .. Len(window)
      /\ window' \in Seq(InFlight) /\ Len(window') = offender
      /\ ghr' = Restored(br) /\ ras' = br.snap.ras
      /\ pc' = br.next /\ offender' = 0 /\ stalled' = FALSE
      /\ UNCHANGED <<code, pht, btb, archPc, archGhr, archStack, mode>>
  BY RecoverFacts
<1>2. br.snap.ghr \in Ghrs /\ br.snap.ras \in RasState /\ br.next \in Pc
  BY <1>1 DEF InFlight
<1>3. Restored(br) \in Ghrs
  <2>1. (br.next # Succ(br.pc)) \in BOOLEAN
    OBVIOUS
  <2> QED
    BY <1>2, <2>1, Ranges DEF Restored
<1>4. Len(window') <= MaxInFlight /\ offender' \in 0 .. Len(window')
  BY <1>1, Sizes DEF TypeOK
<1> HIDE DEF br
<1> QED
  BY <1>1, <1>2, <1>3, <1>4 DEF TypeOK

\* commit() trains counters that saturate and fills a way of a set.
LEMMA CommitType == ASSUME TypeOK, Commit PROVE TypeOK'
<1> DEFINE u == window[1]
           s == SetOf(u.pc)
           w == Victim(btb[s], u.pc)
           set == Filled(btb[s], w, u.pc, u.next, KindOf(u.ins))
<1>1. /\ u \in InFlight /\ s \in 0 .. BtbSets - 1 /\ Len(window) \in Nat
      /\ offender = 0 /\ pht' \in [0 .. PhtSize - 1 -> 0 .. 3]
      /\ btb' = btb \/ btb' = [btb EXCEPT ![s] = set]
      /\ archGhr' = GhrAfter(archGhr, u) /\ archStack' = StackAfter(archStack, u)
      /\ UNCHANGED <<code, pc, ghr, ras, offender>>
      /\ \/ mode' = "done" /\ window' = <<>> /\ archPc' = u.pc /\ stalled' = FALSE
         \/ /\ mode' = mode /\ archPc' = u.next /\ stalled' = stalled
            /\ window' \in Seq(InFlight) /\ Len(window') = Len(window) - 1
  BY CommitFacts
<1>2. u.pc \in Pc /\ u.next \in Pc /\ u.ins \in Instr
  BY <1>1 DEF InFlight
<1>3. set \in [Ways -> BtbEntry]
  <2>1. btb[s] \in [Ways -> BtbEntry] /\ KindOf(u.ins) \in Kinds
    BY <1>1, <1>2, OutcomeFacts DEF TypeOK
  <2>2. w \in Ways
    BY <2>1, VictimFacts
  <2> HIDE DEF u, s, w
  <2> QED
    BY <1>2, <2>1, <2>2, FilledFacts
<1>4. archGhr' \in Ghrs /\ archStack' \in Seq(Pc) /\ Len(archStack') <= RasSize
  <2>1. archGhr \in Ghrs /\ archStack \in Seq(Pc) /\ Len(archStack) <= RasSize
    BY DEF TypeOK
  <2> QED
    BY <1>1, <2>1, AfterFacts
<1>5. btb' \in [0 .. BtbSets - 1 -> [Ways -> BtbEntry]]
  <2> HIDE DEF s, set
  <2> QED
    BY <1>1, <1>3 DEF TypeOK
<1> HIDE DEF u, s, w, set
<1>6. /\ window' \in Seq(InFlight) /\ Len(window') <= MaxInFlight
      /\ offender' \in 0 .. Len(window') /\ archPc' \in Pc /\ stalled' \in BOOLEAN
      /\ mode' \in {"run", "done"}
  <2>1. Len(window) <= MaxInFlight /\ stalled \in BOOLEAN /\ mode \in {"run", "done"}
    BY DEF TypeOK
  <2>2. CASE mode' = "done" /\ window' = <<>> /\ archPc' = u.pc /\ stalled' = FALSE
    <3>1. window' \in Seq(InFlight) /\ Len(window') = 0
      BY <2>2
    <3>2. Len(window') <= MaxInFlight /\ offender' \in 0 .. Len(window')
      BY <1>1, <3>1, Sizes
    <3> QED
      BY <1>2, <2>2, <3>1, <3>2
  <2>3. CASE /\ mode' = mode /\ archPc' = u.next /\ stalled' = stalled
             /\ window' \in Seq(InFlight) /\ Len(window') = Len(window) - 1
    <3>1. Len(window') \in Nat
      BY <2>3
    <3>2. Len(window') <= MaxInFlight /\ offender' \in 0 .. Len(window')
      BY <1>1, <2>1, <2>3, <3>1, Sizes
    <3> QED
      BY <1>2, <2>1, <2>3, <3>2
  <2> QED
    BY <1>1, <2>2, <2>3
<1> QED
  BY <1>1, <1>4, <1>5, <1>6 DEF TypeOK

\* A store overwrites an instruction with another.
LEMMA RewriteType ==
  ASSUME TypeOK, NEW r \in Rewrites, Rewrite(r[1], r[2])
  PROVE  TypeOK' /\ r[1] \in Pc /\ r[2] \in Instr /\ code' = [code EXCEPT ![r[1]] = r[2]]
<1>1. r[1] \in Pc /\ r[2] \in Instr
  BY FrontEndAssumption
<1>2. code' = [code EXCEPT ![r[1]] = r[2]]
  BY DEF Rewrite
<1>3. code' \in [Pc -> Instr]
  BY <1>1, <1>2 DEF TypeOK
<1> QED
  BY <1>1, <1>2, <1>3 DEF TypeOK, Rewrite

\* Every step keeps the types.
LEMMA NextType == ASSUME TypeOK, [Next]_vars PROVE TypeOK'
<1>1. CASE UNCHANGED vars
  BY <1>1 DEF TypeOK, vars
<1>2. ASSUME NEW i \in DOMAIN window, Decode(i) PROVE TypeOK'
  BY <1>2, DecodeType
<1>3. ASSUME NEW i \in DOMAIN window, NEW next \in Outcomes(window[i].ins, window[i].pc),
             Resolve(i, next)
      PROVE  TypeOK'
  BY <1>3, ResolveType
<1>4. ASSUME NEW r \in Rewrites, Rewrite(r[1], r[2]) PROVE TypeOK'
  BY <1>4, RewriteType
<1> QED
  BY <1>1, <1>2, <1>3, <1>4, FetchType, RecoverType, CommitType DEF Next

(***************************************************************************)
(* Whatever the program, the predictions and the order of resolution,      *)
(* every structure of the front end stays inside its C++ type and capacity:*)
(* the history in its bits, the counters in 0 .. 3, the return stack in    *)
(* its ring, the target buffer in its sets and ways, and fetch among the   *)
(* program's addresses.                                                    *)
(***************************************************************************)
THEOREM TypeCorrect == Spec => []TypeOK
<1>1. TypeOK /\ [Next]_vars => TypeOK'
  BY NextType
<1> QED
  BY <1>1, InitType, PTL DEF Spec

-----------------------------------------------------------------------------
(* The path in flight. *)

\* Where an instruction leads: its outcome, or until that is known its
\* prediction.
Exit(u) == IF u.resolved THEN u.next ELSE u.pred

\* How much of the window is on the path: all, or up to the branch to recover.
OnPathLen(w, o) == IF o = 0 THEN Len(w) ELSE o

\* PathIsConnected of window w, branch to recover o, committed pc ap, fetch pc p.
Connected(w, o, st, ap, p) ==
  /\ w # <<>> => w[1].pc = ap
  /\ \A i \in 1 .. OnPathLen(w, o) - 1 : w[i + 1].pc = Exit(w[i])
  /\ o = 0 /\ ~st => p = IF w = <<>> THEN ap ELSE Exit(w[Len(w)])

\* Fetch's path property is the connection of the entries, while the program runs.
LEMMA PathByEntry ==
  PathIsConnected <=> (mode = "run" => Connected(window, offender, stalled, archPc, pc))
  BY DEF PathIsConnected, Connected, Exit, OnPathLen
\* And of the next state, in the primed variables a step's case equations name.
LEMMA PathByEntryPrime ==
  PathIsConnected' <=> (mode' = "run" => Connected(window', offender', stalled', archPc', pc'))
  BY DEF PathIsConnected, Connected, Exit, OnPathLen

\* The branch to recover has resolved: recover() reads its outcome.
OffenderResolved == offender # 0 => window[offender].resolved

\* fetch() continues at the end of the path.
LEMMA FetchPath ==
  ASSUME TypeOK, OffenderResolved, PathIsConnected, Fetch
  PROVE  OffenderResolved' /\ PathIsConnected'
<1> DEFINE n == Len(window)
           u == window'[n + 1]
<1>1. /\ mode = "run" /\ ~stalled /\ offender = 0 /\ n \in Nat
      /\ window' \in Seq(InFlight) /\ Len(window') = n + 1
      /\ \A j \in 1 .. n : window'[j] = window[j]
      /\ u.pc = pc /\ u.pred = pc' /\ ~u.resolved
      /\ UNCHANGED <<stalled, offender, archPc, mode>>
  BY FetchFacts
<1>2. Connected(window, offender, stalled, archPc, pc) /\ window \in Seq(InFlight)
  BY <1>1, PathByEntry DEF TypeOK
<1>3. window' # <<>>
  BY <1>1
<1>4. window'[1].pc = archPc
  <2>1. CASE n = 0
    <3>1. window = <<>>
      BY <1>2, <2>1
    <3> QED
      BY <1>1, <1>2, <2>1, <3>1 DEF Connected
  <2>2. CASE n # 0
    <3>1. 1 \in 1 .. n /\ window # <<>>
      BY <1>1, <1>2, <2>2
    <3> QED
      BY <1>1, <1>2, <3>1 DEF Connected
  <2> QED
    BY <2>1, <2>2
<1>5. ASSUME NEW i \in 1 .. n PROVE window'[i + 1].pc = Exit(window'[i])
  <2>1. CASE i = n
    <3>1. n # 0 /\ window # <<>>
      BY <1>1, <2>1
    <3>2. pc = Exit(window[n])
      BY <1>1, <1>2, <3>1 DEF Connected
    <3> QED
      BY <1>1, <2>1, <3>2
  <2>2. CASE i # n
    <3>1. i \in 1 .. n - 1 /\ i + 1 \in 1 .. n /\ OnPathLen(window, offender) = n
      BY <1>1, <2>2 DEF OnPathLen
    <3> QED
      BY <1>1, <1>2, <3>1 DEF Connected
  <2> QED
    BY <2>1, <2>2
<1>6. pc' = Exit(window'[Len(window')])
  BY <1>1 DEF Exit
<1>7. OnPathLen(window', offender') = n + 1 /\ (n + 1) - 1 = n /\ offender' = 0
  BY <1>1 DEF OnPathLen
<1> HIDE DEF n, u
<1>8. Connected(window', offender', stalled', archPc', pc')
  BY <1>1, <1>3, <1>4, <1>5, <1>6, <1>7 DEF Connected
<1> QED
  BY <1>1, <1>8, PathByEntryPrime DEF OffenderResolved

\* decode_stage() keeps a prefix of the path, and stops fetch if it dropped
\* anything.
LEMMA DecodePath ==
  ASSUME TypeOK, OffenderResolved, PathIsConnected,
         NEW i \in DOMAIN window, Decode(i)
  PROVE  OffenderResolved' /\ PathIsConnected'
<1> DEFINE n == Len(window')
<1>1. /\ mode = "run" /\ offender = 0 /\ (stalled => stalled')
      /\ n \in Nat /\ n <= Len(window) /\ window # <<>> /\ window' # <<>>
      /\ n < Len(window) => stalled'
      /\ \A j \in 1 .. n : /\ window'[j].pc = window[j].pc /\ window'[j].pred = window[j].pred
                           /\ window'[j].resolved = window[j].resolved
                           /\ window'[j].next = window[j].next
      /\ Len(window) \in Nat /\ window' \in Seq(InFlight)
  BY DecodeFacts DEF TypeOK, Like
<1>2. UNCHANGED <<pc, offender, archPc, mode>>
  BY DEF Decode
<1>3. Connected(window, offender, stalled, archPc, pc)
  BY <1>1, PathByEntry
<1>4. \A j \in 1 .. n : Exit(window'[j]) = Exit(window[j])
  BY <1>1 DEF Exit
<1>5. 1 \in 1 .. n /\ n \in 1 .. n
  <2>1. n # 0
    BY <1>1
  <2> QED
    BY <1>1, <2>1
<1>6. ASSUME NEW j \in 1 .. n - 1 PROVE window'[j + 1].pc = Exit(window'[j])
  <2>1. /\ j \in 1 .. n /\ j + 1 \in 1 .. n /\ j \in 1 .. OnPathLen(window, offender) - 1
    BY <1>1 DEF OnPathLen
  <2> QED
    BY <1>1, <1>3, <1>4, <2>1 DEF Connected
<1>7. ASSUME ~stalled' PROVE pc' = Exit(window'[n])
  <2>1. n = Len(window) /\ ~stalled
    BY <1>1, <1>7
  <2>2. pc = Exit(window[n])
    BY <1>1, <1>3, <2>1 DEF Connected
  <2> QED
    BY <1>2, <1>4, <1>5, <2>2
<1>8. window'[1].pc = archPc'
  BY <1>1, <1>2, <1>3, <1>5 DEF Connected
<1>9. OnPathLen(window', offender') = n /\ offender' = 0
  BY <1>1, <1>2 DEF OnPathLen
<1>10. Connected(window', offender', stalled', archPc', pc')
  BY <1>1, <1>6, <1>7, <1>8, <1>9 DEF Connected
<1> QED
  BY <1>9, <1>10, PathByEntryPrime DEF OffenderResolved

\* issue() turns a prediction into an equal outcome, or makes the branch the
\* end of the path.
LEMMA ResolvePath ==
  ASSUME TypeOK, OffenderResolved, PathIsConnected,
         NEW i \in DOMAIN window, NEW next \in Outcomes(window[i].ins, window[i].pc),
         Resolve(i, next)
  PROVE  OffenderResolved' /\ PathIsConnected'
<1> DEFINE n == Len(window)
<1>1. next \in Pc /\ n \in Nat /\ offender \in 0 .. n
  BY ResolveType DEF TypeOK
<1>2. /\ mode = "run" /\ ~window[i].resolved /\ i \in 1 .. n
      /\ window' \in Seq(InFlight) /\ Len(window') = n
      /\ \A j \in 1 .. n : /\ window'[j].pc = window[j].pc /\ window'[j].pred = window[j].pred
                           /\ j # i => window'[j] = window[j]
      /\ window'[i].resolved /\ window'[i].next = next
      /\ offender' = IF next # window[i].pred /\ (offender = 0 \/ i < offender)
                     THEN i ELSE offender
  BY <1>1, ResolveFacts DEF Like
<1>3. UNCHANGED <<pc, stalled, archPc, mode>>
  BY DEF Resolve
<1>4. Connected(window, offender, stalled, archPc, pc)
  BY <1>2, PathByEntry
<1>5. OffenderResolved'
  <2>1. CASE offender' = i
    BY <1>2, <2>1 DEF OffenderResolved
  <2>2. CASE offender' # i
    <3>1. offender' = offender
      BY <1>2, <2>2
    <3>2. offender # 0 => offender \in 1 .. n /\ offender # i
      BY <1>1, <2>2, <3>1
    <3> QED
      BY <1>2, <3>1, <3>2 DEF OffenderResolved
  <2> QED
    BY <2>1, <2>2
<1>6. \A j \in 1 .. n : j # i \/ next = window[i].pred => Exit(window'[j]) = Exit(window[j])
  <2> SUFFICES ASSUME NEW j \in 1 .. n, j # i \/ next = window[i].pred
               PROVE  Exit(window'[j]) = Exit(window[j])
    OBVIOUS
  <2>1. CASE j # i
    BY <1>2, <2>1
  <2>2. CASE j = i
    BY <1>2, <2>2 DEF Exit
  <2> QED
    BY <2>1, <2>2
<1>7. \/ offender' = i /\ (offender = 0 \/ i < offender)
      \/ offender' = offender /\ next = window[i].pred
      \/ offender' = offender /\ offender # 0 /\ ~(i < offender)
  BY <1>2
<1>8. /\ OnPathLen(window', offender') <= OnPathLen(window, offender)
      /\ OnPathLen(window, offender) <= n
      /\ OnPathLen(window', offender') \in Nat /\ OnPathLen(window, offender) \in Nat
      /\ OnPathLen(window', offender') - 1 < i \/ next = window[i].pred
      /\ offender' = 0 => next = window[i].pred /\ offender = 0
  BY <1>1, <1>2, <1>7 DEF OnPathLen
<1>9. window' # <<>> /\ window # <<>> /\ 1 \in 1 .. n /\ n \in 1 .. n
  <2>1. n >= 1
    BY <1>1, <1>2
  <2> QED
    BY <1>1, <1>2, <2>1
<1>10. ASSUME NEW j \in 1 .. OnPathLen(window', offender') - 1
       PROVE  window'[j + 1].pc = Exit(window'[j])
  <2>1. /\ j \in 1 .. n /\ j + 1 \in 1 .. n /\ j \in 1 .. OnPathLen(window, offender) - 1
        /\ j # i \/ next = window[i].pred
    BY <1>1, <1>8
  <2> QED
    BY <1>2, <1>4, <1>6, <2>1 DEF Connected
<1>11. ASSUME offender' = 0, ~stalled' PROVE pc' = Exit(window'[Len(window')])
  <2>1. pc = Exit(window[n])
    BY <1>3, <1>4, <1>8, <1>9, <1>11 DEF Connected
  <2> QED
    BY <1>2, <1>3, <1>6, <1>8, <1>9, <1>11, <2>1
<1>12. window'[1].pc = archPc'
  BY <1>2, <1>3, <1>4, <1>9 DEF Connected
<1>13. Connected(window', offender', stalled', archPc', pc')
  BY <1>9, <1>10, <1>11, <1>12 DEF Connected
<1> QED
  BY <1>5, <1>13, PathByEntryPrime

\* recover() cuts the path after the branch and fetches where it went.
LEMMA RecoverPath ==
  ASSUME TypeOK, OffenderResolved, PathIsConnected, Recover
  PROVE  OffenderResolved' /\ PathIsConnected'
<1>1. /\ mode = "run" /\ offender \in 1 .. Len(window)
      /\ Len(window') = offender /\ window' # <<>>
      /\ \A j \in 1 .. offender : window'[j] = window[j]
      /\ pc' = window[offender].next /\ offender' = 0
      /\ UNCHANGED <<archPc, mode>>
  BY RecoverFacts
<1>2. Len(window) \in Nat /\ offender # 0
  BY <1>1 DEF TypeOK
<1>3. Connected(window, offender, stalled, archPc, pc)
  BY <1>1, PathByEntry
<1>4. window[offender].resolved
  BY <1>2 DEF OffenderResolved
<1>5. OnPathLen(window', offender') = offender /\ OnPathLen(window, offender) = offender
  BY <1>1, <1>2 DEF OnPathLen
<1>6. 1 \in 1 .. offender /\ offender \in 1 .. offender /\ window # <<>>
  BY <1>1, <1>2
<1>7. ASSUME NEW j \in 1 .. offender - 1 PROVE window'[j + 1].pc = Exit(window'[j])
  <2>1. j \in 1 .. offender /\ j + 1 \in 1 .. offender
    BY <1>1, <1>2
  <2> QED
    BY <1>1, <1>3, <1>5, <2>1 DEF Connected
<1>8. window'[1].pc = archPc' /\ pc' = Exit(window'[Len(window')])
  BY <1>1, <1>3, <1>4, <1>6 DEF Connected, Exit
<1>9. Connected(window', offender', stalled', archPc', pc')
  BY <1>1, <1>5, <1>7, <1>8 DEF Connected
<1> QED
  BY <1>1, <1>9, PathByEntryPrime DEF OffenderResolved

\* commit() moves the start of the path along it.
LEMMA CommitPath ==
  ASSUME TypeOK, OffenderResolved, PathIsConnected, Commit
  PROVE  OffenderResolved' /\ PathIsConnected'
<1> DEFINE n == Len(window)
           u == window[1]
<1>1. /\ mode = "run" /\ offender = 0 /\ u.resolved /\ window # <<>> /\ n \in Nat /\ n >= 1
      /\ UNCHANGED <<pc, offender>>
      /\ \/ mode' = "done"
         \/ /\ mode' = mode /\ archPc' = u.next /\ stalled' = stalled
            /\ window' \in Seq(InFlight) /\ Len(window') = n - 1
            /\ \A j \in 1 .. n - 1 : window'[j] = window[j + 1]
  BY CommitFacts
<1>2. Connected(window, offender, stalled, archPc, pc)
  BY <1>1, PathByEntry
<1>3. OffenderResolved'
  BY <1>1 DEF OffenderResolved
<1>4. CASE mode' = "done"
  BY <1>3, <1>4, PathByEntryPrime
<1>5. CASE /\ mode' = mode /\ archPc' = u.next /\ stalled' = stalled
           /\ window' \in Seq(InFlight) /\ Len(window') = n - 1
           /\ \A j \in 1 .. n - 1 : window'[j] = window[j + 1]
  <2>1. OnPathLen(window', offender') = n - 1 /\ OnPathLen(window, offender) = n
    BY <1>1, <1>5 DEF OnPathLen
  <2>2. ASSUME NEW j \in 1 .. (n - 1) - 1 PROVE window'[j + 1].pc = Exit(window'[j])
    <3>1. j \in 1 .. n - 1 /\ j + 1 \in 1 .. n - 1 /\ j + 1 \in 1 .. OnPathLen(window, offender) - 1
      BY <1>1, <2>1
    <3> QED
      BY <1>2, <1>5, <3>1 DEF Connected
  <2>3. Exit(u) = u.next
    BY <1>1 DEF Exit
  <2>4. CASE n = 1
    <3>1. window' = <<>>
      BY <1>5, <2>4
    <3>2. ~stalled' => pc' = archPc'
      BY <1>1, <1>2, <1>5, <2>3, <2>4 DEF Connected
    <3>3. Connected(window', offender', stalled', archPc', pc')
      BY <2>1, <2>2, <3>1, <3>2 DEF Connected
    <3> QED
      BY <1>3, <3>3, PathByEntryPrime
  <2>5. CASE n # 1
    <3>1. /\ window' # <<>> /\ 1 \in 1 .. n - 1 /\ n - 1 \in 1 .. n - 1 /\ (n - 1) + 1 = n
          /\ 1 \in 1 .. OnPathLen(window, offender) - 1
      BY <1>1, <1>5, <2>1, <2>5
    <3>2. window'[1].pc = archPc'
      BY <1>2, <1>5, <2>3, <3>1 DEF Connected
    <3>3. window'[Len(window')] = window[n]
      BY <1>5, <3>1
    <3>4. ~stalled' => pc' = Exit(window'[Len(window')])
      BY <1>1, <1>2, <1>5, <3>3 DEF Connected
    <3>5. Connected(window', offender', stalled', archPc', pc')
      BY <2>1, <2>2, <3>1, <3>2, <3>4 DEF Connected
    <3> QED
      BY <1>3, <3>5, PathByEntryPrime
  <2> QED
    BY <2>4, <2>5
<1> QED
  BY <1>1, <1>4, <1>5

\* A step that leaves the window, the fetch pc and the committed pc alone
\* leaves the path alone.
LEMMA StillPath ==
  ASSUME OffenderResolved, PathIsConnected,
         UNCHANGED <<pc, stalled, window, offender, archPc, mode>>
  PROVE  OffenderResolved' /\ PathIsConnected'
  BY PathByEntry, PathByEntryPrime DEF OffenderResolved

(***************************************************************************)
(* Only one path commits: after any interleaving of fetch, decode,         *)
(* resolution, recovery and commit, for every program and every            *)
(* prediction, each instruction in flight is where its predecessor goes,   *)
(* the oldest is where the last committed one went, and fetch is at the    *)
(* end, but for what is behind a branch about to recover.                  *)
(***************************************************************************)
THEOREM OnePath == Spec => []PathIsConnected
<1> DEFINE I == TypeOK /\ OffenderResolved /\ PathIsConnected
<1>1. Init => I
  <2> SUFFICES ASSUME Init PROVE I
    OBVIOUS
  <2>1. window = <<>> /\ offender = 0 /\ pc = archPc /\ mode = "run"
    BY DEF Init
  <2>2. Connected(window, offender, stalled, archPc, pc)
    BY <2>1 DEF Connected, OnPathLen
  <2> QED
    BY <2>1, <2>2, InitType, PathByEntry DEF OffenderResolved
<1>2. I /\ [Next]_vars => I'
  <2> SUFFICES ASSUME I, [Next]_vars PROVE OffenderResolved' /\ PathIsConnected'
    BY NextType
  <2>1. CASE UNCHANGED vars
    BY <2>1, StillPath DEF vars
  <2>2. ASSUME NEW i \in DOMAIN window, Decode(i) PROVE OffenderResolved' /\ PathIsConnected'
    BY <2>2, DecodePath
  <2>3. ASSUME NEW i \in DOMAIN window, NEW next \in Outcomes(window[i].ins, window[i].pc),
               Resolve(i, next)
        PROVE  OffenderResolved' /\ PathIsConnected'
    BY <2>3, ResolvePath
  <2>4. ASSUME NEW r \in Rewrites, Rewrite(r[1], r[2])
        PROVE  OffenderResolved' /\ PathIsConnected'
    BY <2>4, StillPath DEF Rewrite
  <2> QED
    BY <2>1, <2>2, <2>3, <2>4, FetchPath, RecoverPath, CommitPath DEF Next
<1>3. I => PathIsConnected
  OBVIOUS
<1> QED
  BY <1>1, <1>2, <1>3, PTL DEF Spec

-----------------------------------------------------------------------------
(* The branch target buffer. *)

\* BtbIsFaithful of one set, and that what it predicts is a taken branch.
Faithful(set, s) ==
  \A w \in Ways : set[w].valid =>
    /\ SetOf(set[w].tag) = s
    /\ \A v \in Ways \ {w} :
         set[v].valid => set[v].tag # set[w].tag /\ set[v].used # set[w].used
    /\ \E i \in Versions(set[w].tag) : set[w].kind = KindOf(i) /\ set[w].target \in i.targets
    /\ set[w].kind # "NONE" /\ set[w].target # Succ(set[w].tag)

\* Why replacement finds the address's own entry: ways are filled in order,
\* and the ranks of the used ones are above the number of unused ones.
Unused(set) == {v \in Ways : ~set[v].valid}
Ordered(set) ==
  /\ \A w \in Ways : set[w].valid =>
       /\ \A v \in Ways : v < w => set[v].valid
       /\ set[w].used > Cardinality(Unused(set))
  /\ \A w \in Ways : ~set[w].valid => set[w].used = 0

\* The unused ways of a set are fewer than its ways if one is used.
LEMMA UnusedFacts ==
  ASSUME NEW set, NEW w \in Ways
  PROVE  /\ Cardinality(Unused(set)) \in Nat
         /\ Cardinality(Unused(set) \ {w}) < BtbWays
         /\ Cardinality(Unused(set) \ {w}) =
              IF w \in Unused(set) THEN Cardinality(Unused(set)) - 1
              ELSE Cardinality(Unused(set))
<1>1. IsFiniteSet(Ways) /\ Cardinality(Ways) = BtbWays
  <2>1. IsFiniteSet(1 .. BtbWays)
    BY Sizes, FS_Interval
  <2>2. Cardinality(1 .. BtbWays) = IF 1 > BtbWays THEN 0 ELSE BtbWays - 1 + 1
    BY Sizes, FS_Interval
  <2> QED
    BY <2>1, <2>2, Sizes DEF Ways
<1> DEFINE U == Unused(set)
<1>2. U \subseteq Ways
  BY DEF Unused
<1> HIDE DEF U
<1>3. IsFiniteSet(U) /\ Cardinality(U) \in Nat
  BY <1>1, <1>2, FS_Subset, FS_CardinalityType
<1>4. /\ IsFiniteSet(Ways \ {w}) /\ Cardinality(Ways \ {w}) = BtbWays - 1
      /\ Cardinality(U \ {w}) = IF w \in U THEN Cardinality(U) - 1 ELSE Cardinality(U)
  BY <1>1, <1>3, FS_RemoveElement
<1>5. U \ {w} \subseteq Ways \ {w}
  BY <1>2
<1>6. Cardinality(U \ {w}) <= BtbWays - 1 /\ Cardinality(U \ {w}) \in Nat
  <2>1. IsFiniteSet(U \ {w}) /\ Cardinality(U \ {w}) <= Cardinality(Ways \ {w})
    BY <1>4, <1>5, FS_Subset
  <2> QED
    BY <1>4, <2>1, FS_CardinalityType
<1> QED
  BY <1>3, <1>4, <1>6, Sizes DEF U

\* Btb::update with a taken branch at p keeps a set faithful.
LEMMA FillKeeps ==
  ASSUME NEW p \in Pc, NEW t \in Pc, NEW i \in Versions(p),
         IsBranch(i), KindOf(i) \in Kinds, KindOf(i) # "NONE", t \in i.targets, t # Succ(p),
         NEW set \in [Ways -> BtbEntry], Faithful(set, SetOf(p)), Ordered(set)
  PROVE  LET new == Filled(set, Victim(set, p), p, t, KindOf(i))
         IN Faithful(new, SetOf(p)) /\ Ordered(new)
<1> DEFINE w == Victim(set, p)
           new == Filled(set, w, p, t, KindOf(i))
<1>1. /\ w \in Ways
      /\ \/ /\ set[w].valid => set[w].tag = p
            /\ \A v \in Ways : (set[v].valid => set[v].tag = p) => w <= v
         \/ /\ \A v \in Ways : set[v].valid /\ set[v].tag # p
            /\ \A v \in Ways : set[w].used <= set[v].used
  BY VictimFacts
<1>2. /\ new \in [Ways -> BtbEntry]
      /\ new[w].valid /\ new[w].tag = p /\ new[w].target = t
      /\ new[w].kind = KindOf(i) /\ new[w].used = BtbWays
      /\ \A v \in Ways \ {w} :
           /\ new[v].valid = set[v].valid /\ new[v].tag = set[v].tag
           /\ new[v].target = set[v].target /\ new[v].kind = set[v].kind
           /\ new[v].used = IF set[v].used > set[w].used THEN set[v].used - 1
                            ELSE set[v].used
  BY <1>1, FilledFacts
<1>3. /\ \A v \in Ways : v \in Nat /\ set[v].used \in 0 .. BtbWays /\ set[v].valid \in BOOLEAN
      /\ \A v \in Ways : set[v] \in BtbEntry
  <2>1. \A v \in Ways : v \in Nat /\ set[v] \in BtbEntry
    BY Sizes DEF Ways
  <2> QED
    BY <2>1 DEF BtbEntry
<1> HIDE DEF w, new
<1>4. ASSUME NEW v \in Ways \ {w}, set[v].valid PROVE set[v].tag # p
  <2> SUFFICES ASSUME set[v].tag = p PROVE FALSE
    OBVIOUS
  <2>1. /\ set[w].valid => set[w].tag = p
        /\ w <= v
    BY <1>1, <1>4
  <2>2. w < v
    BY <1>1, <1>3, <2>1
  <2>3. set[w].valid
    BY <1>1, <1>4, <2>2 DEF Ordered
  <2> QED
    BY <1>1, <1>4, <2>1, <2>3 DEF Faithful
<1>5. /\ \A v \in Ways : set[v].valid => set[v].used > 0
      /\ ~set[w].valid => set[w].used = 0
  <2>1. Cardinality(Unused(set)) \in Nat
    BY <1>1, UnusedFacts
  <2> QED
    BY <1>1, <1>3, <2>1 DEF Ordered
<1>6. ASSUME NEW v \in Ways \ {w}, set[v].valid
      PROVE  new[v].used # BtbWays /\ set[v].used # set[w].used
  <2>1. set[v].used # set[w].used
    <3>1. CASE set[w].valid
      BY <1>1, <1>6, <3>1 DEF Faithful
    <3>2. CASE ~set[w].valid
      BY <1>3, <1>5, <1>6, <3>2
    <3> QED
      BY <3>1, <3>2
  <2>2. set[v].used \in 0 .. BtbWays /\ set[w].used \in 0 .. BtbWays
    BY <1>1, <1>3
  <2> QED
    BY <1>2, <2>1, <2>2, Sizes
<1>7. ASSUME NEW v \in Ways \ {w}, NEW x \in Ways \ {w}, v # x, set[v].valid, set[x].valid
      PROVE  new[v].used # new[x].used
  <2>1. set[v].used # set[x].used
    BY <1>7 DEF Faithful
  <2>2. set[v].used # set[w].used /\ set[x].used # set[w].used
    BY <1>6, <1>7
  <2>3. set[v].used \in Nat /\ set[w].used \in Nat /\ set[x].used \in Nat
    BY <1>1, <1>3, Sizes
  <2> DEFINE a == set[v].used
             b == set[x].used
             c == set[w].used
  <2>4. /\ new[v].used = IF a > c THEN a - 1 ELSE a
        /\ new[x].used = IF b > c THEN b - 1 ELSE b
    BY <1>2
  <2>5. a \in Nat /\ b \in Nat /\ c \in Nat /\ a # b /\ a # c /\ b # c
    BY <2>1, <2>2, <2>3
  <2> HIDE DEF a, b, c
  <2> QED
    BY <2>4, <2>5
<1>8. Faithful(new, SetOf(p))
  <2> SUFFICES ASSUME NEW v \in Ways, new[v].valid
               PROVE  /\ SetOf(new[v].tag) = SetOf(p)
                      /\ \A x \in Ways \ {v} : new[x].valid =>
                           new[x].tag # new[v].tag /\ new[x].used # new[v].used
                      /\ \E j \in Versions(new[v].tag) :
                           new[v].kind = KindOf(j) /\ new[v].target \in j.targets
                      /\ new[v].kind # "NONE" /\ new[v].target # Succ(new[v].tag)
    BY DEF Faithful
  <2>1. CASE v = w
    <3>1. ASSUME NEW x \in Ways \ {v}, new[x].valid
          PROVE  new[x].tag # new[v].tag /\ new[x].used # new[v].used
      <4>1. x \in Ways \ {w} /\ set[x].valid
        BY <1>2, <2>1, <3>1
      <4> QED
        BY <1>2, <1>4, <1>6, <2>1, <4>1
    <3> QED
      BY <1>2, <2>1, <3>1
  <2>2. CASE v # w
    <3>1. v \in Ways \ {w} /\ set[v].valid
      BY <1>2, <2>2
    <3>2. /\ SetOf(set[v].tag) = SetOf(p)
          /\ \E j \in Versions(set[v].tag) : set[v].kind = KindOf(j) /\ set[v].target \in j.targets
          /\ set[v].kind # "NONE" /\ set[v].target # Succ(set[v].tag)
      BY <3>1 DEF Faithful
    <3>3. ASSUME NEW x \in Ways \ {v}, new[x].valid
          PROVE  new[x].tag # new[v].tag /\ new[x].used # new[v].used
      <4>1. CASE x = w
        BY <1>2, <1>4, <1>6, <3>1, <4>1
      <4>2. CASE x # w
        <5>1. x \in Ways \ {w} /\ set[x].valid
          BY <1>2, <3>3, <4>2
        <5>2. set[x].tag # set[v].tag
          BY <3>1, <3>3, <5>1 DEF Faithful
        <5>3. new[x].used # new[v].used
          BY <1>7, <3>1, <3>3, <5>1
        <5> QED
          BY <1>2, <3>1, <5>1, <5>2, <5>3
      <4> QED
        BY <4>1, <4>2
    <3> QED
      BY <1>2, <3>1, <3>2, <3>3
  <2> QED
    BY <2>1, <2>2
<1>9. Ordered(new)
  <2> DEFINE U == Cardinality(Unused(set))
             V == Cardinality(Unused(new))
  <2>1. Unused(new) = Unused(set) \ {w}
    <3>1. \A v \in Ways : ~new[v].valid <=> v # w /\ ~set[v].valid
      BY <1>2
    <3> QED
      BY <3>1 DEF Unused
  <2>2. /\ U \in Nat /\ V < BtbWays
        /\ V = IF ~set[w].valid THEN U - 1 ELSE U
    <3>1. w \in Unused(set) <=> ~set[w].valid
      BY <1>1 DEF Unused
    <3> QED
      BY <1>1, <2>1, <3>1, UnusedFacts
  <2> HIDE DEF U, V
  <2>3. \A v \in Ways : set[v].valid => set[v].used > U
    BY DEF Ordered, U
  <2>4. ASSUME NEW v \in Ways, new[v].valid PROVE new[v].used > V
    <3>1. CASE v = w
      BY <1>2, <2>2, <3>1
    <3>2. CASE v # w
      <4>1. v \in Ways \ {w} /\ set[v].valid /\ set[v].used > U
        BY <1>2, <2>3, <2>4, <3>2
      <4>2. set[v].used \in Nat /\ set[w].used \in Nat
        BY <1>1, <1>3, Sizes
      <4>3. set[w].valid => set[w].used > U
        BY <1>1, <2>3
      <4>4. new[v].used = IF set[v].used > set[w].used THEN set[v].used - 1 ELSE set[v].used
        BY <1>2, <4>1
      <4> QED
        BY <1>5, <2>2, <4>1, <4>2, <4>3, <4>4
    <3> QED
      BY <3>1, <3>2
  <2>5. ASSUME NEW v \in Ways, new[v].valid, NEW x \in Ways, x < v PROVE new[x].valid
    <3>1. CASE x = w
      BY <1>2, <3>1
    <3>2. CASE x # w /\ v = w
      <4>1. ~(w <= x)
        BY <1>3, <2>5, <3>2
      <4>2. set[x].valid
        BY <1>1, <1>3, <4>1
      <4> QED
        BY <1>2, <3>2, <4>2
    <3>3. CASE x # w /\ v # w
      <4>1. set[v].valid
        BY <1>2, <2>5, <3>3
      <4>2. set[x].valid
        BY <2>5, <4>1 DEF Ordered
      <4> QED
        BY <1>2, <3>3, <4>2
    <3> QED
      BY <3>1, <3>2, <3>3
  <2>6. ASSUME NEW v \in Ways, ~new[v].valid PROVE new[v].used = 0
    <3>1. v \in Ways \ {w} /\ ~set[v].valid
      BY <1>2, <2>6
    <3>2. set[v].used = 0 /\ set[w].used \in Nat
      BY <1>1, <1>3, <3>1, Sizes DEF Ordered
    <3> QED
      BY <1>2, <3>1, <3>2
  <2> QED
    BY <2>4, <2>5, <2>6 DEF Ordered, V
<1> QED
  BY <1>8, <1>9 DEF w, new

(***************************************************************************)
(* What is known of an instruction in flight: it is one the program has or *)
(* had at its address, it resolved to an outcome of its own, and it was    *)
(* predicted to go anywhere but on only if a taken branch was once         *)
(* committed there.                                                        *)
(***************************************************************************)
Fetched(u) ==
  /\ u.ins \in Versions(u.pc)
  /\ u.resolved => u.next \in Outcomes(u.ins, u.pc)
  /\ u.taken => u.hit
  /\ ~u.taken => u.pred = Succ(u.pc)
  /\ u.hit => \E v \in Versions(u.pc) : KindOf(v) # "NONE"

Learned ==
  /\ \A p \in Pc : code[p] \in Versions(p)
  /\ \A i \in 1 .. Len(window) : Fetched(window[i])
  /\ \A s \in 0 .. BtbSets - 1 : Faithful(btb[s], s) /\ Ordered(btb[s])

\* A hit is on a branch the program has or had at the address.
LEMMA HitFacts ==
  ASSUME TypeOK, Learned, Lookup(pc).valid
  PROVE  /\ \E v \in Versions(pc) : Lookup(pc).kind = KindOf(v)
         /\ Lookup(pc).kind # "NONE" /\ Lookup(pc).target # Succ(pc)
<1>1. pc \in Pc /\ SetOf(pc) \in 0 .. BtbSets - 1
  BY Ranges DEF TypeOK
<1>2. PICK w \in Ways : /\ btb[SetOf(pc)][w] = Lookup(pc)
                        /\ btb[SetOf(pc)][w].valid /\ btb[SetOf(pc)][w].tag = pc
  BY <1>1, LookupFacts
<1>3. Faithful(btb[SetOf(pc)], SetOf(pc))
  BY <1>1 DEF Learned
<1> QED
  BY <1>2, <1>3 DEF Faithful

\* A step that leaves the target buffer and the code alone leaves what is known
\* of them.
LEMMA StillLearned ==
  ASSUME TypeOK, Learned, UNCHANGED <<code, btb>>,
         \A i \in 1 .. Len(window') : Fetched(window'[i])
  PROVE  Learned'
  BY DEF Learned

\* fetch() takes an instruction of the code, and a prediction of the buffer.
LEMMA FetchLearned == ASSUME TypeOK, Learned, Fetch PROVE Learned'
<1> DEFINE n == Len(window)
           pr == Predict(pc)
           u == window'[n + 1]
<1>1. /\ n \in Nat /\ Len(window') = n + 1
      /\ \A j \in 1 .. n : window'[j] = window[j]
      /\ u.pc = pc /\ u.ins = code[pc] /\ u.hit = pr.hit /\ u.taken = pr.taken
      /\ u.pred = pr.next /\ ~u.resolved
      /\ UNCHANGED <<code, btb>>
  BY FetchFacts
<1>2. /\ pr.taken => Lookup(pc).valid
      /\ pr.hit <=> Lookup(pc).valid
      /\ ~pr.taken => pr.next = Succ(pc)
  BY PredictFacts
<1>3. code[pc] \in Versions(pc)
  BY DEF Learned, TypeOK
<1>4. Lookup(pc).valid => \E v \in Versions(pc) : KindOf(v) # "NONE"
  BY HitFacts
<1> HIDE DEF u, pr
<1>5. Fetched(u)
  BY <1>1, <1>2, <1>3, <1>4 DEF Fetched
<1>6. \A i \in 1 .. Len(window') : Fetched(window'[i])
  BY <1>1, <1>5 DEF Learned, u
<1> QED
  BY <1>1, <1>6, StillLearned

\* What fetch decided stays as it was until a new outcome is recorded.
LEMMA FetchedLike ==
  ASSUME NEW u, NEW v, Fetched(u), Like(u, v),
         v.resolved => v.next \in Outcomes(u.ins, u.pc)
  PROVE  Fetched(v)
  BY DEF Fetched, Like

\* decode_stage() changes nothing of it.
LEMMA DecodeLearned ==
  ASSUME TypeOK, Learned, NEW i \in DOMAIN window, Decode(i) PROVE Learned'
<1>1. /\ Len(window') \in Nat /\ Len(window') <= Len(window) /\ Len(window) \in Nat
      /\ \A j \in 1 .. Len(window') :
           /\ Like(window[j], window'[j])
           /\ window'[j].resolved = window[j].resolved
           /\ window'[j].next = window[j].next
  BY DecodeFacts DEF TypeOK
<1>2. ASSUME NEW j \in 1 .. Len(window') PROVE Fetched(window'[j])
  <2>1. j \in 1 .. Len(window)
    BY <1>1
  <2>2. /\ Fetched(window[j]) /\ Like(window[j], window'[j])
        /\ window'[j].resolved = window[j].resolved /\ window'[j].next = window[j].next
    BY <1>1, <2>1 DEF Learned
  <2>3. window'[j].resolved => window'[j].next \in Outcomes(window[j].ins, window[j].pc)
    BY <2>2 DEF Fetched
  <2> QED
    BY <2>2, <2>3, FetchedLike
<1> QED
  BY <1>2, StillLearned DEF Decode

\* issue() records an outcome of the instruction.
LEMMA ResolveLearned ==
  ASSUME TypeOK, Learned,
         NEW i \in DOMAIN window, NEW next \in Outcomes(window[i].ins, window[i].pc),
         Resolve(i, next)
  PROVE  Learned'
<1>0. next \in Pc
  BY ResolveType
<1>1. /\ Len(window') = Len(window)
      /\ \A j \in 1 .. Len(window) : Like(window[j], window'[j]) /\ (j # i => window'[j] = window[j])
      /\ window'[i].next = next
  BY <1>0, ResolveFacts
<1>2. ASSUME NEW j \in 1 .. Len(window') PROVE Fetched(window'[j])
  <2>1. /\ Fetched(window[j]) /\ Like(window[j], window'[j])
        /\ j # i => window'[j] = window[j]
    BY <1>1 DEF Learned
  <2>2. window'[j].resolved => window'[j].next \in Outcomes(window[j].ins, window[j].pc)
    <3>1. CASE j = i
      BY <1>1, <3>1
    <3>2. CASE j # i
      BY <2>1, <3>2 DEF Fetched
    <3> QED
      BY <3>1, <3>2
  <2> QED
    BY <2>1, <2>2, FetchedLike
<1> QED
  BY <1>2, StillLearned DEF Resolve

\* recover() keeps entries as they were.
LEMMA RecoverLearned == ASSUME TypeOK, Learned, Recover PROVE Learned'
<1>1. /\ Len(window') = offender
      /\ \A j \in 1 .. offender : window'[j] = window[j] /\ j \in 1 .. Len(window)
      /\ UNCHANGED <<code, btb>>
  BY RecoverFacts
<1>2. \A j \in 1 .. Len(window') : Fetched(window'[j])
  BY <1>1 DEF Learned
<1> QED
  BY <1>1, <1>2, StillLearned

\* commit() teaches the buffer a taken branch of the program.
LEMMA CommitLearned == ASSUME TypeOK, Learned, Commit PROVE Learned'
<1> DEFINE u == window[1]
           s == SetOf(u.pc)
           set == Filled(btb[s], Victim(btb[s], u.pc), u.pc, u.next, KindOf(u.ins))
<1>1. /\ u \in InFlight /\ u.resolved /\ s \in 0 .. BtbSets - 1
      /\ Len(window) \in Nat /\ Len(window) >= 1
      /\ btb' = IF IsBranch(u.ins) /\ u.next # Succ(u.pc) THEN [btb EXCEPT ![s] = set] ELSE btb
      /\ code' = code
      /\ \/ window' = <<>>
         \/ /\ Len(window') = Len(window) - 1
            /\ \A j \in 1 .. Len(window) - 1 :
                 window'[j] = window[j + 1] /\ j + 1 \in 1 .. Len(window)
  BY CommitFacts
<1>2. \A j \in 1 .. Len(window') : Fetched(window'[j])
  <2>1. CASE window' = <<>>
    BY <2>1
  <2>2. CASE /\ Len(window') = Len(window) - 1
             /\ \A j \in 1 .. Len(window) - 1 :
                  window'[j] = window[j + 1] /\ j + 1 \in 1 .. Len(window)
    BY <2>2 DEF Learned
  <2> QED
    BY <1>1, <2>1, <2>2
<1>3. CASE ~(IsBranch(u.ins) /\ u.next # Succ(u.pc))
  <2>1. UNCHANGED <<code, btb>>
    BY <1>1, <1>3
  <2> QED
    BY <1>2, <2>1, StillLearned
<1>4. CASE IsBranch(u.ins) /\ u.next # Succ(u.pc)
  <2>1. Fetched(u) /\ u.pc \in Pc /\ u.next \in Pc /\ u.ins \in Instr
    BY <1>1 DEF Learned, InFlight
  <2>2. /\ u.ins \in Versions(u.pc) /\ u.next \in u.ins.targets
        /\ KindOf(u.ins) \in Kinds /\ KindOf(u.ins) # "NONE"
    BY <1>1, <1>4, <2>1, OutcomeFacts DEF Fetched
  <2>3. Faithful(btb[s], s) /\ Ordered(btb[s]) /\ btb[s] \in [Ways -> BtbEntry]
    BY <1>1 DEF Learned, TypeOK
  <2>4. Faithful(set, s) /\ Ordered(set)
    <3> HIDE DEF u
    <3> QED
      BY <1>4, <2>1, <2>2, <2>3, FillKeeps
  <2>5. btb' = [btb EXCEPT ![s] = set]
    BY <1>1, <1>4
  <2> HIDE DEF set, s
  <2>6. \A x \in 0 .. BtbSets - 1 : btb'[x] = IF x = s THEN set ELSE btb[x]
    BY <1>1, <2>5 DEF TypeOK
  <2>7. \A x \in 0 .. BtbSets - 1 : Faithful(btb'[x], x) /\ Ordered(btb'[x])
    BY <2>4, <2>6 DEF Learned
  <2> QED
    BY <1>1, <1>2, <2>7 DEF Learned
<1> QED
  BY <1>3, <1>4

\* A store puts in one of the instructions it may put there.
LEMMA RewriteLearned ==
  ASSUME TypeOK, Learned, NEW r \in Rewrites, Rewrite(r[1], r[2]) PROVE Learned'
<1>1. r[1] \in Pc /\ code' = [code EXCEPT ![r[1]] = r[2]]
  BY RewriteType
<1>2. r[2] \in Versions(r[1])
  BY DEF Versions
<1>3. \A p \in Pc : code'[p] \in Versions(p)
  BY <1>1, <1>2 DEF Learned, TypeOK
<1> QED
  BY <1>3 DEF Learned, Rewrite

\* At reset nothing has been learned.
LEMMA InitLearned == Init => Learned
<1> SUFFICES ASSUME Init PROVE Learned
  OBVIOUS
<1>1. \A p \in Pc : code[p] \in Versions(p)
  BY DEF Init, Versions
<1>2. \A s \in 0 .. BtbSets - 1 : \A w \in Ways : btb[s][w] = NoBtbEntry
  BY DEF Init
<1>3. ~NoBtbEntry.valid /\ NoBtbEntry.used = 0
  BY DEF NoBtbEntry
<1>4. \A s \in 0 .. BtbSets - 1 : Faithful(btb[s], s) /\ Ordered(btb[s])
  BY <1>2, <1>3 DEF Faithful, Ordered
<1>5. Len(window) = 0
  BY DEF Init
<1> QED
  BY <1>1, <1>4, <1>5 DEF Learned

\* Every step keeps what is known.
LEMMA NextLearned == ASSUME TypeOK, Learned, [Next]_vars PROVE Learned'
<1>1. CASE UNCHANGED vars
  BY <1>1 DEF Learned, vars
<1>2. ASSUME NEW i \in DOMAIN window, Decode(i) PROVE Learned'
  BY <1>2, DecodeLearned
<1>3. ASSUME NEW i \in DOMAIN window, NEW next \in Outcomes(window[i].ins, window[i].pc),
             Resolve(i, next)
      PROVE  Learned'
  BY <1>3, ResolveLearned
<1>4. ASSUME NEW r \in Rewrites, Rewrite(r[1], r[2]) PROVE Learned'
  BY <1>4, RewriteLearned
<1> QED
  BY <1>1, <1>2, <1>3, <1>4, FetchLearned, RecoverLearned, CommitLearned DEF Next

\* What is known, in every state of every run.
LEMMA AlwaysLearned == Spec => [](TypeOK /\ Learned)
<1>1. TypeOK /\ Learned /\ [Next]_vars => (TypeOK /\ Learned)'
  BY NextType, NextLearned
<1> QED
  BY <1>1, InitType, InitLearned, PTL DEF Spec

(***************************************************************************)
(* Btb::update never files an address twice, for any number of sets and    *)
(* ways and any program: an address has at most one entry, in its own set, *)
(* that says what an instruction there is or was, and replacement can tell *)
(* the entries' ages apart.                                                *)
(***************************************************************************)
THEOREM BtbTellsTheTruth == Spec => []BtbIsFaithful
<1>1. Learned => BtbIsFaithful
  BY DEF Learned, BtbIsFaithful, Faithful
<1> QED
  BY <1>1, AlwaysLearned, PTL

(***************************************************************************)
(* The condition recovery rests on: a store may change a branch into       *)
(* another, never a branch into something else or the reverse.  Without it *)
(* the run front_end_any_code shows the property false.                    *)
(***************************************************************************)
BranchesStay ==
  \A p \in Pc : \A i, j \in Versions(p) : IsBranch(i) <=> IsBranch(j)

(***************************************************************************)
(* What issue() hands to recover() always has a checkpoint, for every      *)
(* program whose stores keep branches branches: anything else is predicted *)
(* to fall through, because the target buffer only answers where a branch  *)
(* was committed, and does.                                                *)
(***************************************************************************)
THEOREM OffendersRecover ==
  ASSUME BranchesStay
  PROVE  Spec => []OffenderHasCheckpoint
<1> DEFINE I == TypeOK /\ Learned /\ OffenderHasCheckpoint
<1>1. Init => I
  BY InitType, InitLearned DEF Init, OffenderHasCheckpoint
<1>2. I /\ [Next]_vars => I'
  <2> SUFFICES ASSUME TypeOK, Learned, OffenderHasCheckpoint, [Next]_vars
               PROVE  OffenderHasCheckpoint'
    BY NextType, NextLearned
  <2>1. CASE UNCHANGED vars
    BY <2>1 DEF vars, OffenderHasCheckpoint
  <2>2. CASE Fetch
    BY <2>2, FetchFacts DEF OffenderHasCheckpoint
  <2>3. ASSUME NEW i \in DOMAIN window, Decode(i) PROVE OffenderHasCheckpoint'
    BY <2>3 DEF Decode, OffenderHasCheckpoint
  <2>4. ASSUME NEW i \in DOMAIN window, NEW next \in Outcomes(window[i].ins, window[i].pc),
               Resolve(i, next)
        PROVE  OffenderHasCheckpoint'
    <3>1. next \in Pc
      BY <2>4, ResolveType
    <3>2. /\ i \in 1 .. Len(window)
          /\ \A j \in 1 .. Len(window) : window'[j].ins = window[j].ins
          /\ offender' = IF next # window[i].pred /\ (offender = 0 \/ i < offender)
                         THEN i ELSE offender
      BY <2>4, <3>1, ResolveFacts DEF Like
    <3>3. CASE offender' = offender
      <4>1. offender # 0 => offender \in 1 .. Len(window)
        BY DEF TypeOK
      <4> QED
        BY <3>2, <3>3, <4>1 DEF OffenderHasCheckpoint
    <3>4. CASE offender' = i /\ next # window[i].pred
      <4> DEFINE u == window[i]
      <4>1. Fetched(u) /\ u \in InFlight
        BY <3>2 DEF Learned, TypeOK
      <4>2. u.ins \in Instr /\ u.pc \in Pc /\ u.ins \in Versions(u.pc)
        BY <4>1 DEF InFlight, Fetched
      <4>3. IsBranch(u.ins)
        <5> SUFFICES ASSUME ~IsBranch(u.ins) PROVE FALSE
          OBVIOUS
        <5>1. next = Succ(u.pc)
          BY <4>2, OutcomeFacts
        <5>2. PICK v \in Versions(u.pc) : KindOf(v) # "NONE"
          BY <3>4, <4>1, <5>1 DEF Fetched
        <5>3. v \in Instr
          BY <4>2, FrontEndAssumption DEF Versions
        <5>4. IsBranch(v)
          BY <4>2, <5>2, <5>3, OutcomeFacts
        <5> QED
          BY <4>2, <5>4 DEF BranchesStay
      <4> QED
        BY <3>2, <3>4, <4>3 DEF OffenderHasCheckpoint
    <3> QED
      BY <3>2, <3>3, <3>4
  <2>5. CASE Recover
    BY <2>5, RecoverFacts DEF OffenderHasCheckpoint
  <2>6. CASE Commit
    BY <2>6, CommitFacts DEF OffenderHasCheckpoint
  <2>7. ASSUME NEW r \in Rewrites, Rewrite(r[1], r[2]) PROVE OffenderHasCheckpoint'
    BY <2>7 DEF Rewrite, OffenderHasCheckpoint
  <2> QED
    BY <2>1, <2>2, <2>3, <2>4, <2>5, <2>6, <2>7 DEF Next
<1>3. I => OffenderHasCheckpoint
  OBVIOUS
<1> QED
  BY <1>1, <1>2, <1>3, PTL DEF Spec

-----------------------------------------------------------------------------
(* The return stack's ring. *)

\* Ras::entries, without the remainders: the k-th entry from the top.
RasSlot(r, k) == IF k - 1 <= r.top THEN r.top - (k - 1) ELSE r.top + RasSize - (k - 1)

\* The fields of a return stack.
LEMMA RasFields ==
  ASSUME NEW r \in RasState
  PROVE  /\ r.stack \in [0 .. RasSize - 1 -> Pc]
         /\ r.top \in 0 .. RasSize - 1 /\ r.count \in 0 .. RasSize
  BY DEF RasState

\* entries() lists that many addresses, by those slots.
LEMMA EntriesFacts ==
  ASSUME NEW r \in RasState
  PROVE  /\ RasEntries(r) \in Seq(Pc) /\ Len(RasEntries(r)) = r.count
         /\ DOMAIN RasEntries(r) = 1 .. r.count
         /\ \A k \in 1 .. r.count :
              /\ RasSlot(r, k) \in 0 .. RasSize - 1
              /\ RasEntries(r)[k] = r.stack[RasSlot(r, k)]
<1>1. /\ r.stack \in [0 .. RasSize - 1 -> Pc]
      /\ r.top \in 0 .. RasSize - 1 /\ r.count \in 0 .. RasSize
  BY RasFields
<1>2. ASSUME NEW k \in 1 .. r.count
      PROVE  /\ RasSlot(r, k) \in 0 .. RasSize - 1
             /\ (r.top + RasSize - ((k - 1) % RasSize)) % RasSize = RasSlot(r, k)
  <2>1. (k - 1) % RasSize = k - 1
    <3>1. k - 1 \in 0 .. RasSize - 1
      BY <1>1, Sizes
    <3> QED
      BY <3>1, Sizes, ModInside
  <2> DEFINE x == r.top + RasSize - (k - 1)
  <2>2. x \in Nat /\ x < 2 * RasSize /\ k \in Nat /\ r.top \in Nat /\ r.top < RasSize
    BY <1>1, Sizes
  <2>3. CASE k - 1 <= r.top
    <3>1. x \in RasSize .. 2 * RasSize - 1
      BY <2>2, <2>3, <1>1, Sizes
    <3>2. x % RasSize = x - RasSize
      <4> HIDE DEF x
      <4> QED
        BY <3>1, Sizes, ModPast
    <3>3. RasSlot(r, k) = r.top - (k - 1)
      BY <2>3 DEF RasSlot
    <3>4. x - RasSize = r.top - (k - 1)
      BY <2>2, Sizes
    <3>5. r.top + RasSize - ((k - 1) % RasSize) = x
      BY <2>1
    <3>6. x - RasSize \in 0 .. RasSize - 1
      <4> HIDE DEF x
      <4> QED
        BY <3>1, Sizes
    <3> HIDE DEF x
    <3> QED
      BY <3>2, <3>3, <3>4, <3>5, <3>6, Zenon
  <2>4. CASE ~(k - 1 <= r.top)
    <3>1. x \in 0 .. RasSize - 1
      BY <2>2, <2>4, Sizes
    <3>2. x % RasSize = x
      BY <3>1, Sizes, ModInside
    <3> QED
      BY <2>1, <2>4, <3>1, <3>2 DEF RasSlot
  <2> QED
    BY <2>3, <2>4
<1>3. ASSUME NEW k \in 1 .. r.count
      PROVE  /\ RasEntries(r)[k] = r.stack[RasSlot(r, k)]
             /\ RasEntries(r)[k] \in Pc
  <2>1. RasEntries(r)[k] = r.stack[(r.top + RasSize - ((k - 1) % RasSize)) % RasSize]
    BY DEF RasEntries
  <2> QED
    BY <1>1, <1>2, <2>1
<1>4. DOMAIN RasEntries(r) = 1 .. r.count /\ r.count \in Nat
  BY <1>1, Sizes DEF RasEntries
<1>5. RasEntries(r) = [k \in 1 .. r.count |-> RasEntries(r)[k]]
  BY DEF RasEntries
<1>6. RasEntries(r) \in Seq(Pc) /\ Len(RasEntries(r)) = r.count
  <2> DEFINE q == RasEntries(r)
             n == r.count
  <2>1. q = [k \in 1 .. n |-> q[k]] /\ n \in Nat /\ \A k \in 1 .. n : q[k] \in Pc
    BY <1>3, <1>4, <1>5
  <2> HIDE DEF q, n
  <2>2. q \in Seq(Pc) /\ Len(q) = n
    BY <2>1
  <2> QED
    BY <2>2 DEF q, n
<1> QED
  BY <1>2, <1>3, <1>4, <1>6

\* push() puts the address on top of the entries, and on overflow forgets the
\* deepest.
LEMMA PushEntries ==
  ASSUME NEW r \in RasState, NEW p \in Pc
  PROVE  LET q == RasEntries(Pushed(r, p))
         IN /\ q \in Seq(Pc)
            /\ Len(q) = IF r.count < RasSize THEN r.count + 1 ELSE RasSize
            /\ q[1] = p
            /\ \A k \in 2 .. Len(q) : q[k] = RasEntries(r)[k - 1]
<1> DEFINE R == Pushed(r, p)
           top == (r.top + 1) % RasSize
<1>1. /\ r.stack \in [0 .. RasSize - 1 -> Pc]
      /\ r.top \in 0 .. RasSize - 1 /\ r.count \in 0 .. RasSize
  BY RasFields
<1>2. top = IF r.top = RasSize - 1 THEN 0 ELSE r.top + 1
  <2>1. CASE r.top = RasSize - 1
    <3>1. r.top + 1 = 0 + RasSize
      BY <1>1, <2>1, Sizes
    <3>2. (0 + RasSize) % RasSize = 0
      BY Sizes, ModPast
    <3> QED
      BY <2>1, <3>1, <3>2
  <2>2. CASE r.top # RasSize - 1
    <3>1. r.top + 1 \in 0 .. RasSize - 1
      BY <1>1, <2>2, Sizes
    <3> QED
      BY <2>2, <3>1, Sizes, ModInside
  <2> QED
    BY <2>1, <2>2
<1>3. /\ R \in RasState
      /\ R.top = top
      /\ R.count = IF r.count < RasSize THEN r.count + 1 ELSE r.count
      /\ R.stack = [r.stack EXCEPT ![top] = p]
  <2>1. R \in RasState
    BY RasTypes
  <2> QED
    BY <2>1 DEF Pushed
<1> HIDE DEF R, top
<1>4. /\ R.stack[top] = p
      /\ \A x \in 0 .. RasSize - 1 : x # top => R.stack[x] = r.stack[x]
      /\ top \in 0 .. RasSize - 1
  BY <1>1, <1>2, <1>3, Sizes
<1>5. /\ RasEntries(R) \in Seq(Pc) /\ Len(RasEntries(R)) = R.count
      /\ \A k \in 1 .. R.count : RasEntries(R)[k] = R.stack[RasSlot(R, k)]
  BY <1>3, EntriesFacts
<1>6. R.count = (IF r.count < RasSize THEN r.count + 1 ELSE RasSize) /\ R.count >= 1
      /\ R.count <= RasSize
  BY <1>1, <1>3, Sizes
<1>7. RasEntries(R)[1] = p
  <2>1. 1 \in 1 .. R.count /\ RasSlot(R, 1) = top
    BY <1>1, <1>2, <1>3, <1>6, Sizes DEF RasSlot
  <2> QED
    BY <1>4, <1>5, <2>1
<1>8. ASSUME NEW k \in 2 .. R.count PROVE RasEntries(R)[k] = RasEntries(r)[k - 1]
  <2>1. k \in 1 .. R.count /\ k - 1 \in 1 .. r.count /\ k \in Nat /\ k <= RasSize
    BY <1>1, <1>6, Sizes
  <2>2. /\ RasEntries(r)[k - 1] = r.stack[RasSlot(r, k - 1)]
        /\ RasSlot(r, k - 1) \in 0 .. RasSize - 1
    BY <2>1, EntriesFacts
  <2> DEFINE t == r.top
             n == RasSize
  <2>3. /\ t \in 0 .. n - 1 /\ n \in Nat /\ n >= 1 /\ k \in 2 .. n
        /\ top = IF t = n - 1 THEN 0 ELSE t + 1
        /\ RasSlot(R, k) = IF k - 1 <= top THEN top - (k - 1) ELSE top + n - (k - 1)
        /\ RasSlot(r, k - 1) = IF (k - 1) - 1 <= t THEN t - ((k - 1) - 1) ELSE t + n - ((k - 1) - 1)
    BY <1>1, <1>2, <1>3, <2>1, Sizes DEF RasSlot
  <2> HIDE DEF t, n
  <2>4. RasSlot(R, k) = RasSlot(r, k - 1) /\ RasSlot(R, k) # top
    <3>1. CASE t = n - 1
      BY <2>3, <3>1
    <3>2. CASE t # n - 1
      BY <2>3, <3>2
    <3> QED
      BY <3>1, <3>2
  <2> QED
    BY <1>4, <1>5, <2>1, <2>2, <2>4
<1> QED
  BY <1>5, <1>6, <1>7, <1>8 DEF R

\* pop() uncovers the entry below.
LEMMA PopEntries ==
  ASSUME NEW r \in RasState, r.count > 0
  PROVE  RasEntries(Popped(r)) = Tail(RasEntries(r)) /\ RasEntries(r) # <<>>
<1> DEFINE R == Popped(r)
           top == (r.top + RasSize - 1) % RasSize
<1>1. /\ r.stack \in [0 .. RasSize - 1 -> Pc]
      /\ r.top \in 0 .. RasSize - 1 /\ r.count \in 1 .. RasSize
  BY RasFields, Sizes
<1>2. top = IF r.top = 0 THEN RasSize - 1 ELSE r.top - 1
  <2>1. CASE r.top = 0
    <3>1. r.top + RasSize - 1 = RasSize - 1 /\ RasSize - 1 \in 0 .. RasSize - 1
      BY <2>1, Sizes
    <3>2. (RasSize - 1) % RasSize = RasSize - 1
      BY <3>1, Sizes, ModInside
    <3> QED
      BY <2>1, <3>1, <3>2
  <2>2. CASE r.top # 0
    <3>1. r.top - 1 \in 0 .. RasSize - 1 /\ r.top + RasSize - 1 = (r.top - 1) + RasSize
      BY <1>1, <2>2, Sizes
    <3>2. ((r.top - 1) + RasSize) % RasSize = r.top - 1
      BY <3>1, Sizes, ModPast
    <3> QED
      BY <2>2, <3>1, <3>2
  <2> QED
    BY <2>1, <2>2
<1>3. R \in RasState /\ R.top = top /\ R.count = r.count - 1 /\ R.stack = r.stack
  <2>1. R \in RasState
    BY RasTypes
  <2>2. r = [stack |-> r.stack, top |-> r.top, count |-> r.count]
    BY DEF RasState
  <2> QED
    BY <2>1, <2>2 DEF Popped
<1> HIDE DEF R, top
<1>4. /\ RasEntries(R) \in Seq(Pc) /\ Len(RasEntries(R)) = r.count - 1
      /\ RasEntries(r) \in Seq(Pc) /\ Len(RasEntries(r)) = r.count
      /\ \A k \in 1 .. R.count : RasEntries(R)[k] = R.stack[RasSlot(R, k)]
      /\ \A k \in 1 .. r.count : RasEntries(r)[k] = r.stack[RasSlot(r, k)]
  BY <1>3, EntriesFacts
<1>5. ASSUME NEW k \in 1 .. r.count - 1 PROVE RasEntries(R)[k] = RasEntries(r)[k + 1]
  <2>1. k \in 1 .. R.count /\ k + 1 \in 1 .. r.count
    BY <1>1, <1>3
  <2>2. RasSlot(R, k) = RasSlot(r, k + 1)
    BY <1>1, <1>2, <1>3, Sizes DEF RasSlot
  <2> QED
    BY <1>3, <1>4, <2>1, <2>2
<1>6. RasEntries(r) # <<>>
  BY <1>1, <1>4
<1>7. /\ Tail(RasEntries(r)) \in Seq(Pc) /\ Len(Tail(RasEntries(r))) = r.count - 1
      /\ \A k \in 1 .. r.count - 1 : Tail(RasEntries(r))[k] = RasEntries(r)[k + 1]
  BY <1>4, <1>6, TailFacts
<1> DEFINE a == RasEntries(R)
           b == Tail(RasEntries(r))
           n == r.count - 1
<1>8. a \in Seq(Pc) /\ b \in Seq(Pc) /\ Len(a) = n /\ Len(b) = n /\ \A k \in 1 .. n : a[k] = b[k]
  BY <1>4, <1>5, <1>7
<1> HIDE DEF a, b, n
<1>9. a = b
  BY <1>8
<1> QED
  BY <1>6, <1>9 DEF a, b, R

-----------------------------------------------------------------------------
(* Recovery is exact. *)

(***************************************************************************)
(* What exact recovery asks of stores: the instructions an address may     *)
(* hold are branches of one kind, so that a hit never takes an instruction *)
(* for another kind of branch.                                             *)
(***************************************************************************)
KindsStay == \A p \in Pc : \A i, j \in Versions(p) : KindOf(i) = KindOf(j)

\* A hit conditional branch was predicted taken exactly if it was not predicted
\* to fall through: the buffer holds no target that is the next instruction.
Directed(u) ==
  u.hit /\ KindOf(u.ins) = "CONDITIONAL" => (u.taken <=> u.pred # Succ(u.pc))

(***************************************************************************)
(* History h and return stack s, before and after each of the n oldest     *)
(* instructions of w; what fetch() saved with each is history from before  *)
(* it, the counter that history selects, and the return stack after it.    *)
(***************************************************************************)
Chain(h, s, w, n) ==
  \A k \in 1 .. n :
    /\ h[k] = GhrAfter(h[k - 1], w[k])
    /\ s[k] = StackAfter(s[k - 1], w[k])
    /\ w[k].snap.ghr = h[k - 1]
    /\ w[k].index = Xor(h[k - 1], w[k].pc, PhtSize)
    /\ RasEntries(w[k].snap.ras) = s[k]

Exact ==
  /\ \A i \in 1 .. Len(window) : Directed(window[i])
  /\ \E h, s :
       /\ h[0] = archGhr /\ s[0] = archStack
       /\ Chain(h, s, window, OnPathLen(window, offender))
       /\ OnPath => ghr = h[Len(window)] /\ RasEntries(ras) = s[Len(window)]

\* An instruction that resolved as before, or as predicted, does to history and
\* to the return stack what it did before.
LEMMA AfterLike ==
  ASSUME NEW u, NEW v, NEW g, NEW st, Like(u, v),
         \/ v.resolved = u.resolved /\ v.next = u.next
         \/ ~u.resolved /\ v.resolved /\ v.next = u.pred /\ Directed(u)
  PROVE  GhrAfter(g, v) = GhrAfter(g, u) /\ StackAfter(st, v) = StackAfter(st, u)
<1>1. StackAfter(st, v) = StackAfter(st, u)
  BY DEF StackAfter, Like
<1>2. CASE v.resolved = u.resolved /\ v.next = u.next
  BY <1>1, <1>2 DEF GhrAfter, Like
<1>3. CASE ~u.resolved /\ v.resolved /\ v.next = u.pred /\ Directed(u)
  <2>1. CASE u.hit /\ KindOf(u.ins) = "CONDITIONAL"
    <3>1. /\ GhrAfter(g, u) = Shifted(g, u.taken)
          /\ GhrAfter(g, v) = Shifted(g, u.pred # Succ(u.pc))
          /\ u.taken <=> u.pred # Succ(u.pc)
      BY <1>3, <2>1 DEF GhrAfter, Like, Directed
    <3>2. Bit(u.taken) = Bit(u.pred # Succ(u.pc))
      BY <3>1 DEF Bit
    <3> QED
      BY <1>1, <3>1, <3>2 DEF Shifted
  <2>2. CASE ~(u.hit /\ KindOf(u.ins) = "CONDITIONAL")
    BY <1>1, <2>2 DEF GhrAfter, Like
  <2> QED
    BY <2>1, <2>2
<1> QED
  BY <1>2, <1>3

\* A chain only looks at its instructions.
LEMMA ChainLike ==
  ASSUME NEW h, NEW s, NEW w, NEW v, NEW n \in Nat, NEW m \in 0 .. n,
         Chain(h, s, w, n),
         \A k \in 1 .. m :
           /\ Like(w[k], v[k])
           /\ \/ v[k].resolved = w[k].resolved /\ v[k].next = w[k].next
              \/ ~w[k].resolved /\ v[k].resolved /\ v[k].next = w[k].pred /\ Directed(w[k])
  PROVE  Chain(h, s, v, m)
<1> SUFFICES ASSUME NEW k \in 1 .. m
             PROVE  /\ h[k] = GhrAfter(h[k - 1], v[k])
                    /\ s[k] = StackAfter(s[k - 1], v[k])
                    /\ v[k].snap.ghr = h[k - 1]
                    /\ v[k].index = Xor(h[k - 1], v[k].pc, PhtSize)
                    /\ RasEntries(v[k].snap.ras) = s[k]
  BY DEF Chain
<1>1. k \in 1 .. n
  OBVIOUS
<1>2. /\ h[k] = GhrAfter(h[k - 1], w[k])
      /\ s[k] = StackAfter(s[k - 1], w[k])
      /\ w[k].snap.ghr = h[k - 1]
      /\ w[k].index = Xor(h[k - 1], w[k].pc, PhtSize)
      /\ RasEntries(w[k].snap.ras) = s[k]
  BY <1>1 DEF Chain
<1>3. /\ GhrAfter(h[k - 1], v[k]) = GhrAfter(h[k - 1], w[k])
      /\ StackAfter(s[k - 1], v[k]) = StackAfter(s[k - 1], w[k])
  BY AfterLike
<1>4. v[k].snap = w[k].snap /\ v[k].index = w[k].index /\ v[k].pc = w[k].pc
  BY DEF Like
<1> QED
  BY <1>2, <1>3, <1>4

\* Nothing decided about an entry changes.
LEMMA DirectedLike ==
  ASSUME NEW u, NEW v, Like(u, v), Directed(u)
  PROVE  Directed(v)
  BY DEF Like, Directed

\* What an instruction does to the stack, whatever the history.
LEMMA StackAfterFacts ==
  ASSUME NEW u \in InFlight, NEW s \in Seq(Pc), Len(s) <= RasSize
  PROVE  /\ StackAfter(s, u) \in Seq(Pc)
         /\ u.hit /\ KindOf(u.ins) = "CALL" =>
              /\ Len(StackAfter(s, u)) = IF Len(s) < RasSize THEN Len(s) + 1 ELSE RasSize
              /\ StackAfter(s, u)[1] = Succ(u.pc)
              /\ \A k \in 2 .. Len(StackAfter(s, u)) : StackAfter(s, u)[k] = s[k - 1]
         /\ u.hit /\ KindOf(u.ins) = "RETURN" /\ s # <<>> => StackAfter(s, u) = Tail(s)
         /\ ~(u.hit /\ KindOf(u.ins) = "CALL") /\ ~(u.hit /\ KindOf(u.ins) = "RETURN" /\ s # <<>>)
              => StackAfter(s, u) = s
<1>1. 0 \in Ghrs
  BY Sizes DEF Ghrs
<1> QED
  BY <1>1, AfterFacts

\* A call pushes, a return pops, and anything else leaves alone what the
\* program would.
LEMMA StackPredicted ==
  ASSUME NEW r \in RasState, NEW q \in RasState, NEW u \in InFlight,
         q = IF u.hit /\ KindOf(u.ins) = "RETURN" /\ r.count > 0 THEN Popped(r)
             ELSE IF u.hit /\ KindOf(u.ins) = "CALL" THEN Pushed(r, Succ(u.pc)) ELSE r
  PROVE  RasEntries(q) = StackAfter(RasEntries(r), u)
<1>1. /\ r.count \in 0 .. RasSize
      /\ RasEntries(r) \in Seq(Pc) /\ Len(RasEntries(r)) = r.count
      /\ u.pc \in Pc /\ Succ(u.pc) \in Pc
  BY RasFields, EntriesFacts, Ranges DEF InFlight
<1>2. (r.count > 0) <=> RasEntries(r) # <<>>
  BY <1>1, Sizes
<1>3. Len(RasEntries(r)) <= RasSize
  BY <1>1, Sizes
<1> DEFINE b == StackAfter(RasEntries(r), u)
<1>4. /\ b \in Seq(Pc)
      /\ u.hit /\ KindOf(u.ins) = "CALL" =>
           /\ Len(b) = IF r.count < RasSize THEN r.count + 1 ELSE RasSize
           /\ b[1] = Succ(u.pc)
           /\ \A k \in 2 .. Len(b) : b[k] = RasEntries(r)[k - 1]
      /\ u.hit /\ KindOf(u.ins) = "RETURN" /\ RasEntries(r) # <<>> => b = Tail(RasEntries(r))
      /\ ~(u.hit /\ KindOf(u.ins) = "CALL") /\ ~(u.hit /\ KindOf(u.ins) = "RETURN" /\ RasEntries(r) # <<>>)
           => b = RasEntries(r)
  <2> DEFINE e == RasEntries(r)
  <2>1. e \in Seq(Pc) /\ Len(e) <= RasSize /\ Len(e) = r.count
    BY <1>1, <1>3
  <2> HIDE DEF e
  <2>2. /\ StackAfter(e, u) \in Seq(Pc)
        /\ u.hit /\ KindOf(u.ins) = "CALL" =>
             /\ Len(StackAfter(e, u)) = IF Len(e) < RasSize THEN Len(e) + 1 ELSE RasSize
             /\ StackAfter(e, u)[1] = Succ(u.pc)
             /\ \A k \in 2 .. Len(StackAfter(e, u)) : StackAfter(e, u)[k] = e[k - 1]
        /\ u.hit /\ KindOf(u.ins) = "RETURN" /\ e # <<>> => StackAfter(e, u) = Tail(e)
        /\ ~(u.hit /\ KindOf(u.ins) = "CALL") /\ ~(u.hit /\ KindOf(u.ins) = "RETURN" /\ e # <<>>)
             => StackAfter(e, u) = e
    BY <2>1, StackAfterFacts
  <2>3. b = StackAfter(e, u)
    BY DEF e
  <2>4. e = RasEntries(r) /\ Len(e) = r.count
    BY <2>1 DEF e
  <2> HIDE DEF b
  <2>5. /\ b \in Seq(Pc)
        /\ u.hit /\ KindOf(u.ins) = "CALL" =>
             Len(b) = IF r.count < RasSize THEN r.count + 1 ELSE RasSize
    BY <2>1, <2>2, <2>3
  <2>6. u.hit /\ KindOf(u.ins) = "CALL" =>
          b[1] = Succ(u.pc) /\ \A k \in 2 .. Len(b) : b[k] = RasEntries(r)[k - 1]
    BY <2>2, <2>3, <2>4
  <2>7. /\ u.hit /\ KindOf(u.ins) = "RETURN" /\ RasEntries(r) # <<>> => b = Tail(RasEntries(r))
        /\ ~(u.hit /\ KindOf(u.ins) = "CALL") /\ ~(u.hit /\ KindOf(u.ins) = "RETURN" /\ RasEntries(r) # <<>>)
             => b = RasEntries(r)
    BY <2>2, <2>3, <2>4
  <2> QED
    BY <2>5, <2>6, <2>7
<1> HIDE DEF b
<1>5. CASE u.hit /\ KindOf(u.ins) = "RETURN" /\ r.count > 0
  <2>1. q = Popped(r) /\ RasEntries(q) = Tail(RasEntries(r))
    BY <1>5, PopEntries
  <2> QED
    BY <1>2, <1>4, <1>5, <2>1 DEF b
<1>6. CASE u.hit /\ KindOf(u.ins) = "CALL"
  <2>1. q = Pushed(r, Succ(u.pc))
    BY <1>6
  <2> DEFINE a == RasEntries(q)
             n == IF r.count < RasSize THEN r.count + 1 ELSE RasSize
  <2>2. /\ a \in Seq(Pc) /\ Len(a) = n
        /\ a[1] = Succ(u.pc)
        /\ \A k \in 2 .. Len(a) : a[k] = RasEntries(r)[k - 1]
    <3> DEFINE p == Succ(u.pc)
               c == RasEntries(Pushed(r, p))
    <3>1. p \in Pc
      BY <1>1
    <3> HIDE DEF p
    <3>2. /\ c \in Seq(Pc) /\ Len(c) = n
          /\ c[1] = p
          /\ \A k \in 2 .. Len(c) : c[k] = RasEntries(r)[k - 1]
      BY <3>1, PushEntries
    <3>3. a = c
      BY <2>1 DEF p
    <3> QED
      BY <3>2, <3>3 DEF p
  <2>3. /\ b \in Seq(Pc) /\ Len(b) = n
        /\ b[1] = Succ(u.pc)
        /\ \A k \in 2 .. Len(b) : b[k] = RasEntries(r)[k - 1]
    BY <1>4, <1>6
  <2>4. n \in Nat
    BY <1>1, Sizes
  <2> HIDE DEF a, n
  <2>5. \A k \in 1 .. n : a[k] = b[k]
    <3>1. \A k \in 1 .. n : k = 1 \/ k \in 2 .. n
      BY <2>4
    <3> QED
      BY <2>2, <2>3, <3>1
  <2>6. a = b
    BY <2>2, <2>3, <2>4, <2>5
  <2> QED
    BY <2>6 DEF a, b
<1>7. CASE /\ ~(u.hit /\ KindOf(u.ins) = "RETURN" /\ r.count > 0)
           /\ ~(u.hit /\ KindOf(u.ins) = "CALL")
  <2>1. q = r
    BY <1>7
  <2> QED
    BY <1>2, <1>4, <1>7, <2>1 DEF b
<1> QED
  BY <1>5, <1>6, <1>7

\* fetch() shifts, pushes and pops what the instruction it fetched will, if
\* predictions hold: a hit tells its kind.
LEMMA FetchExact == ASSUME KindsStay, TypeOK, Learned, Exact, Fetch PROVE Exact'
<1> DEFINE n == Len(window)
           pr == Predict(pc)
           u == window'[n + 1]
           hit == Lookup(pc)
<1>1. /\ mode = "run" /\ ~stalled /\ offender = 0 /\ n \in Nat
      /\ window' \in Seq(InFlight) /\ Len(window') = n + 1
      /\ \A j \in 1 .. n : window'[j] = window[j]
      /\ u.pc = pc /\ u.ins = code[pc] /\ u.hit = pr.hit /\ u.taken = pr.taken
      /\ u.pred = pr.next /\ u.index = pr.index
      /\ u.snap.ghr = ghr /\ u.snap.ras = pr.ras /\ ~u.resolved
      /\ ghr' = pr.ghr /\ ras' = pr.ras
      /\ UNCHANGED <<stalled, offender, archGhr, archStack, mode>>
  BY FetchFacts
<1>2. /\ pr.hit <=> hit.valid
      /\ pr.hit \in BOOLEAN /\ pr.taken \in BOOLEAN
      /\ pr.index = Xor(ghr, pc, PhtSize)
      /\ pr.ghr = IF hit.valid /\ hit.kind = "CONDITIONAL" THEN Shifted(ghr, pr.taken) ELSE ghr
      /\ pr.ras \in RasState
      /\ pr.ras = IF hit.valid /\ hit.kind = "RETURN" /\ ras.count > 0 THEN Popped(ras)
                  ELSE IF hit.valid /\ hit.kind = "CALL" THEN Pushed(ras, Succ(pc)) ELSE ras
      /\ ~pr.taken => pr.next = Succ(pc)
      /\ hit.valid /\ hit.kind = "CONDITIONAL" /\ pr.taken => pr.next = hit.target
  BY PredictFacts
<1>3. hit.valid => hit.kind = KindOf(u.ins) /\ hit.target # Succ(pc)
  <2>1. pc \in Pc /\ code[pc] \in Versions(pc)
    BY DEF TypeOK, Learned
  <2> QED
    BY <1>1, <2>1, HitFacts DEF KindsStay
<1>4. u \in InFlight /\ ras \in RasState
  <2>1. n + 1 \in 1 .. Len(window')
    BY <1>1
  <2> QED
    BY <1>1, <2>1 DEF TypeOK
<1> HIDE DEF u, hit, pr
<1>5. ghr' = GhrAfter(ghr, u)
  BY <1>1, <1>2, <1>3 DEF GhrAfter
<1>6. RasEntries(ras') = StackAfter(RasEntries(ras), u)
  <2>1. ras' = IF u.hit /\ KindOf(u.ins) = "RETURN" /\ ras.count > 0 THEN Popped(ras)
               ELSE IF u.hit /\ KindOf(u.ins) = "CALL" THEN Pushed(ras, Succ(u.pc)) ELSE ras
    BY <1>1, <1>2, <1>3
  <2>2. ras' \in RasState
    BY <1>1, <1>2
  <2> QED
    BY <1>4, <2>1, <2>2, StackPredicted
<1>7. Directed(u)
  BY <1>1, <1>2, <1>3 DEF Directed
<1>8. PICK h, s :
        /\ h[0] = archGhr /\ s[0] = archStack
        /\ Chain(h, s, window, OnPathLen(window, offender))
        /\ OnPath => ghr = h[n] /\ RasEntries(ras) = s[n]
  BY DEF Exact
<1>9. Chain(h, s, window, n) /\ ghr = h[n] /\ RasEntries(ras) = s[n]
  BY <1>1, <1>8 DEF OnPathLen, OnPath
<1> DEFINE h1 == [k \in 0 .. n + 1 |-> IF k <= n THEN h[k] ELSE ghr']
           s1 == [k \in 0 .. n + 1 |-> IF k <= n THEN s[k] ELSE RasEntries(ras')]
<1>10. /\ \A k \in 0 .. n : h1[k] = h[k] /\ s1[k] = s[k]
       /\ h1[n + 1] = ghr' /\ s1[n + 1] = RasEntries(ras')
  BY <1>1
<1> HIDE DEF h1, s1
<1>11. Chain(h1, s1, window', n + 1)
  <2> SUFFICES ASSUME NEW k \in 1 .. n + 1
               PROVE  /\ h1[k] = GhrAfter(h1[k - 1], window'[k])
                      /\ s1[k] = StackAfter(s1[k - 1], window'[k])
                      /\ window'[k].snap.ghr = h1[k - 1]
                      /\ window'[k].index = Xor(h1[k - 1], window'[k].pc, PhtSize)
                      /\ RasEntries(window'[k].snap.ras) = s1[k]
    BY DEF Chain
  <2>1. CASE k = n + 1
    <3>1. (n + 1) - 1 = n /\ n \in 0 .. n
      BY <1>1
    <3>2. window'[k] = u /\ h1[k - 1] = ghr /\ s1[k - 1] = RasEntries(ras)
      BY <1>9, <1>10, <2>1, <3>1 DEF u
    <3> QED
      BY <1>1, <1>2, <1>5, <1>6, <1>10, <2>1, <3>2
  <2>2. CASE k # n + 1
    <3>1. k \in 1 .. n /\ k \in 0 .. n /\ k - 1 \in 0 .. n
      BY <1>1, <2>2
    <3> QED
      BY <1>1, <1>9, <1>10, <3>1 DEF Chain
  <2> QED
    BY <2>1, <2>2
<1>12. \A i \in 1 .. Len(window') : Directed(window'[i])
  BY <1>1, <1>7 DEF Exact, u
<1>13. OnPathLen(window', offender') = n + 1
  BY <1>1 DEF OnPathLen
<1>14. h1[0] = archGhr' /\ s1[0] = archStack'
  <2>1. 0 \in 0 .. n
    BY <1>1
  <2> QED
    BY <1>1, <1>8, <1>10, <2>1
<1> QED
  BY <1>1, <1>10, <1>11, <1>12, <1>13, <1>14 DEF Exact

\* decode_stage() keeps a prefix; if it dropped anything fetch has stopped.
LEMMA DecodeExact ==
  ASSUME TypeOK, Exact, NEW i \in DOMAIN window, Decode(i) PROVE Exact'
<1> DEFINE m == Len(window')
<1>1. /\ offender = 0 /\ (stalled => stalled')
      /\ m \in Nat /\ m <= Len(window) /\ Len(window) \in Nat
      /\ m < Len(window) => stalled'
      /\ \A j \in 1 .. m : /\ Like(window[j], window'[j])
                           /\ window'[j].resolved = window[j].resolved
                           /\ window'[j].next = window[j].next
                           /\ j \in 1 .. Len(window)
  BY DecodeFacts DEF TypeOK
<1>2. UNCHANGED <<ghr, ras, offender, archGhr, archStack, mode>>
  BY DEF Decode
<1>3. PICK h, s :
        /\ h[0] = archGhr /\ s[0] = archStack
        /\ Chain(h, s, window, OnPathLen(window, offender))
        /\ OnPath => ghr = h[Len(window)] /\ RasEntries(ras) = s[Len(window)]
  BY DEF Exact
<1>4. OnPathLen(window, offender) = Len(window) /\ OnPathLen(window', offender') = m
  BY <1>1, <1>2 DEF OnPathLen
<1>5. Chain(h, s, window', m)
  <2>1. m \in 0 .. Len(window)
    BY <1>1
  <2> QED
    BY <1>1, <1>3, <1>4, <2>1, ChainLike
<1>6. OnPath' => ghr' = h[m] /\ RasEntries(ras') = s[m]
  <2> SUFFICES ASSUME OnPath' PROVE ghr' = h[m] /\ RasEntries(ras') = s[m]
    OBVIOUS
  <2>1. m = Len(window) /\ OnPath
    BY <1>1, <1>2 DEF OnPath
  <2> QED
    BY <1>2, <1>3, <2>1
<1>7. \A j \in 1 .. m : Directed(window'[j])
  BY <1>1, DirectedLike DEF Exact
<1> QED
  BY <1>2, <1>3, <1>4, <1>5, <1>6, <1>7 DEF Exact

\* issue(): an outcome as predicted changes nothing; another is new history of
\* the branch, now the end of the path.
LEMMA ResolveExact ==
  ASSUME TypeOK, OffenderResolved, Exact,
         NEW i \in DOMAIN window, NEW next \in Outcomes(window[i].ins, window[i].pc),
         Resolve(i, next)
  PROVE  Exact'
<1> DEFINE n == Len(window)
           N == OnPathLen(window, offender)
           M == OnPathLen(window', offender')
<1>0. next \in Pc /\ n \in Nat /\ offender \in 0 .. n
  BY ResolveType DEF TypeOK
<1>1. /\ ~window[i].resolved /\ i \in 1 .. n
      /\ Len(window') = n
      /\ \A j \in 1 .. n : Like(window[j], window'[j]) /\ (j # i => window'[j] = window[j])
      /\ window'[i].resolved /\ window'[i].next = next
      /\ offender' = IF next # window[i].pred /\ (offender = 0 \/ i < offender)
                     THEN i ELSE offender
  BY <1>0, ResolveFacts
<1>2. UNCHANGED <<stalled, ghr, ras, archGhr, archStack, mode>>
  BY DEF Resolve
<1>3. PICK h, s :
        /\ h[0] = archGhr /\ s[0] = archStack
        /\ Chain(h, s, window, N)
        /\ OnPath => ghr = h[n] /\ RasEntries(ras) = s[n]
  BY DEF Exact
<1>4. \A j \in 1 .. n : Directed(window'[j]) /\ Directed(window[j])
  BY <1>1, DirectedLike DEF Exact
<1>5. N \in Nat /\ N <= n
  BY <1>0 DEF OnPathLen
<1>6. CASE offender' = i /\ next # window[i].pred
  <2>1. M = i /\ i <= N /\ i \in Nat /\ i >= 1 /\ offender' # 0
    BY <1>0, <1>1, <1>6 DEF OnPathLen
  <2> DEFINE h1 == [k \in 0 .. i |-> IF k < i THEN h[k] ELSE GhrAfter(h[i - 1], window'[i])]
  <2>2. /\ \A k \in 0 .. i : k < i => h1[k] = h[k]
        /\ h1[i] = GhrAfter(h[i - 1], window'[i])
    BY <2>1
  <2> HIDE DEF h1
  <2>3. Chain(h1, s, window', i)
    <3> SUFFICES ASSUME NEW k \in 1 .. i
                 PROVE  /\ h1[k] = GhrAfter(h1[k - 1], window'[k])
                        /\ s[k] = StackAfter(s[k - 1], window'[k])
                        /\ window'[k].snap.ghr = h1[k - 1]
                        /\ window'[k].index = Xor(h1[k - 1], window'[k].pc, PhtSize)
                        /\ RasEntries(window'[k].snap.ras) = s[k]
      BY DEF Chain
    <3>1. /\ k \in 1 .. N /\ k \in 1 .. n /\ k - 1 \in 0 .. i /\ k - 1 < i
          /\ k # i => k \in 0 .. i /\ k < i
      BY <1>0, <1>5, <2>1
    <3>2. /\ h[k] = GhrAfter(h[k - 1], window[k])
          /\ s[k] = StackAfter(s[k - 1], window[k])
          /\ window[k].snap.ghr = h[k - 1]
          /\ window[k].index = Xor(h[k - 1], window[k].pc, PhtSize)
          /\ RasEntries(window[k].snap.ras) = s[k]
      BY <1>3, <3>1 DEF Chain
    <3>3. Like(window[k], window'[k]) /\ h1[k - 1] = h[k - 1]
      BY <1>1, <2>2, <3>1
    <3>4. h1[k] = GhrAfter(h1[k - 1], window'[k])
      <4>1. CASE k = i
        BY <2>2, <3>3, <4>1
      <4>2. CASE k # i
        BY <1>1, <2>2, <3>1, <3>2, <3>3, <4>2
      <4> QED
        BY <4>1, <4>2
    <3>5. StackAfter(s[k - 1], window'[k]) = StackAfter(s[k - 1], window[k])
      BY <3>3 DEF StackAfter, Like
    <3> QED
      BY <3>2, <3>3, <3>4, <3>5 DEF Like
  <2>4. h1[0] = archGhr' /\ s[0] = archStack'
    <3>1. 0 \in 0 .. i /\ 0 < i
      BY <2>1
    <3> QED
      BY <1>2, <1>3, <2>2, <3>1
  <2>5. ~OnPath'
    BY <2>1 DEF OnPath
  <2> QED
    BY <1>1, <1>4, <2>1, <2>3, <2>4, <2>5 DEF Exact
<1>7. CASE offender' = offender /\ (next = window[i].pred \/ (offender # 0 /\ ~(i < offender)))
  <2>1. /\ M = N
        /\ \A k \in 1 .. N : k = i => next = window[i].pred \/ k = offender
    BY <1>0, <1>1, <1>7 DEF OnPathLen
  <2>2. CASE next = window[i].pred
    <3>1. Chain(h, s, window', N)
      <4>1. ASSUME NEW k \in 1 .. N
            PROVE  /\ Like(window[k], window'[k])
                   /\ \/ window'[k].resolved = window[k].resolved /\ window'[k].next = window[k].next
                      \/ /\ ~window[k].resolved /\ window'[k].resolved
                         /\ window'[k].next = window[k].pred /\ Directed(window[k])
        <5>1. k \in 1 .. n
          BY <1>0, <1>5
        <5> QED
          BY <1>1, <1>4, <2>2, <5>1
      <4>2. N \in 0 .. N
        BY <1>5
      <4> QED
        BY <1>3, <1>5, <4>1, <4>2, ChainLike
    <3>2. OnPath' => ghr' = h[n] /\ RasEntries(ras') = s[n]
      BY <1>2, <1>3, <1>7 DEF OnPath
    <3> QED
      BY <1>1, <1>2, <1>3, <1>4, <2>1, <3>1, <3>2 DEF Exact
  <2>3. CASE next # window[i].pred
    <3>1. offender # 0 /\ ~(i < offender) /\ N = offender
      BY <1>7, <2>3 DEF OnPathLen
    <3>2. CASE i # offender
      <4>1. Chain(h, s, window', N)
        <5>1. ASSUME NEW k \in 1 .. N
              PROVE  window'[k] = window[k]
          <6>1. k \in 1 .. n /\ k # i
            BY <1>0, <1>1, <3>1, <3>2
          <6> QED
            BY <1>1, <6>1
        <5> QED
          BY <1>3, <5>1 DEF Chain
      <4>2. ~OnPath'
        BY <1>7, <3>1 DEF OnPath
      <4> QED
        BY <1>1, <1>2, <1>3, <1>4, <2>1, <4>1, <4>2 DEF Exact
    <3>3. CASE i = offender
      BY <1>1, <3>1, <3>3 DEF OffenderResolved
    <3> QED
      BY <3>2, <3>3
  <2> QED
    BY <2>2, <2>3
<1> QED
  BY <1>1, <1>6, <1>7

\* recover() puts back the history before the branch with its resolved outcome
\* shifted in, and the return stack after it.
LEMMA RecoverExact ==
  ASSUME TypeOK, OffenderResolved, Exact, Recover PROVE Exact'
<1> DEFINE o == offender
           br == window[o]
<1>1. /\ o \in 1 .. Len(window) /\ Len(window') = o
      /\ \A j \in 1 .. o : window'[j] = window[j] /\ j \in 1 .. Len(window)
      /\ ghr' = Restored(br) /\ ras' = br.snap.ras
      /\ offender' = 0
      /\ UNCHANGED <<archGhr, archStack, mode>>
  BY RecoverFacts
<1>2. o \in Nat /\ o >= 1 /\ br.resolved
  <2>1. o \in Nat /\ o >= 1
    BY <1>1 DEF TypeOK
  <2> QED
    BY <2>1 DEF OffenderResolved
<1>3. PICK h, s :
        /\ h[0] = archGhr /\ s[0] = archStack
        /\ Chain(h, s, window, OnPathLen(window, offender))
        /\ OnPath => ghr = h[Len(window)] /\ RasEntries(ras) = s[Len(window)]
  BY DEF Exact
<1>4. OnPathLen(window, offender) = o /\ OnPathLen(window', offender') = o
  BY <1>1, <1>2 DEF OnPathLen
<1>5. Chain(h, s, window', o)
  BY <1>1, <1>3, <1>4 DEF Chain
<1>6. ghr' = h[o] /\ RasEntries(ras') = s[o]
  <2>1. o \in 1 .. o
    BY <1>2
  <2>2. /\ h[o] = GhrAfter(h[o - 1], br) /\ br.snap.ghr = h[o - 1]
        /\ RasEntries(br.snap.ras) = s[o]
    BY <1>3, <1>4, <2>1 DEF Chain
  <2>3. Restored(br) = GhrAfter(h[o - 1], br)
    BY <1>2, <2>2 DEF Restored, GhrAfter
  <2> QED
    BY <1>1, <2>2, <2>3
<1>7. \A j \in 1 .. o : Directed(window'[j])
  BY <1>1 DEF Exact
<1> HIDE DEF o, br
<1> QED
  BY <1>1, <1>3, <1>4, <1>5, <1>6, <1>7 DEF Exact

\* commit() moves the start of the chain behind the oldest instruction.
LEMMA CommitExact == ASSUME TypeOK, Exact, Commit PROVE Exact'
<1> DEFINE n == Len(window)
           u == window[1]
<1>1. /\ offender = 0 /\ n \in Nat /\ n >= 1
      /\ archGhr' = GhrAfter(archGhr, u) /\ archStack' = StackAfter(archStack, u)
      /\ UNCHANGED <<ghr, ras, offender>>
      /\ \/ mode' = "done" /\ window' = <<>>
         \/ /\ mode' = mode /\ stalled' = stalled
            /\ Len(window') = n - 1
            /\ \A j \in 1 .. n - 1 : window'[j] = window[j + 1] /\ j + 1 \in 1 .. n
  BY CommitFacts
<1>2. PICK h, s :
        /\ h[0] = archGhr /\ s[0] = archStack
        /\ Chain(h, s, window, OnPathLen(window, offender))
        /\ OnPath => ghr = h[n] /\ RasEntries(ras) = s[n]
  BY DEF Exact
<1>3. Chain(h, s, window, n)
  BY <1>1, <1>2 DEF OnPathLen
<1>4. h[1] = archGhr' /\ s[1] = archStack'
  <2>1. 1 \in 1 .. n /\ 1 - 1 = 0
    BY <1>1
  <2>2. h[1] = GhrAfter(h[1 - 1], u) /\ s[1] = StackAfter(s[1 - 1], u)
    BY <1>3, <2>1 DEF Chain
  <2> QED
    BY <1>1, <1>2, <2>1, <2>2
<1> DEFINE h1 == [k \in 0 .. n - 1 |-> h[k + 1]]
           s1 == [k \in 0 .. n - 1 |-> s[k + 1]]
<1>5. \A k \in 0 .. n - 1 : h1[k] = h[k + 1] /\ s1[k] = s[k + 1]
  OBVIOUS
<1> HIDE DEF h1, s1
<1>6. h1[0] = archGhr' /\ s1[0] = archStack'
  <2>1. 0 \in 0 .. n - 1 /\ 0 + 1 = 1
    BY <1>1
  <2> QED
    BY <1>4, <1>5, <2>1
<1>7. CASE mode' = "done" /\ window' = <<>>
  <2>1. OnPathLen(window', offender') = 0 /\ Len(window') = 0
    BY <1>1, <1>7 DEF OnPathLen
  <2>2. Chain(h1, s1, window', 0)
    BY DEF Chain
  <2>3. ~OnPath'
    BY <1>7 DEF OnPath
  <2> QED
    BY <1>6, <2>1, <2>2, <2>3 DEF Exact
<1>8. CASE /\ mode' = mode /\ stalled' = stalled
           /\ Len(window') = n - 1
           /\ \A j \in 1 .. n - 1 : window'[j] = window[j + 1] /\ j + 1 \in 1 .. n
  <2>1. OnPathLen(window', offender') = n - 1
    BY <1>1, <1>8 DEF OnPathLen
  <2>2. Chain(h1, s1, window', n - 1)
    <3> SUFFICES ASSUME NEW k \in 1 .. n - 1
                 PROVE  /\ h1[k] = GhrAfter(h1[k - 1], window'[k])
                        /\ s1[k] = StackAfter(s1[k - 1], window'[k])
                        /\ window'[k].snap.ghr = h1[k - 1]
                        /\ window'[k].index = Xor(h1[k - 1], window'[k].pc, PhtSize)
                        /\ RasEntries(window'[k].snap.ras) = s1[k]
      BY DEF Chain
    <3>1. /\ k \in 0 .. n - 1 /\ k - 1 \in 0 .. n - 1 /\ k + 1 \in 1 .. n
          /\ (k + 1) - 1 = k /\ (k - 1) + 1 = k
      BY <1>1
    <3>2. /\ h[k + 1] = GhrAfter(h[(k + 1) - 1], window[k + 1])
          /\ s[k + 1] = StackAfter(s[(k + 1) - 1], window[k + 1])
          /\ window[k + 1].snap.ghr = h[(k + 1) - 1]
          /\ window[k + 1].index = Xor(h[(k + 1) - 1], window[k + 1].pc, PhtSize)
          /\ RasEntries(window[k + 1].snap.ras) = s[k + 1]
      BY <1>3, <3>1 DEF Chain
    <3>3. /\ h1[k] = h[k + 1] /\ h1[k - 1] = h[k]
          /\ s1[k] = s[k + 1] /\ s1[k - 1] = s[k]
          /\ window'[k] = window[k + 1]
      BY <1>5, <1>8, <3>1
    <3> QED
      BY <3>1, <3>2, <3>3
  <2>3. OnPath' => ghr' = h1[n - 1] /\ RasEntries(ras') = s1[n - 1]
    <3>1. n - 1 \in 0 .. n - 1 /\ (n - 1) + 1 = n
      BY <1>1
    <3>2. h1[n - 1] = h[n] /\ s1[n - 1] = s[n]
      BY <1>5, <3>1
    <3> QED
      BY <1>1, <1>2, <1>8, <3>2 DEF OnPath
  <2>4. \A j \in 1 .. Len(window') : Directed(window'[j])
    BY <1>8 DEF Exact
  <2> QED
    BY <1>6, <1>8, <2>1, <2>2, <2>3, <2>4 DEF Exact
<1> QED
  BY <1>1, <1>7, <1>8

\* A step outside the front end's speculative state.
LEMMA StillExact ==
  ASSUME Exact, UNCHANGED <<stalled, ghr, ras, window, offender, archGhr, archStack, mode>>
  PROVE  Exact'
  BY DEF Exact, OnPath

\* At reset there is no history.
LEMMA InitExact == Init => Exact
<1> SUFFICES ASSUME Init PROVE Exact
  OBVIOUS
<1>1. /\ window = <<>> /\ offender = 0 /\ ghr = 0 /\ archGhr = 0 /\ ras = EmptyRas
      /\ archStack = <<>> /\ Len(window) = 0
  BY DEF Init
<1>2. RasEntries(EmptyRas) = <<>>
  <2>1. EmptyRas.count = 0 /\ EmptyRas \in RasState
    BY <1>1, InitType DEF EmptyRas, TypeOK
  <2>2. RasEntries(EmptyRas) \in Seq(Pc) /\ Len(RasEntries(EmptyRas)) = 0
    BY <2>1, EntriesFacts
  <2> QED
    BY <2>2
<1> DEFINE h == [k \in {0} |-> archGhr]
           s == [k \in {0} |-> archStack]
<1>3. h[0] = archGhr /\ s[0] = archStack
  OBVIOUS
<1>4. Chain(h, s, window, 0) /\ OnPathLen(window, offender) = 0
  BY <1>1 DEF Chain, OnPathLen
<1> HIDE DEF h, s
<1> QED
  BY <1>1, <1>2, <1>3, <1>4 DEF Exact

\* The inductive invariant of recovery: exact history of everything on the
\* path, saved snapshots included, which needs the buffer to tell the truth.
ExactInv ==
  TypeOK /\ Learned /\ OffenderResolved /\ Exact

\* Every step keeps it.
LEMMA NextExact == ASSUME KindsStay, ExactInv, PathIsConnected, [Next]_vars PROVE ExactInv'
<1>0. TypeOK /\ Learned /\ OffenderResolved /\ Exact
  BY DEF ExactInv
<1>1. TypeOK' /\ Learned'
  BY <1>0, NextType, NextLearned
<1>2. CASE UNCHANGED vars
  BY <1>0, <1>1, <1>2, StillExact, StillPath DEF vars, ExactInv
<1>3. ASSUME NEW i \in DOMAIN window, Decode(i) PROVE OffenderResolved' /\ Exact'
  BY <1>0, <1>3, DecodePath, DecodeExact
<1>4. ASSUME NEW i \in DOMAIN window, NEW next \in Outcomes(window[i].ins, window[i].pc),
             Resolve(i, next)
      PROVE  OffenderResolved' /\ Exact'
  BY <1>0, <1>4, ResolvePath, ResolveExact
<1>5. ASSUME NEW r \in Rewrites, Rewrite(r[1], r[2]) PROVE OffenderResolved' /\ Exact'
  BY <1>0, <1>5, StillExact, StillPath DEF Rewrite
<1>6. ASSUME Fetch PROVE OffenderResolved' /\ Exact'
  BY <1>0, <1>6, FetchPath, FetchExact
<1>7. ASSUME Recover PROVE OffenderResolved' /\ Exact'
  BY <1>0, <1>7, RecoverPath, RecoverExact
<1>8. ASSUME Commit PROVE OffenderResolved' /\ Exact'
  BY <1>0, <1>8, CommitPath, CommitExact
<1> QED
  BY <1>1, <1>2, <1>3, <1>4, <1>5, <1>6, <1>7, <1>8 DEF Next, ExactInv

\* It holds in every state of every run.
LEMMA AlwaysExact == ASSUME KindsStay PROVE Spec => []ExactInv
<1>1. Init => ExactInv
  BY InitType, InitLearned, InitExact DEF ExactInv, OffenderResolved, Init
<1>2. ExactInv /\ PathIsConnected /\ [Next]_vars => ExactInv'
  BY NextExact
<1> QED
  BY <1>1, <1>2, OnePath, PTL DEF Spec

\* The history and return stack the properties compute are the only chain from
\* the committed ones.
LEMMA PathsAreChain ==
  ASSUME TypeOK, NEW h, NEW s, h[0] = archGhr, s[0] = archStack,
         Chain(h, s, window, Len(window))
  PROVE  \A k \in 0 .. Len(window) : GhrPath[k] = h[k] /\ StackPath[k] = s[k]
<1> DEFINE n == Len(window)
<1>0. n \in Nat
  BY DEF TypeOK
<1>1. \A k \in 1 .. n : h[k] = GhrAfter(h[k - 1], window[k]) /\ s[k] = StackAfter(s[k - 1], window[k])
  BY DEF Chain
<1> DEFINE G(g) == [k \in 0 .. n |-> IF k = 0 THEN archGhr ELSE GhrAfter(g[k - 1], window[k])]
           S(g) == [k \in 0 .. n |-> IF k = 0 THEN archStack ELSE StackAfter(g[k - 1], window[k])]
<1>2. /\ \E g : g = G(g)
      /\ \E g : g = S(g)
  <2> DEFINE g1 == [k \in 0 .. n |-> h[k]]
             g2 == [k \in 0 .. n |-> s[k]]
  <2>1. ASSUME NEW k \in 0 .. n
        PROVE  /\ g1[k] = IF k = 0 THEN archGhr ELSE GhrAfter(g1[k - 1], window[k])
               /\ g2[k] = IF k = 0 THEN archStack ELSE StackAfter(g2[k - 1], window[k])
    <3>1. CASE k = 0
      BY <3>1
    <3>2. CASE k # 0
      <4>1. k \in 1 .. n /\ k - 1 \in 0 .. n
        BY <1>0, <3>2
      <4>2. g1[k] = h[k] /\ g1[k - 1] = h[k - 1] /\ g2[k] = s[k] /\ g2[k - 1] = s[k - 1]
        BY <4>1
      <4> HIDE DEF g1, g2
      <4> QED
        BY <1>1, <3>2, <4>1, <4>2
    <3> QED
      BY <3>1, <3>2
  <2>2. g1 = G(g1)
    BY <2>1
  <2>3. g2 = S(g2)
    BY <2>1
  <2> QED
    BY <2>2, <2>3
<1>3. GhrPath = G(GhrPath)
  BY <1>2 DEF GhrPath
<1>4. StackPath = S(StackPath)
  BY <1>2 DEF StackPath
<1>5. \A k \in 0 .. n :
        /\ GhrPath[k] = IF k = 0 THEN archGhr ELSE GhrAfter(GhrPath[k - 1], window[k])
        /\ StackPath[k] = IF k = 0 THEN archStack ELSE StackAfter(StackPath[k - 1], window[k])
  BY <1>3, <1>4
<1> HIDE DEF G, S
<1> DEFINE P == {k \in Nat : k <= n => GhrPath[k] = h[k] /\ StackPath[k] = s[k]}
<1>6. 0 \in P
  <2>1. 0 \in 0 .. n
    BY <1>0
  <2> QED
    BY <1>5, <2>1
<1>7. ASSUME NEW k \in Nat, k \in P PROVE k + 1 \in P
  <2> SUFFICES ASSUME k + 1 <= n
               PROVE  GhrPath[k + 1] = h[k + 1] /\ StackPath[k + 1] = s[k + 1]
    OBVIOUS
  <2>1. k + 1 \in 0 .. n /\ k + 1 \in 1 .. n /\ (k + 1) - 1 = k /\ k + 1 # 0 /\ k <= n
    BY <1>0
  <2>2. GhrPath[k] = h[k] /\ StackPath[k] = s[k]
    BY <1>7, <2>1
  <2> HIDE DEF P
  <2>3. /\ GhrPath[k + 1] = GhrAfter(GhrPath[(k + 1) - 1], window[k + 1])
        /\ StackPath[k + 1] = StackAfter(StackPath[(k + 1) - 1], window[k + 1])
    BY <1>5, <2>1
  <2>4. /\ h[k + 1] = GhrAfter(h[(k + 1) - 1], window[k + 1])
        /\ s[k + 1] = StackAfter(s[(k + 1) - 1], window[k + 1])
    BY <1>1, <2>1
  <2> QED
    BY <2>1, <2>2, <2>3, <2>4
<1> HIDE DEF P
<1>8. Nat \subseteq P
  BY <1>6, <1>7, Induction
<1> QED
  <2>1. \A k \in 0 .. n : k \in Nat /\ k <= n
    BY <1>0
  <2> QED
    BY <1>8, <2>1 DEF P

\* What the three properties say, from the chain.
LEMMA ExactReads == ExactInv => GhrOnPath /\ RasOnPath /\ IndexOnPath
<1> SUFFICES ASSUME ExactInv PROVE GhrOnPath /\ RasOnPath /\ IndexOnPath
  OBVIOUS
<1> DEFINE n == Len(window)
<1>1. TypeOK /\ Exact /\ n \in Nat
  BY DEF ExactInv, TypeOK
<1>2. PICK h, s :
        /\ h[0] = archGhr /\ s[0] = archStack
        /\ Chain(h, s, window, OnPathLen(window, offender))
        /\ OnPath => ghr = h[n] /\ RasEntries(ras) = s[n]
  BY <1>1 DEF Exact
<1>3. CASE offender = 0
  <2>1. Chain(h, s, window, n)
    BY <1>2, <1>3 DEF OnPathLen
  <2>2. \A k \in 0 .. n : GhrPath[k] = h[k] /\ StackPath[k] = s[k]
    BY <1>1, <1>2, <2>1, PathsAreChain
  <2>3. n \in 0 .. n /\ \A i \in 1 .. n : i - 1 \in 0 .. n
    BY <1>1
  <2>4. GhrOnPath /\ RasOnPath
    BY <1>2, <2>2, <2>3 DEF GhrOnPath, RasOnPath
  <2>5. \A i \in DOMAIN window : i \in 1 .. n
    BY <1>1 DEF TypeOK
  <2>6. IndexOnPath
    <3> SUFFICES ASSUME NEW i \in 1 .. n
                 PROVE  window[i].index = Xor(GhrPath[i - 1], window[i].pc, PhtSize)
      BY <2>5 DEF IndexOnPath
    <3>1. window[i].index = Xor(h[i - 1], window[i].pc, PhtSize)
      BY <2>1 DEF Chain
    <3> QED
      BY <2>2, <2>3, <3>1
  <2> QED
    BY <2>4, <2>6
<1>4. CASE offender # 0
  BY <1>4 DEF GhrOnPath, RasOnPath, IndexOnPath, OnPath
<1> QED
  BY <1>3, <1>4

(***************************************************************************)
(* Recovery leaves no trace in the global history: whenever fetch is       *)
(* running, it is what the committed instructions and the path in flight   *)
(* shift in, in program order, whatever wrong paths were fetched,          *)
(* mispredicted themselves and were squashed, for every size of the        *)
(* history and every program whose stores keep an address's kind of        *)
(* branch.                                                                 *)
(***************************************************************************)
THEOREM HistoryIsExact ==
  ASSUME KindsStay
  PROVE  Spec => []GhrOnPath
  BY AlwaysExact, ExactReads, PTL

(***************************************************************************)
(* Nor in the return stack: its ring lists the newest return addresses of  *)
(* the calls still open on the path, top first, however calls and returns  *)
(* of wrong paths overwrote and wrapped it.                                *)
(***************************************************************************)
THEOREM ReturnStackIsExact ==
  ASSUME KindsStay
  PROVE  Spec => []RasOnPath
  BY AlwaysExact, ExactReads, PTL

(***************************************************************************)
(* And commit() trains the counter that the program's own history selects: *)
(* what a branch in flight carries from its fetch is the index under the   *)
(* history before it, even if older branches recovered since.              *)
(***************************************************************************)
THEOREM TrainingIsExact ==
  ASSUME KindsStay
  PROVE  Spec => []IndexOnPath
  BY AlwaysExact, ExactReads, PTL

=============================================================================
