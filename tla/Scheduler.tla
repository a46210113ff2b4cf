------------------------------ MODULE Scheduler ------------------------------
(***************************************************************************)
(* The back end cycle by cycle: the issue queue of issue_queue.h, the      *)
(* function units, the writeback ports and their booking ring, under       *)
(* tick()'s order commit, writeback, execute, issue, dispatch.             *)
(*                                                                         *)
(* Values, renaming and the store queue's search are left to the modules   *)
(* Renaming and LoadStoreQueues: the front end supplies any operation with *)
(* any sources in flight, any branch may turn out mispredicted, and a load *)
(* hears any answer the stores ahead of it allow.                          *)
(*                                                                         *)
(* An operation is named by its age, its position in the reorder buffer,   *)
(* counted from 1 at the oldest, and due, free and booked cycles are       *)
(* counted from the current one.  Both are shifted when the buffer's head  *)
(* or the clock moves, so an endless run has finitely many states and no   *)
(* bound on cycles or sequence numbers is needed.                          *)
(***************************************************************************)
EXTENDS Queues, FiniteSets, Functions

CONSTANTS
  Width,     \* Config::width
  RobSize,   \* Config::rob_size
  IqSize,    \* Config::iq_size
  NumCdb,    \* Config::num_cdb
  Units,     \* units of each class: num_alu, num_branch, num_mul, num_div, num_mem
  Latency,   \* cycles of each kind of operation, as latency_of() returns them
  Supply     \* what the front end may dispatch: [kind, writes] records

Class == {"ALU", "BRANCH", "MUL", "DIV", "MEM"}
Kind  == {"ALU", "BRANCH", "MUL", "DIV", "LOAD", "STORE", "NOP", "TRAP"}

\* Classes whose units hold an operation from start to end (issue(): all but
\* the multiplier are busy for the whole latency).
Blocking == Class \ {"MUL"}

\* Kinds that need no function unit (Fu::NONE).
Unitless == {"NOP", "TRAP"}

ASSUME SchedulerAssumption ==
  /\ {Width, RobSize, IqSize, NumCdb} \subseteq Nat \ {0}
  /\ Units \in [Class -> Nat \ {0}]
  /\ Latency \in [Kind -> Nat \ {0}]
  /\ \A k \in {"STORE", "NOP", "TRAP"} : Latency[k] = 1
  /\ Supply \subseteq [kind : Kind, writes : BOOLEAN]

\* cdb_window_: longer than any latency, so that bookings never meet.
Longest == CHOOSE n \in {Latency[k] : k \in Kind} : \A k \in Kind : Latency[k] <= n
Window == Longest + 2

VARIABLES
  rob,        \* operations in flight, oldest first
  iq,         \* IssueQueue: entries in dispatch order
  unit,       \* fu_free_at_: cycles until each unit of a class is free
  booked,     \* cdb_booked_: writeback ports booked, a ring of Window cycles
  now,        \* cycle_ modulo Window
  executing,  \* operations holding a unit for more than one cycle
  wbFast,     \* results whose port was booked at issue
  wbSlow,     \* load results, which take what is left
  stage,      \* the stage tick() runs next, or "done"
  cand,       \* issue()'s local: ready operations still to consider
  slots,      \* width left to issue() or dispatch() in this cycle
  blocked,    \* issue()'s local: operations turned away
  offender,   \* issue()'s local: the branch to recover from, or 0
  uncharged,  \* issue slots the last cycle neither used nor charged to a stall
  working     \* history variable: of each class in Blocking, how many operations
              \* issued have n cycles to go, squashed since or not

loop == <<cand, slots, blocked, offender>>
vars == <<rob, iq, unit, booked, now, executing, wbFast, wbSlow, stage, loop, uncharged,
          working>>

Init ==
  /\ rob = <<>> /\ iq = <<>>
  /\ unit = [c \in Class |-> [u \in 1 .. Units[c] |-> 0]]
  /\ booked = [s \in 0 .. Window - 1 |-> 0] /\ now = 0
  /\ executing = <<>> /\ wbFast = <<>> /\ wbSlow = <<>>
  /\ stage = "commit"
  /\ cand = <<>> /\ slots = 0 /\ blocked = 0 /\ offender = 0
  /\ uncharged = 0
  /\ working = [c \in Blocking |-> [n \in 1 .. Longest |-> 0]]

-----------------------------------------------------------------------------
(* Commit *)

\* After n commits and one tick of the clock.
Later(s, n) ==
  [i \in DOMAIN s |-> [age |-> s[i].age - n, due |-> IF s[i].due = 0 THEN 0 ELSE s[i].due - 1]]

Older(src, n) == IF src <= n THEN 0 ELSE src - n

\* The oldest operations that commit this cycle: complete, at most Width, and
\* nothing behind one that ends the run.
Committing ==
  CHOOSE n \in 0 .. Len(rob) :
    /\ n <= Width
    /\ \A i \in 1 .. n : rob[i].complete /\ (i < n => rob[i].kind # "TRAP")
    /\ \/ n \in {Width, Len(rob)}
       \/ n > 0 /\ rob[n].kind = "TRAP"
       \/ ~rob[n + 1].complete

\* Cpu::tick up to commit(): the clock moves, then the head leaves.
Commit ==
  LET n == Committing
  IN /\ stage = "commit"
     /\ now' = (now + 1) % Window
     /\ unit' = [c \in Class |-> [u \in 1 .. Units[c] |->
                   IF unit[c][u] = 0 THEN 0 ELSE unit[c][u] - 1]]
     /\ working' = [c \in Blocking |-> [d \in 1 .. Longest |->
                      IF d = Longest THEN 0 ELSE working[c][d + 1]]]
     /\ IF n > 0 /\ rob[n].kind = "TRAP"
          THEN \* squash_in_flight
               /\ rob' = <<>> /\ iq' = <<>>
               /\ executing' = <<>> /\ wbFast' = <<>> /\ wbSlow' = <<>>
               /\ booked' = [s \in 0 .. Window - 1 |-> 0]
               /\ stage' = "done"
          ELSE /\ rob' = [i \in 1 .. Len(rob) - n |->
                            [rob[i + n] EXCEPT !.src1 = Older(@, n), !.src2 = Older(@, n)]]
               /\ iq' = [i \in DOMAIN iq |-> [iq[i] EXCEPT !.age = @ - n]]
               /\ executing' = Later(executing, n)
               /\ wbFast' = Later(wbFast, n) /\ wbSlow' = Later(wbSlow, n)
               /\ stage' = "writeback"
               /\ booked' = booked
     /\ UNCHANGED <<loop, uncharged>>

-----------------------------------------------------------------------------
(* Writeback and execute *)

\* The ports the n oldest results of wb_fast_ need.
Ports(n) == Cardinality({i \in 1 .. n : rob[wbFast[i].age].writes})
Ages(s) == {s[i].age : i \in DOMAIN s}

\* The results of wb_fast_ that find a port; one that writes no register
\* needs none, but waits its turn.
FastLanding ==
  CHOOSE n \in 0 .. Len(wbFast) :
    /\ Ports(n) <= NumCdb
    /\ n < Len(wbFast) => Ports(n + 1) > NumCdb

\* Loads take the ports left over, one each whether they write or not.
SlowLanding ==
  LET left == NumCdb - Ports(FastLanding)
  IN IF Len(wbSlow) < left THEN Len(wbSlow) ELSE left

\* An entry waiting on both sources hears only the first.
WokenSlip(e, landed) ==
  [e EXCEPT !.ready1 = @ \/ rob[e.age].src1 \in landed,
            !.ready2 = @ \/ (e.ready1 /\ rob[e.age].src2 \in landed)]

\* IssueQueue::wakeup, for every tag broadcast this cycle.
Woken(e, landed) ==
  [e EXCEPT !.ready1 = @ \/ rob[e.age].src1 \in landed,
            !.ready2 = @ \/ rob[e.age].src2 \in landed]

\* The slot of the cycle that is over is cleared for its next turn.
Cleared == [booked EXCEPT ![now] = 0]

Writeback ==
  LET n == FastLanding
      m == SlowLanding
      landed == Ages(SubSeq(wbFast, 1, n)) \cup Ages(SubSeq(wbSlow, 1, m))
  IN /\ stage = "writeback"
     /\ rob' = [i \in DOMAIN rob |-> [rob[i] EXCEPT !.complete = @ \/ i \in landed]]
     /\ iq' = [i \in DOMAIN iq |-> Woken(iq[i], landed)]
     /\ wbFast' = SubSeq(wbFast, n + 1, Len(wbFast))
     /\ wbSlow' = SubSeq(wbSlow, m + 1, Len(wbSlow))
     /\ booked' = Cleared
     /\ stage' = "execute"
     /\ UNCHANGED <<unit, now, executing, loop, uncharged, working>>

\* One cycle late.
FinishingSlip(u) == u.due < 1
\* A result due next cycle is handed to writeback in this one.
Finishing(u) == u.due <= 1

\* Cpu::execute, and the selection issue() starts with: every ready entry,
\* oldest first.
Execute ==
  LET done  == {u \in Range(executing) : Finishing(u)}
      loads == {u \in done : rob[u.age].kind = "LOAD"}
      ready == Those(iq, {e \in Range(iq) : e.ready1 /\ e.ready2})
  IN /\ stage = "execute"
     /\ executing' = Those(executing, Range(executing) \ done)
     /\ wbFast' = wbFast \o Those(executing, done \ loads)
     /\ wbSlow' = wbSlow \o Those(executing, loads)
     /\ cand' = [i \in DOMAIN ready |-> ready[i].age]
     /\ slots' = Width /\ blocked' = 0 /\ offender' = 0
     /\ stage' = "issue"
     /\ UNCHANGED <<rob, iq, unit, booked, now, uncharged, working>>

-----------------------------------------------------------------------------
(* Issue *)

UnitOf(kind) == IF kind \in {"LOAD", "STORE"} THEN "MEM" ELSE kind

\* A unit whose operation was squashed counts as free.
FreeUnitsSlip(kind) ==
  LET c == UnitOf(kind)
      live == {u.due : u \in {v \in Range(executing) : UnitOf(rob[v.age].kind) = c}}
  IN {u \in DOMAIN unit[c] : unit[c][u] = 0 \/ (unit[c][u] > 1 /\ unit[c][u] \notin live)}
\* Cpu::free_unit: the first free one of the class.
FreeUnits(kind) == {u \in DOMAIN unit[UnitOf(kind)] : unit[UnitOf(kind)][u] = 0}

\* Only a multiplier takes a new operation every cycle.
Held(kind, lat) == IF kind = "MUL" THEN 1 ELSE lat

\* The unit is taken: the first free one of the class, if the kind needs one.
Taken(kind, cycles) ==
  IF kind \in Unitless THEN unit
  ELSE LET first == CHOOSE u \in FreeUnits(kind) : \A v \in FreeUnits(kind) : u <= v
       IN [unit EXCEPT ![UnitOf(kind)][first] = cycles]

\* History: an operation that takes this many cycles is begun.
Begun(kind, cycles) ==
  IF UnitOf(kind) \in Blocking THEN [working EXCEPT ![UnitOf(kind)][cycles] = @ + 1]
  ELSE working

Slot(lat) == (now + lat) % Window

Stores(a) == {i \in 1 .. a - 1 : rob[i].kind = "STORE"}
Unissued(i) == \E j \in DOMAIN iq : iq[j].age = i

(***************************************************************************)
(* What the store queue may answer a load: nothing to wait for once every  *)
(* store ahead has issued, the data of one that has issued, or to ask      *)
(* again while any store ahead has not committed.                          *)
(***************************************************************************)
Answers(a) ==
  {r \in {"NO_MATCH", "FORWARD", "REPLAY"} :
     /\ r = "NO_MATCH" => \A i \in Stores(a) : ~Unissued(i)
     /\ r = "FORWARD" => \E i \in Stores(a) : ~Unissued(i)
     /\ r = "REPLAY" => Stores(a) # {}}

TurnedAway ==
  /\ blocked' = blocked + 1
  /\ UNCHANGED <<rob, iq, booked, executing, wbFast, wbSlow, slots, offender>>

\* The operation leaves the queue and its result is on its way.
Started(a, lat, mispredicts) ==
  LET u == [age |-> a, due |-> lat]
  IN /\ iq' = Those(iq, {e \in Range(iq) : e.age # a})
     /\ executing' = IF lat > 1 THEN Append(executing, u) ELSE executing
     /\ wbSlow' = IF lat = 1 /\ rob[a].kind = "LOAD" THEN Append(wbSlow, u) ELSE wbSlow
     /\ wbFast' = IF lat = 1 /\ rob[a].kind # "LOAD" THEN Append(wbFast, u) ELSE wbFast
     /\ offender' = IF mispredicts /\ (offender = 0 \/ a < offender) THEN a ELSE offender
     /\ slots' = slots - 1
     /\ UNCHANGED <<rob, blocked>>

\* The candidate is a load: it books no port, and a replay spends the unit.
IssueLoad(a) ==
  \E answer \in Answers(a) :
    LET lat == IF answer = "FORWARD" THEN 1 ELSE Latency["LOAD"]
    IN IF answer = "REPLAY"
         THEN unit' = Taken("LOAD", 1) /\ working' = Begun("LOAD", 1) /\ TurnedAway
         ELSE /\ unit' = Taken("LOAD", lat) /\ working' = Begun("LOAD", lat)
              /\ Started(a, lat, FALSE)
              /\ booked' = booked

\* Bookings are not limited.
PortFreeSlip(lat) == TRUE
\* Cpu::reserve_cdb
PortFree(lat) == booked[Slot(lat)] < NumCdb

\* The candidate is anything else: without a port for the cycle its result
\* lands, it does not issue.
IssueOther(a) ==
  LET kind == rob[a].kind
      lat == Latency[kind]
  IN IF rob[a].writes /\ ~PortFree(lat)
       THEN TurnedAway /\ UNCHANGED <<unit, working>>
       ELSE \E mispredicts \in IF kind = "BRANCH" THEN BOOLEAN ELSE {FALSE} :
              /\ booked' = IF rob[a].writes THEN [booked EXCEPT ![Slot(lat)] = @ + 1] ELSE booked
              /\ unit' = Taken(kind, Held(kind, lat)) /\ working' = Begun(kind, lat)
              /\ Started(a, lat, mispredicts)

\* Cpu::issue, one candidate: blocked, it blocks only itself.
IssueNext ==
  LET a == Head(cand)
  IN /\ stage = "issue" /\ cand # <<>> /\ slots > 0
     /\ cand' = Tail(cand)
     /\ IF rob[a].kind \notin Unitless /\ FreeUnits(rob[a].kind) = {}
          THEN TurnedAway /\ UNCHANGED <<unit, working>>
          ELSE IF rob[a].kind = "LOAD" THEN IssueLoad(a) ELSE IssueOther(a)
     /\ UNCHANGED <<now, stage, uncharged>>

\* Squashed results keep their ports.
ReleasedSlip(keep) == booked

\* Cpu::release_cdb, for every result squashed behind the branch.
Released(keep) ==
  LET gone(s) == {u \in Range(s) : u.age > keep /\ rob[u.age].writes
                                     /\ rob[u.age].kind # "LOAD" /\ u.due > 0}
      squashed == gone(executing) \cup gone(wbFast)
  IN [s \in 0 .. Window - 1 |->
        booked[s] - Cardinality({u \in squashed : Slot(u.due) = s})]

\* The writeback queue survives the squash.
SurvivingSlip(s, keep) == s
\* squash_queue
Surviving(s, keep) == Those(s, {u \in Range(s) : u.age <= keep})

(***************************************************************************)
(* The end of Cpu::issue: unused slots are charged to the operations that  *)
(* were turned away, then to operands if the queue is not empty, and the   *)
(* oldest mispredicted branch recovers (recover(), the back end's part),   *)
(* which also leaves dispatch nothing to take in this cycle.               *)
(***************************************************************************)
IssueEnd ==
  LET keep == IF offender = 0 THEN Len(rob) ELSE offender
      lost == IF blocked < slots THEN slots - blocked ELSE 0
  IN /\ stage = "issue" /\ (cand = <<>> \/ slots = 0)
     /\ uncharged' = IF iq = <<>> THEN lost ELSE 0
     /\ rob' = SubSeq(rob, 1, keep)
     /\ iq' = Surviving(iq, keep)
     /\ executing' = Surviving(executing, keep)
     /\ wbFast' = Surviving(wbFast, keep)
     /\ wbSlow' = Surviving(wbSlow, keep)
     /\ booked' = Released(keep)
     /\ cand' = <<>> /\ blocked' = 0 /\ offender' = 0
     /\ slots' = IF offender = 0 THEN Width ELSE 0
     /\ stage' = "dispatch"
     /\ UNCHANGED <<unit, now, working>>

-----------------------------------------------------------------------------
(* Dispatch *)

\* Readiness is taken as still outstanding, and a broadcast may be over.
SampledSlip(src) == src = 0
\* Ready bits are sampled on entry.
Sampled(src) == src = 0 \/ rob[src].complete

\* Cpu::dispatch, one operation, whose sources rename() mapped to producers in
\* flight or to committed registers (0).
Dispatch(d, src1, src2) ==
  /\ stage = "dispatch" /\ slots > 0
  /\ Len(rob) < RobSize /\ Len(iq) < IqSize
  /\ \A s \in {src1, src2} : s # 0 => rob[s].writes
  /\ rob' = Append(rob, [kind |-> d.kind, writes |-> d.writes,
                         src1 |-> src1, src2 |-> src2, complete |-> FALSE])
  /\ iq' = Append(iq, [age |-> Len(rob) + 1,
                       ready1 |-> Sampled(src1), ready2 |-> Sampled(src2)])
  /\ slots' = slots - 1
  /\ UNCHANGED <<unit, booked, now, executing, wbFast, wbSlow, stage,
                 cand, blocked, offender, uncharged, working>>

\* The rest of tick() fills the queues in front of dispatch.
CycleEnd ==
  /\ stage = "dispatch"
  /\ stage' = "commit" /\ slots' = 0
  /\ UNCHANGED <<rob, iq, unit, booked, now, executing, wbFast, wbSlow,
                 cand, blocked, offender, uncharged, working>>

Next ==
  \/ Commit
  \/ Writeback
  \/ Execute
  \/ IssueNext
  \/ IssueEnd
  \/ \E d \in Supply : \E src1, src2 \in 0 .. Len(rob) : Dispatch(d, src1, src2)
  \/ CycleEnd

Spec == Init /\ [][Next]_vars

\* Cpu::run calls tick() until the run is over.
FairSpec == Spec /\ WF_vars(Next)

-----------------------------------------------------------------------------
(* Properties. *)

InFlight ==
  [kind : Kind, writes : BOOLEAN, src1 : 0 .. RobSize, src2 : 0 .. RobSize, complete : BOOLEAN]
Waiting == [age : 1 .. RobSize, ready1 : BOOLEAN, ready2 : BOOLEAN]
Pending == [age : 1 .. RobSize, due : 0 .. Longest]

\* Every structure holds what its C++ type and its capacity allow.
TypeOK ==
  /\ rob \in Seq(InFlight) /\ Len(rob) <= RobSize
  /\ \A i \in DOMAIN rob : rob[i].src1 < i /\ rob[i].src2 < i
  /\ iq \in Seq(Waiting) /\ Len(iq) <= IqSize
  /\ DOMAIN unit = Class
  /\ \A c \in Class : unit[c] \in [1 .. Units[c] -> 0 .. Longest]
  /\ booked \in [0 .. Window - 1 -> 0 .. NumCdb] /\ now \in 0 .. Window - 1
  /\ executing \in Seq(Pending) /\ wbFast \in Seq(Pending) /\ wbSlow \in Seq(Pending)
  /\ stage \in {"commit", "writeback", "execute", "issue", "dispatch", "done"}
  /\ cand \in Seq(1 .. RobSize) /\ slots \in 0 .. Width
  /\ blocked \in 0 .. IqSize /\ offender \in 0 .. Len(rob) /\ uncharged \in 0 .. Width

Holders(a) ==
  Cardinality({i \in DOMAIN iq : iq[i].age = a})
  + Cardinality({i \in DOMAIN executing : executing[i].age = a})
  + Cardinality({i \in DOMAIN wbFast : wbFast[i].age = a})
  + Cardinality({i \in DOMAIN wbSlow : wbSlow[i].age = a})

(***************************************************************************)
(* An operation in flight is in exactly one place until it completes, and  *)
(* then in none: no squash loses a survivor or leaves a killed operation   *)
(* behind to wake someone up or to complete a stranger's entry.            *)
(***************************************************************************)
OnePlace ==
  /\ \A a \in DOMAIN rob : Holders(a) = IF rob[a].complete THEN 0 ELSE 1
  /\ Ages(iq) \cup Ages(executing) \cup Ages(wbFast) \cup Ages(wbSlow) \subseteq DOMAIN rob

(***************************************************************************)
(* A source counts as ready in the queue exactly when its producer has     *)
(* completed, in particular when the broadcast came between rename and     *)
(* dispatch, or in the same cycle as the dispatch.                         *)
(***************************************************************************)
NoLostWakeup ==
  \A i \in DOMAIN iq :
    LET u == rob[iq[i].age]
        done(src) == src = 0 \/ rob[src].complete
    IN iq[i].ready1 = done(u.src1) /\ iq[i].ready2 = done(u.src2)

\* Results that have a port booked, n cycles from now.
DueIn(n) ==
  Cardinality({i \in DOMAIN executing :
     executing[i].due = n /\ rob[executing[i].age].writes /\ rob[executing[i].age].kind # "LOAD"})
  + Cardinality({i \in DOMAIN wbFast : wbFast[i].due = n /\ rob[wbFast[i].age].writes})

(***************************************************************************)
(* The booking ring is exact: each slot holds the number of results in     *)
(* flight that land in that cycle, across wrap-around, squashes and halts, *)
(* so no port is leaked and none is promised twice.                        *)
(***************************************************************************)
BookingsExact == \A n \in 0 .. Window - 1 : booked[Slot(n)] = DueIn(n)

\* A booked result lands in the very cycle it was booked for: writeback never
\* leaves one behind and never sees one early.
BookedLands ==
  /\ stage = "execute" => wbFast = <<>>
  /\ stage = "writeback" => \A i \in DOMAIN wbFast : wbFast[i].due = 0
  /\ \A i \in DOMAIN executing : executing[i].due > 0

(***************************************************************************)
(* A blocking unit holds one operation at a time, from its start to its    *)
(* end, also when the operation is squashed on the way: the units busy for *)
(* n more cycles are as many as the operations with n cycles to go, the    *)
(* squashed ones included, and those still in flight are among them.       *)
(***************************************************************************)
UnitsNotShared ==
  \A c \in Blocking, n \in 1 .. Longest :
    /\ working[c][n] = Cardinality({u \in 1 .. Units[c] : unit[c][u] = n})
    /\ Cardinality({i \in DOMAIN executing :
           UnitOf(rob[executing[i].age].kind) = c /\ executing[i].due >= n})
         <= Cardinality({u \in 1 .. Units[c] : unit[c][u] >= n})

\* Whatever is oldest completes: the ports and units it waits for are not
\* taken by younger operations forever, since the reorder buffer fills up
\* behind it, and a load is not replayed forever.
HeadCompletes == []<>(rob = <<>> \/ rob[1].complete)

\* "every unused slot is charged to exactly one cause" (README.md, section 14).
EverySlotCharged == uncharged = 0
=============================================================================
