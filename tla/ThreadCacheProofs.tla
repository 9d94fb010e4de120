--------------------------- MODULE ThreadCacheProofs ---------------------------
(***************************************************************************)
(* Proofs about the thread caches, for any number of threads, classes and  *)
(* blocks and any capacity: that every block is in one place, that the     *)
(* batches fit, that what lies below the low mark idles, and that malloc,  *)
(* free and realloc implement a heap.                                      *)
(*                                                                         *)
(* BlocksAccounted is proved block by block: PlacedOnce says where one     *)
(* block is, and each step moves one block, or two, from place to place.   *)
(* A place in a bin is an index of its stack that no flush has passed, so  *)
(* it takes BatchesFit, and what each step of a call has in hand           *)
(* (CallShape), to know that a flush and a pop find a block there.         *)
(***************************************************************************)
EXTENDS ThreadCache, WellFoundedInduction, TLAPS

-----------------------------------------------------------------------------
(* Numbers *)

\* A nonempty set of numbers has a least element.
LEMMA LeastElement ==
  ASSUME NEW S \in SUBSET Nat, S # {}
  PROVE  \E i \in S : \A j \in S : i <= j
<1> DEFINE less == { p \in Nat \X Nat : p[1] < p[2] }
<1>1. IsWellFoundedOn(less, Nat) BY NatLessThanWellFounded DEF OpToRel
<1>2. PICK i \in S : \A j \in S : <<j, i>> \notin less
  <2> HIDE DEF less
  <2> QED BY <1>1, WFMin
<1>3. \A j \in S : ~(j < i) BY <1>2
<1> QED BY <1>3

-----------------------------------------------------------------------------
(* The inductive invariant *)

\* A stack of which the lowest f slots have been flushed holds b.
Holds(q, f, b) == \E j \in 1..Len(q) : f < j /\ q[j] = b

Distinct(q, f) == \A j, k \in 1..Len(q) : f < j /\ f < k /\ q[j] = q[k] => j = k

InBin(b, t, i) == Holds(caches[t][i], Flushed(t, i), b)
BinDistinct(t, i) == Distinct(caches[t][i], Flushed(t, i))

\* A block that an arena has handed out is in one place, any other in none.
PlacedOnce(b) ==
  /\ b \in arena <=> \/ b \in held
                     \/ \E t \in Thread, i \in Ind : InBin(b, t, i)
                     \/ \E t \in Thread : b \in InFlight(t)
  /\ \A t, u \in Thread, i, k \in Ind : InBin(b, t, i) /\ InBin(b, u, k) => t = u /\ i = k
  /\ \A t, u \in Thread : b \in InFlight(t) /\ b \in InFlight(u) => t = u
  /\ \A t \in Thread, i \in Ind : InBin(b, t, i) =>
       b \notin held /\ \A u \in Thread : b \notin InFlight(u)
  /\ \A t \in Thread : b \in InFlight(t) => b \notin held

\* What a call has in hand at each step.
CallShape(t) ==
  LET o == op[t]
  IN  /\ o.step \notin {"flush", "flushOld"} => o.block = NoBlock
      /\ o.step \in {"flush", "flushOld"} =>
           /\ o.block \in Region[o.ind] /\ o.old = NoBlock
           /\ o.count = MaxFill /\ num(t, o.ind) = Capacity
      /\ o.step = "idle" => o.old = NoBlock
      /\ o.step = "reuse" => o.old # NoBlock
      /\ o.step \notin {"idle", "reuse"} => o.ind \in made[t]

IInv ==
  /\ TypeOK
  /\ BatchesFit
  /\ \A t \in Thread : CallShape(t)
  /\ \A t \in Thread, i \in Ind : BinDistinct(t, i)
  /\ \A b \in Block : PlacedOnce(b)

-----------------------------------------------------------------------------
(* Numbers and stacks *)

LEMMA FillNumbers ==
  /\ Capacity \in Nat /\ MaxFill \in Nat /\ 0 < MaxFill /\ MaxFill < Capacity
  /\ InitFillCount \in Nat /\ 0 < InitFillCount /\ InitFillCount <= MaxFill
BY CacheAssumption DEF MaxFill

LEMMA GCCountFits ==
  ASSUME NEW low \in Nat
  PROVE  GCCount(low) \in Nat /\ GCCount(low) <= low
BY DEF GCCount

\* A push.
LEMMA AppendHolds ==
  ASSUME NEW S, NEW q \in Seq(S), NEW f \in 0..Len(q), NEW x \in S
  PROVE  /\ Append(q, x) \in Seq(S) /\ Len(Append(q, x)) = Len(q) + 1
         /\ \A b : Holds(Append(q, x), f, b) <=> Holds(q, f, b) \/ b = x
         /\ Distinct(q, f) /\ ~Holds(q, f, x) => Distinct(Append(q, x), f)
<1>1. /\ Append(q, x) \in Seq(S) /\ Len(Append(q, x)) = Len(q) + 1 /\ Len(q) \in Nat
      /\ \A j \in 1..Len(q) : Append(q, x)[j] = q[j]
      /\ Append(q, x)[Len(q) + 1] = x
  OBVIOUS
<1>2. 1..(Len(q) + 1) = 1..Len(q) \cup {Len(q) + 1} BY <1>1
<1>3. \A b : Holds(Append(q, x), f, b) <=> Holds(q, f, b) \/ b = x
  <2>1. ASSUME NEW b, Holds(Append(q, x), f, b) PROVE Holds(q, f, b) \/ b = x
    BY <1>1, <1>2, <2>1 DEF Holds
  <2>2. ASSUME NEW b, Holds(q, f, b) PROVE Holds(Append(q, x), f, b)
    BY <1>1, <1>2, <2>2 DEF Holds
  <2>3. Holds(Append(q, x), f, x)
    <3>1. Len(q) + 1 \in 1..Len(Append(q, x)) /\ f < Len(q) + 1 BY <1>1
    <3> QED BY <1>1, <3>1 DEF Holds
  <2> QED BY <2>1, <2>2, <2>3
<1>4. ASSUME Distinct(q, f), ~Holds(q, f, x) PROVE Distinct(Append(q, x), f)
  <2> SUFFICES ASSUME NEW j \in 1..(Len(q) + 1), NEW k \in 1..(Len(q) + 1), f < j, f < k,
                      Append(q, x)[j] = Append(q, x)[k]
               PROVE  j = k
    BY <1>1 DEF Distinct
  <2>1. \A m \in 1..Len(q) : f < m => q[m] # x BY <1>4 DEF Holds
  <2>2. CASE j \in 1..Len(q) /\ k \in 1..Len(q) BY <1>1, <1>4, <2>2 DEF Distinct
  <2>3. CASE j = Len(q) + 1 /\ k \in 1..Len(q) BY <1>1, <2>1, <2>3
  <2>4. CASE k = Len(q) + 1 /\ j \in 1..Len(q) BY <1>1, <2>1, <2>4
  <2> QED BY <1>2, <2>2, <2>3, <2>4
<1> QED BY <1>1, <1>3, <1>4

\* A pop.
LEMMA FrontHolds ==
  ASSUME NEW S, NEW q \in Seq(S), Len(q) > 0, Distinct(q, 0)
  PROVE  LET p == SubSeq(q, 1, Len(q) - 1)
         IN  /\ q[Len(q)] \in S /\ Holds(q, 0, q[Len(q)])
             /\ p \in Seq(S) /\ Len(p) = Len(q) - 1 /\ Distinct(p, 0)
             /\ \A b : Holds(p, 0, b) <=> Holds(q, 0, b) /\ b # q[Len(q)]
<1> DEFINE p == SubSeq(q, 1, Len(q) - 1)
<1>1. /\ p \in Seq(S) /\ Len(p) = Len(q) - 1 /\ Len(q) \in Nat
      /\ \A j \in 1..(Len(q) - 1) : p[j] = q[j]
      /\ q[Len(q)] \in S
  <2>1. PICK m \in 0..Len(q) : m = Len(q) - 1 OBVIOUS
  <2>2. /\ SubSeq(q, 1, m) \in Seq(S) /\ Len(SubSeq(q, 1, m)) = m
        /\ \A j \in 1..m : SubSeq(q, 1, m)[j] = q[j]
    OBVIOUS
  <2>3. Len(q) \in 1..Len(q) OBVIOUS
  <2>4. q[Len(q)] \in S BY <2>3
  <2> QED BY <2>1, <2>2, <2>4
<1> HIDE DEF p
<1>2. 1..Len(q) = 1..(Len(q) - 1) \cup {Len(q)} /\ Len(q) \in 1..Len(q) BY <1>1
<1>3. Holds(q, 0, q[Len(q)]) BY <1>2 DEF Holds
<1>4. Distinct(p, 0) BY <1>1, <1>2 DEF Distinct
<1>5. ASSUME NEW b, Holds(p, 0, b) PROVE Holds(q, 0, b) /\ b # q[Len(q)]
  BY <1>1, <1>2, <1>5 DEF Holds, Distinct
<1>6. ASSUME NEW b, Holds(q, 0, b), b # q[Len(q)] PROVE Holds(p, 0, b)
  BY <1>1, <1>2, <1>6 DEF Holds
<1> QED BY <1>1, <1>3, <1>4, <1>5, <1>6 DEF p

\* One turn of the loop of a flush.
LEMMA PassedHolds ==
  ASSUME NEW S, NEW q \in Seq(S), NEW f \in Nat, f < Len(q), Distinct(q, f)
  PROVE  /\ q[f + 1] \in S /\ Holds(q, f, q[f + 1]) /\ Distinct(q, f + 1)
         /\ \A b : Holds(q, f + 1, b) <=> Holds(q, f, b) /\ b # q[f + 1]
<1>1. f + 1 \in 1..Len(q) /\ f < f + 1 OBVIOUS
<1>2. q[f + 1] \in S BY <1>1
<1>3. Holds(q, f, q[f + 1]) BY <1>1 DEF Holds
<1>4. Distinct(q, f + 1) BY DEF Distinct
<1>5. ASSUME NEW b, Holds(q, f + 1, b) PROVE Holds(q, f, b) /\ b # q[f + 1]
  <2>1. PICK j \in 1..Len(q) : f + 1 < j /\ q[j] = b BY <1>5 DEF Holds
  <2>2. f < j /\ j # f + 1 BY <2>1
  <2> QED BY <1>1, <2>1, <2>2 DEF Holds, Distinct
<1>6. ASSUME NEW b, Holds(q, f, b), b # q[f + 1] PROVE Holds(q, f + 1, b)
  <2>1. PICK j \in 1..Len(q) : f < j /\ q[j] = b BY <1>6 DEF Holds
  <2>2. f + 1 < j BY <1>6, <2>1
  <2> QED BY <2>1, <2>2 DEF Holds
<1> QED BY <1>2, <1>3, <1>4, <1>5, <1>6

\* The memmove at the end of a flush.
LEMMA RestHolds ==
  ASSUME NEW S, NEW q \in Seq(S), NEW m \in 0..Len(q), Distinct(q, m)
  PROVE  LET p == SubSeq(q, m + 1, Len(q))
         IN  /\ p \in Seq(S) /\ Len(p) = Len(q) - m /\ Distinct(p, 0)
             /\ \A b : Holds(p, 0, b) <=> Holds(q, m, b)
<1> DEFINE p == SubSeq(q, m + 1, Len(q))
<1>1. /\ p \in Seq(S) /\ Len(p) = Len(q) - m /\ Len(q) \in Nat
      /\ \A j \in 1..(Len(q) - m) : p[j] = q[m + j]
  OBVIOUS
<1> HIDE DEF p
<1>2. \A j \in 1..(Len(q) - m) : m + j \in 1..Len(q) /\ m < m + j BY <1>1
<1>3. \A j \in 1..Len(q) : m < j => j - m \in 1..(Len(q) - m) /\ m + (j - m) = j BY <1>1
<1>4. Distinct(p, 0)
  <2> SUFFICES ASSUME NEW j \in 1..(Len(q) - m), NEW k \in 1..(Len(q) - m), p[j] = p[k]
               PROVE  j = k
    BY <1>1 DEF Distinct
  <2>1. m + j = m + k BY <1>1, <1>2 DEF Distinct
  <2> QED BY <2>1
<1>5. ASSUME NEW b, Holds(p, 0, b) PROVE Holds(q, m, b) BY <1>1, <1>2, <1>5 DEF Holds
<1>6. ASSUME NEW b, Holds(q, m, b) PROVE Holds(p, 0, b)
  <2>1. PICK j \in 1..Len(q) : m < j /\ q[j] = b BY <1>6 DEF Holds
  <2>2. j - m \in 1..Len(p) /\ p[j - m] = b /\ 0 < j - m BY <1>1, <1>3, <2>1
  <2> QED BY <2>2 DEF Holds
<1> QED BY <1>1, <1>4, <1>5, <1>6 DEF p

-----------------------------------------------------------------------------
(* One thread at a time *)

\* BatchesFit, thread by thread.
Fits(t) ==
  LET o == op[t]
  IN  /\ At(t, "fill") => num(t, o.ind) = o.done /\ o.done <= o.count /\ o.count < Capacity
      /\ At(t, "pop") => num(t, o.ind) > 0
      /\ o.step \in {"flush", "flushOld", "gc"} => o.done <= o.count /\ o.count <= num(t, o.ind)
      /\ At(t, "gc") => o.ind \in made[t] /\ o.count = GCCount(low_mark[t][o.ind])
      /\ \A i \in Ind : low_mark[t][i] <= num(t, i)

LEMMA FitsIsBatchesFit == BatchesFit <=> \A t \in Thread : Fits(t)
BY DEF BatchesFit, Fits

LEMMA ThreadFacts ==
  ASSUME TypeOK, NEW t \in Thread
  PROVE  /\ op[t] \in OpType /\ DOMAIN caches[t] = Ind /\ made[t] \subseteq Ind
         /\ gc_index[t] \in Ind /\ event_tick[t] \in 0..MaxEventTick
         /\ op[t].ind \in Ind /\ op[t].count \in Nat /\ op[t].done \in Nat
         /\ \A i \in Ind : /\ caches[t][i] \in Seq(Region[i]) /\ num(t, i) \in Nat
                           /\ num(t, i) <= Capacity /\ (num(t, i) > 0 => i \in made[t])
                           /\ low_mark[t][i] \in Nat /\ low_mark[t][i] <= Capacity
                           /\ fill_count[t][i] \in InitFillCount..MaxFill
<1>1. op[t] \in OpType BY DEF TypeOK
<1>2. op[t].ind \in Ind /\ op[t].count \in Nat /\ op[t].done \in Nat
  BY <1>1, FillNumbers DEF OpType
<1>3. \A i \in Ind : caches[t][i] \in Seq(Region[i]) BY DEF TypeOK
<1>4. \A i \in Ind : num(t, i) \in Nat BY <1>3 DEF num
<1> QED BY <1>1, <1>2, <1>3, <1>4, FillNumbers DEF TypeOK

\* What a call of t does to the bins of t only, or to none.
BinsOfOthersKept(t) ==
  \A u \in Thread : u # t =>
    /\ op'[u] = op[u] /\ made'[u] = made[u]
    /\ caches'[u] = caches[u] /\ low_mark'[u] = low_mark[u]

\* For all that is in one thread's hands it is enough that the thread is left alone.
LEMMA OthersKept ==
  ASSUME IInv, NEW t \in Thread, BinsOfOthersKept(t), NEW u \in Thread, u # t
  PROVE  /\ CallShape(u)' /\ Fits(u)' /\ InFlight(u)' = InFlight(u)
         /\ \A i \in Ind : BinDistinct(u, i)'
         /\ \A b, i : InBin(b, u, i)' <=> InBin(b, u, i)
<1>1. op'[u] = op[u] /\ made'[u] = made[u] /\ caches'[u] = caches[u] /\ low_mark'[u] = low_mark[u]
  BY DEF BinsOfOthersKept
<1>2. CallShape(u) /\ Fits(u) /\ \A i \in Ind : BinDistinct(u, i)
  BY FitsIsBatchesFit DEF IInv
<1>3. CallShape(u)' BY <1>1, <1>2 DEF CallShape, num
<1>4. Fits(u)' BY <1>1, <1>2 DEF Fits, At, num
<1>5. InFlight(u)' = InFlight(u) BY <1>1 DEF InFlight
<1>6. \A i \in Ind : BinDistinct(u, i)' BY <1>1, <1>2 DEF BinDistinct, Flushed
<1>7. \A b, i : InBin(b, u, i)' <=> InBin(b, u, i) BY <1>1 DEF InBin, Flushed
<1> QED BY <1>3, <1>4, <1>5, <1>6, <1>7

LEMMA IdleFacts ==
  /\ Idle \in OpType /\ Idle.step = "idle" /\ Idle.ind = 0 /\ Idle.count = 0 /\ Idle.done = 0
  /\ Idle.block = NoBlock /\ Idle.old = NoBlock
<1>1. 0 \in Ind /\ 0 \in 0..Capacity BY CacheAssumption, FillNumbers DEF Ind
<1> QED BY <1>1 DEF Idle, OpType

\* The bin whose turn it is has been made, if any has.
LEMMA NextBinIsMade ==
  ASSUME NEW t \in Thread, gc_index[t] \in Ind, made'[t] \subseteq Ind, made'[t] # {}
  PROVE  NextBin(t) \in made'[t]
<1> DEFINE turn(k) == (gc_index[t] + k) % NumClasses
           turns == { k \in 1..NumClasses : turn(k) \in made'[t] }
<1>1. NumClasses \in Nat \ {0} /\ Ind = 0..(NumClasses - 1) BY CacheAssumption DEF Ind
<1>2. PICK i \in Ind : i \in made'[t] OBVIOUS
<1>3. PICK g \in Ind : g = gc_index[t] OBVIOUS
<1>4. \E k \in 1..NumClasses : turn(k) = i
  <2>1. CASE i > g
    <3>1. (g + (i - g)) % NumClasses = i BY <1>1, <2>1
    <3>2. i - g \in 1..NumClasses BY <1>1, <2>1
    <3> QED BY <1>3, <3>1, <3>2
  <2>2. CASE i <= g
    <3>1. (g + (i - g + NumClasses)) % NumClasses = i BY <1>1, <2>2
    <3>2. i - g + NumClasses \in 1..NumClasses BY <1>1, <2>2
    <3> QED BY <1>3, <3>1, <3>2
  <2> QED BY <1>1, <2>1, <2>2
<1>5. turns # {} /\ turns \in SUBSET Nat BY <1>1, <1>2, <1>4
<1>6. PICK k \in turns : \A j \in turns : k <= j
  <2> HIDE DEF turns
  <2> QED BY <1>5, LeastElement
<1>7. /\ k \in 1..NumClasses /\ turn(k) \in made'[t]
      /\ \A j \in 1..(k - 1) : turn(j) \notin made'[t]
  <2>1. \A j \in 1..(k - 1) : j \in 1..NumClasses /\ ~(k <= j) BY <1>1
  <2> QED BY <1>6, <2>1
<1> HIDE DEF turn
<1>8. \E m \in 1..NumClasses : /\ turn(m) \in made'[t]
                               /\ \A j \in 1..(m - 1) : turn(j) \notin made'[t]
  BY <1>7
<1> QED BY <1>8 DEF NextBin, turn

\* The call of t goes on as o says, or goes on to collect a bin first.
GoesOn(t, o) ==
  /\ BinsOfOthersKept(t)
  /\ op'[t].block = o.block /\ op'[t].old = o.old
  /\ CallShape(t)' /\ Fits(t)'
  /\ \A i \in Ind : Flushed(t, i)' = 0
  /\ op' \in [Thread -> OpType]
  /\ event_tick' \in [Thread -> 0..MaxEventTick]
  /\ gc_index' \in [Thread -> Ind]

\* The end of PushRegion or PopRegion, with the collection that Event may start.
LEMMA EventGoesOn ==
  ASSUME IInv, NEW t \in Thread, NEW o \in OpType,
         o.step \in {"idle", "reuse"}, o.block = NoBlock, o.count = 0, o.done = 0,
         o.step = "idle" <=> o.old = NoBlock,
         made'[t] \subseteq Ind, made'[t] # {},
         \A i \in Ind : /\ low_mark'[t][i] \in Nat /\ Len(caches'[t][i]) \in Nat
                        /\ low_mark'[t][i] <= Len(caches'[t][i]) /\ low_mark'[t][i] <= Capacity,
         \A u \in Thread : u # t => /\ made'[u] = made[u] /\ caches'[u] = caches[u]
                                    /\ low_mark'[u] = low_mark[u],
         \/ Event(t, o)
         \/ Goto(t, o) /\ UNCHANGED events
  PROVE  GoesOn(t, o)
<1>0. TypeOK /\ MaxEventTick \in Nat BY CacheAssumption DEF IInv
<1>1. CASE Goto(t, o) /\ UNCHANGED events
  <2>1. /\ op' = [op EXCEPT ![t] = o] /\ event_tick' = event_tick /\ gc_index' = gc_index
    BY <1>1 DEF Goto, events
  <2>2. op'[t] = o /\ (\A u \in Thread : u # t => op'[u] = op[u]) /\ op' \in [Thread -> OpType]
    BY <1>0, <2>1 DEF TypeOK
  <2>3. CallShape(t)' BY <2>2 DEF CallShape
  <2>4. Fits(t)' BY <2>2 DEF Fits, At, num
  <2>5. \A i \in Ind : Flushed(t, i)' = 0 BY <2>2 DEF Flushed
  <2> QED BY <1>0, <2>1, <2>2, <2>3, <2>4, <2>5 DEF GoesOn, BinsOfOthersKept, TypeOK
<1>2. CASE Event(t, o) /\ ~(event_tick[t] + 1 > MaxEventTick)
  <2>1. /\ op' = [op EXCEPT ![t] = o] /\ event_tick' = [event_tick EXCEPT ![t] = @ + 1]
        /\ gc_index' = gc_index
    BY <1>2 DEF Event, Goto
  <2>2. op'[t] = o /\ (\A u \in Thread : u # t => op'[u] = op[u]) /\ op' \in [Thread -> OpType]
    BY <1>0, <2>1 DEF TypeOK
  <2>3. CallShape(t)' BY <2>2 DEF CallShape
  <2>4. Fits(t)' BY <2>2 DEF Fits, At, num
  <2>5. \A i \in Ind : Flushed(t, i)' = 0 BY <2>2 DEF Flushed
  <2>6. event_tick' \in [Thread -> 0..MaxEventTick] BY <1>0, <1>2, <2>1 DEF TypeOK
  <2> QED BY <1>0, <2>1, <2>2, <2>3, <2>4, <2>5, <2>6 DEF GoesOn, BinsOfOthersKept, TypeOK
<1>3. CASE Event(t, o) /\ event_tick[t] + 1 > MaxEventTick
  <2>1. PICK i : i = NextBin(t) OBVIOUS
  <2>2. PICK c : c = GCCount(low_mark'[t][i]) OBVIOUS
  <2>3. PICK p : p = [o EXCEPT !.step = "gc", !.ind = i, !.count = c] OBVIOUS
  <2>4. /\ op' = [op EXCEPT ![t] = p] /\ event_tick' = [event_tick EXCEPT ![t] = 0]
        /\ gc_index' = [gc_index EXCEPT ![t] = i]
    BY <1>3, <2>1, <2>2, <2>3 DEF Event, Goto
  <2>5. i \in made'[t] /\ i \in Ind
    BY <1>0, <2>1, ThreadFacts, NextBinIsMade
  <2>6. c \in Nat /\ c <= low_mark'[t][i] /\ c \in 0..Capacity /\ c <= Len(caches'[t][i])
    <3>1. c \in Nat /\ c <= low_mark'[t][i] BY <2>2, <2>5, GCCountFits
    <3> QED BY <2>5, <3>1, FillNumbers
  <2>7. /\ p \in OpType /\ p.step = "gc" /\ p.ind = i /\ p.count = c /\ p.done = 0
        /\ p.block = NoBlock /\ p.old = o.old
    BY <2>3, <2>5, <2>6 DEF OpType
  <2>8. op'[t] = p /\ (\A u \in Thread : u # t => op'[u] = op[u]) /\ op' \in [Thread -> OpType]
    BY <1>0, <2>4, <2>7 DEF TypeOK
  <2>9. CallShape(t)' BY <2>5, <2>7, <2>8 DEF CallShape
  <2>10. Fits(t)' BY <2>2, <2>5, <2>6, <2>7, <2>8 DEF Fits, At, num
  <2>11. \A j \in Ind : Flushed(t, j)' = 0 BY <2>7, <2>8 DEF Flushed
  <2>12. event_tick' \in [Thread -> 0..MaxEventTick] /\ gc_index' \in [Thread -> Ind]
    BY <1>0, <2>4, <2>5 DEF TypeOK
  <2> QED BY <2>7, <2>8, <2>9, <2>10, <2>11, <2>12 DEF GoesOn, BinsOfOthersKept
<1> QED BY <1>1, <1>2, <1>3

-----------------------------------------------------------------------------
(* Where a block is *)

PlaceKept(b) ==
  /\ b \in arena' <=> b \in arena
  /\ b \in held' <=> b \in held
  /\ \A u \in Thread, i \in Ind : InBin(b, u, i)' <=> InBin(b, u, i)
  /\ \A u \in Thread : b \in InFlight(u)' <=> b \in InFlight(u)

LEMMA PlacedStays ==
  ASSUME NEW b, PlacedOnce(b), PlaceKept(b)
  PROVE  PlacedOnce(b)'
<1> DEFINE bin(u, i) == InBin(b, u, i)
           fly(u) == b \in InFlight(u)
<1>1. /\ b \in arena' <=> b \in arena
      /\ b \in held' <=> b \in held
      /\ \A u \in Thread, i \in Ind : bin(u, i)' <=> bin(u, i)
      /\ \A u \in Thread : fly(u)' <=> fly(u)
  BY DEF PlaceKept
<1>2. /\ b \in arena <=> b \in held \/ (\E t \in Thread, i \in Ind : bin(t, i)) \/ (\E t \in Thread : fly(t))
      /\ \A t, u \in Thread, i, k \in Ind : bin(t, i) /\ bin(u, k) => t = u /\ i = k
      /\ \A t, u \in Thread : fly(t) /\ fly(u) => t = u
      /\ \A t \in Thread, i \in Ind : bin(t, i) => b \notin held /\ \A u \in Thread : ~fly(u)
      /\ \A t \in Thread : fly(t) => b \notin held
  BY DEF PlacedOnce
<1>3. PlacedOnce(b)' <=>
      /\ b \in arena' <=> b \in held' \/ (\E t \in Thread, i \in Ind : bin(t, i)') \/ (\E t \in Thread : fly(t)')
      /\ \A t, u \in Thread, i, k \in Ind : bin(t, i)' /\ bin(u, k)' => t = u /\ i = k
      /\ \A t, u \in Thread : fly(t)' /\ fly(u)' => t = u
      /\ \A t \in Thread, i \in Ind : bin(t, i)' => b \notin held' /\ \A u \in Thread : ~fly(u)'
      /\ \A t \in Thread : fly(t)' => b \notin held'
  BY DEF PlacedOnce
<1> HIDE DEF bin, fly
<1> QED BY <1>1, <1>2, <1>3

\* Nothing that other threads have in their bins or calls is b.
NotOthers(b, t) ==
  \A u \in Thread : u # t => b \notin InFlight(u) /\ \A i \in Ind : ~InBin(b, u, i)

\* The blocks of M move, all of them within the reach of t, and no others.
LEMMA BlocksMove ==
  ASSUME IInv, NEW t \in Thread, BinsOfOthersKept(t), NEW M \in SUBSET Block,
         \A b \in Block \ M :
           /\ b \in arena' <=> b \in arena
           /\ b \in held' <=> b \in held
           /\ \A i \in Ind : InBin(b, t, i)' <=> InBin(b, t, i)
           /\ b \in InFlight(t)' <=> b \in InFlight(t),
         \A b \in M :
           /\ NotOthers(b, t)
           /\ b \in arena' <=> \/ b \in held' \/ b \in InFlight(t)' \/ \E i \in Ind : InBin(b, t, i)'
           /\ \A i, k \in Ind : InBin(b, t, i)' /\ InBin(b, t, k)' => i = k
           /\ (\E i \in Ind : InBin(b, t, i)') => b \notin held' /\ b \notin InFlight(t)'
           /\ b \in InFlight(t)' => b \notin held'
  PROVE  \A b \in Block : PlacedOnce(b)'
<1>1. ASSUME NEW b \in Block \ M PROVE PlacedOnce(b)'
  <2>1. PlaceKept(b) BY OthersKept DEF PlaceKept
  <2> QED BY <2>1, PlacedStays DEF IInv
<1>2. ASSUME NEW b \in M PROVE PlacedOnce(b)'
  <2>1. \A u \in Thread : u # t => b \notin InFlight(u)' /\ \A i \in Ind : ~InBin(b, u, i)'
    BY <1>2, OthersKept DEF NotOthers
  <2> QED BY <1>2, <2>1 DEF PlacedOnce
<1> QED BY <1>1, <1>2

LEMMA BlockFacts ==
  /\ \A i \in Ind : Region[i] \subseteq Small
  /\ Small \subseteq Block /\ Large \subseteq Block /\ Block = Small \cup Large
  /\ NoBlock \notin Block
  /\ \A b \in Small : sz_to_ind(b) \in Ind /\ b \in Region[sz_to_ind(b)]
<1>1. \A b \in Small : \E i \in Ind : b \in Region[i] BY DEF Small
<1>2. \A b \in Small : sz_to_ind(b) \in Ind /\ b \in Region[sz_to_ind(b)]
  BY <1>1 DEF sz_to_ind
<1> QED BY <1>2, CacheAssumption DEF Small, Block

\* A block is somewhere, and so nowhere else.
LEMMA HeldOnly ==
  ASSUME IInv, NEW b \in held, NEW t \in Thread
  PROVE  /\ b \in Block /\ b \in arena /\ NotOthers(b, t) /\ b \notin InFlight(t)
         /\ \A i \in Ind : ~InBin(b, t, i)
<1>1. b \in Block BY DEF IInv, TypeOK
<1>2. PlacedOnce(b) BY <1>1 DEF IInv
<1> QED BY <1>1, <1>2 DEF PlacedOnce, NotOthers

LEMMA FreshOnly ==
  ASSUME IInv, NEW b \in Block, b \notin arena, NEW t \in Thread
  PROVE  /\ b \notin held /\ NotOthers(b, t) /\ b \notin InFlight(t)
         /\ \A i \in Ind : ~InBin(b, t, i)
<1>1. PlacedOnce(b) BY DEF IInv
<1> QED BY <1>1 DEF PlacedOnce, NotOthers

LEMMA FlyingOnly ==
  ASSUME IInv, NEW t \in Thread, NEW b \in InFlight(t)
  PROVE  /\ b \in Block /\ b \in arena /\ b \notin held /\ NotOthers(b, t)
         /\ \A i \in Ind : ~InBin(b, t, i)
<1>1. b \in Block BY ThreadFacts DEF InFlight, OpType, IInv
<1>2. PlacedOnce(b) BY <1>1 DEF IInv
<1> QED BY <1>1, <1>2 DEF PlacedOnce, NotOthers

LEMMA BinOnly ==
  ASSUME IInv, NEW t \in Thread, NEW i \in Ind, NEW b \in Block, InBin(b, t, i)
  PROVE  /\ b \in arena /\ b \notin held /\ NotOthers(b, t) /\ b \notin InFlight(t)
         /\ \A k \in Ind : InBin(b, t, k) => k = i
<1>1. PlacedOnce(b) BY DEF IInv
<1> QED BY <1>1 DEF PlacedOnce, NotOthers

\* ArenaHeap!Alloc takes a block that is not in use.
LEMMA AllocIsFresh ==
  ASSUME IInv, NEW b \in Block, ArenaHeap!Alloc(b)
  PROVE  b \notin arena /\ arena' = arena \cup {b}
<1>1. arena \subseteq Block BY DEF IInv, TypeOK
<1>2. b \notin arena
  <2>1. b \in arena => {b} \cap {b} = {} BY <1>1 DEF ArenaHeap!Alloc, ArenaHeap!Apart
  <2> QED BY <2>1
<1> QED BY <1>2 DEF ArenaHeap!Alloc

-----------------------------------------------------------------------------
(* What steps write *)

LEMMA BinUpdate ==
  ASSUME TypeOK, NEW t \in Thread, NEW i \in Ind, NEW q, caches' = [caches EXCEPT ![t][i] = q]
  PROVE  /\ DOMAIN caches' = Thread /\ \A u \in Thread : DOMAIN caches'[u] = Ind
         /\ caches'[t][i] = q /\ \A k \in Ind : k # i => caches'[t][k] = caches[t][k]
         /\ \A u \in Thread : u # t => caches'[u] = caches[u]
BY DEF TypeOK

\* The type of the bins, when the bin of class i becomes q.
LEMMA BinsTyped ==
  ASSUME TypeOK, NEW t \in Thread, NEW i \in Ind, NEW q \in Seq(Region[i]),
         Len(q) <= Capacity, caches' = [caches EXCEPT ![t][i] = q],
         made' \in [Thread -> SUBSET Ind], i \in made'[t],
         \A u \in Thread : made[u] \subseteq made'[u]
  PROVE  /\ DOMAIN caches' = Thread
         /\ \A u \in Thread :
              /\ DOMAIN caches'[u] = Ind
              /\ \A k \in Ind : /\ caches'[u][k] \in Seq(Region[k])
                                /\ num(u, k)' <= Capacity
                                /\ num(u, k)' > 0 => k \in made'[u]
<1>1. /\ DOMAIN caches' = Thread /\ \A u \in Thread : DOMAIN caches'[u] = Ind
      /\ caches'[t][i] = q /\ \A k \in Ind : k # i => caches'[t][k] = caches[t][k]
      /\ \A u \in Thread : u # t => caches'[u] = caches[u]
  BY BinUpdate
<1>2. ASSUME NEW u \in Thread, NEW k \in Ind
      PROVE  /\ caches'[u][k] \in Seq(Region[k])
             /\ num(u, k)' <= Capacity
             /\ num(u, k)' > 0 => k \in made'[u]
  <2>1. CASE u = t /\ k = i BY <1>1, <2>1 DEF num
  <2>2. CASE ~(u = t /\ k = i)
    <3>1. caches'[u][k] = caches[u][k] BY <1>1, <2>2
    <3> QED BY <3>1, ThreadFacts DEF num
  <2> QED BY <2>1, <2>2
<1> QED BY <1>1, <1>2

LEMMA OpStep ==
  ASSUME TypeOK, NEW t \in Thread, NEW o \in OpType, Goto(t, o)
  PROVE  /\ op'[t] = o /\ \A u \in Thread : u # t => op'[u] = op[u]
         /\ op' \in [Thread -> OpType]
BY DEF TypeOK, Goto

\* A step that leaves the bins of t as they are, and no flush of them half done
\* that was not before.
LEMMA BinsKept ==
  ASSUME IInv, NEW t \in Thread, caches' = caches, \A i \in Ind : Flushed(t, i)' = Flushed(t, i)
  PROVE  /\ \A i \in Ind : BinDistinct(t, i)'
         /\ \A b, i : i \in Ind => (InBin(b, t, i)' <=> InBin(b, t, i))
BY DEF IInv, BinDistinct, InBin

\* What one thread's step has to show.
LEMMA ThreadStep ==
  ASSUME IInv, NEW t \in Thread, BinsOfOthersKept(t), TypeOK', CallShape(t)', Fits(t)',
         \A i \in Ind : BinDistinct(t, i)',
         \A b \in Block : PlacedOnce(b)'
  PROVE  IInv'
<1>1. ASSUME NEW u \in Thread
      PROVE  CallShape(u)' /\ Fits(u)' /\ \A i \in Ind : BinDistinct(u, i)'
  BY OthersKept
<1>2. BatchesFit' BY <1>1 DEF BatchesFit, Fits
<1> QED BY <1>1, <1>2 DEF IInv

\* A bin that a call uses is made.
LEMMA MadeUpdate ==
  ASSUME TypeOK, NEW t \in Thread, NEW i \in Ind, made' = [made EXCEPT ![t] = @ \cup {i}]
  PROVE  /\ made' \in [Thread -> SUBSET Ind] /\ i \in made'[t]
         /\ \A u \in Thread : made[u] \subseteq made'[u]
         /\ \A u \in Thread : u # t => made'[u] = made[u]
BY DEF TypeOK

LEMMA MarkUpdate ==
  ASSUME TypeOK, NEW t \in Thread, NEW i \in Ind, NEW low \in Nat, low <= Capacity,
         low_mark' = [low_mark EXCEPT ![t][i] = low]
  PROVE  /\ low_mark'[t][i] = low /\ \A k \in Ind : k # i => low_mark'[t][k] = low_mark[t][k]
         /\ \A u \in Thread : u # t => low_mark'[u] = low_mark[u]
         /\ low_mark' \in [Thread -> [Ind -> 0..Capacity]]
<1>1. low \in 0..Capacity BY FillNumbers
<1> QED BY <1>1 DEF TypeOK

\* A thread outside a call has nothing in hand.
LEMMA IdleHand ==
  ASSUME IInv, NEW t \in Thread, At(t, "idle")
  PROVE  /\ InFlight(t) = {} /\ op[t].old = NoBlock /\ op[t].block = NoBlock
         /\ \A i \in Ind : Flushed(t, i) = 0
<1>1. CallShape(t) BY DEF IInv
<1> QED BY <1>1 DEF CallShape, InFlight, Flushed, At

\* A step that makes q of bin i, with no flush of t half done after it.
LEMMA BinBecomes ==
  ASSUME IInv, NEW t \in Thread, NEW i \in Ind, NEW q, Distinct(q, 0),
         caches' = [caches EXCEPT ![t][i] = q],
         \A k \in Ind : Flushed(t, k)' = 0,
         \A k \in Ind : k # i => Flushed(t, k) = 0
  PROVE  /\ \A k \in Ind : BinDistinct(t, k)'
         /\ \A b : InBin(b, t, i)' <=> Holds(q, 0, b)
         /\ \A b, k : k \in Ind /\ k # i => (InBin(b, t, k)' <=> InBin(b, t, k))
<1>1. /\ caches'[t][i] = q /\ \A k \in Ind : k # i => caches'[t][k] = caches[t][k]
  BY BinUpdate DEF IInv
<1>2. \A k \in Ind : BinDistinct(t, k) BY DEF IInv
<1>3. \A k \in Ind : BinDistinct(t, k)'
  <2>1. BinDistinct(t, i)' BY <1>1 DEF BinDistinct
  <2>2. ASSUME NEW k \in Ind, k # i PROVE BinDistinct(t, k)'
    BY <1>1, <1>2, <2>2 DEF BinDistinct
  <2> QED BY <2>1, <2>2
<1>4. \A b : InBin(b, t, i)' <=> Holds(q, 0, b) BY <1>1 DEF InBin
<1>5. \A b, k : k \in Ind /\ k # i => (InBin(b, t, k)' <=> InBin(b, t, k)) BY <1>1 DEF InBin
<1> QED BY <1>3, <1>4, <1>5

-----------------------------------------------------------------------------
(* malloc *)

LEMMA EnterAllocStep ==
  ASSUME IInv, NEW t \in Thread, NEW i \in Ind, NEW old, EnterAlloc(t, i, old),
         \/ old = NoBlock /\ held' = held
         \/ old \in held /\ held' = held \ {old}
  PROVE  IInv'
<1>0. TypeOK /\ CallShape(t) /\ Fits(t) BY FitsIsBatchesFit DEF IInv
<1>1. /\ At(t, "idle") /\ made' = [made EXCEPT ![t] = @ \cup {i}]
      /\ arena' = arena /\ caches' = caches /\ fill_count' = fill_count /\ low_mark' = low_mark
      /\ event_tick' = event_tick /\ gc_index' = gc_index
  BY DEF EnterAlloc, events
<1>2. PICK o : o = [Idle EXCEPT !.ind = i, !.old = old,
                       !.step  = IF caches[t][i] = <<>> THEN "fill" ELSE "pop",
                       !.count = IF caches[t][i] = <<>> THEN fill_count[t][i] ELSE 0]
  OBVIOUS
<1>3. Goto(t, o) BY <1>2 DEF EnterAlloc
<1>4. old \in Block \cup {NoBlock} BY <1>0 DEF TypeOK
<1>5. /\ fill_count[t][i] \in Nat /\ fill_count[t][i] > 0 /\ fill_count[t][i] < Capacity
      /\ caches[t][i] \in Seq(Region[i]) /\ num(t, i) \in Nat
  BY <1>0, ThreadFacts, FillNumbers
<1>6. /\ o \in OpType /\ o.ind = i /\ o.old = old /\ o.block = NoBlock /\ o.done = 0
      /\ o.step \in {"fill", "pop"}
      /\ o.step = "fill" => num(t, i) = 0 /\ o.count < Capacity /\ o.count \in Nat
      /\ o.step = "pop" => num(t, i) > 0
  <2>1. PICK c : c = fill_count[t][i] OBVIOUS
  <2>2. c \in 0..Capacity /\ 0 \in 0..Capacity /\ c < Capacity /\ c \in Nat
    BY <1>5, <2>1, FillNumbers
  <2>3. caches[t][i] = <<>> <=> num(t, i) = 0 BY <1>5 DEF num
  <2>4. CASE caches[t][i] = <<>>
    <3>1. o = [Idle EXCEPT !.ind = i, !.old = old, !.step = "fill", !.count = c]
      BY <1>2, <2>1, <2>4
    <3>2. o \in OpType BY <1>4, <2>2, <3>1, IdleFacts DEF OpType
    <3>3. /\ o.ind = i /\ o.old = old /\ o.block = NoBlock /\ o.done = 0
          /\ o.step = "fill" /\ o.count = c
      BY <3>1, IdleFacts DEF OpType
    <3> QED BY <2>2, <2>3, <2>4, <3>2, <3>3
  <2>5. CASE caches[t][i] # <<>>
    <3>1. o = [Idle EXCEPT !.ind = i, !.old = old, !.step = "pop", !.count = 0]
      BY <1>2, <2>5
    <3>2. o \in OpType BY <1>4, <2>2, <3>1, IdleFacts DEF OpType
    <3>3. o.ind = i /\ o.old = old /\ o.block = NoBlock /\ o.done = 0 /\ o.step = "pop"
      BY <3>1, IdleFacts DEF OpType
    <3>4. num(t, i) > 0 BY <1>5, <2>3, <2>5
    <3> QED BY <3>2, <3>3, <3>4
  <2> QED BY <2>4, <2>5
<1>7. op'[t] = o /\ (\A u \in Thread : u # t => op'[u] = op[u]) /\ op' \in [Thread -> OpType]
  BY <1>0, <1>3, <1>6, OpStep
<1>8. /\ made' \in [Thread -> SUBSET Ind] /\ i \in made'[t]
      /\ \A u \in Thread : made[u] \subseteq made'[u]
      /\ \A u \in Thread : u # t => made'[u] = made[u]
  BY <1>0, <1>1, MadeUpdate
<1>9. BinsOfOthersKept(t) BY <1>1, <1>7, <1>8 DEF BinsOfOthersKept
<1>10. TypeOK' BY <1>0, <1>1, <1>7, <1>8 DEF TypeOK, num
<1>11. CallShape(t)' BY <1>6, <1>7, <1>8 DEF CallShape
<1>12. Fits(t)'
  <2>1. \A k \in Ind : low_mark'[t][k] <= num(t, k)' BY <1>0, <1>1 DEF Fits, num
  <2> QED BY <1>1, <1>6, <1>7, <2>1 DEF Fits, At, num
<1>13. /\ InFlight(t) = {} /\ \A k \in Ind : Flushed(t, k) = 0
  BY <1>1, IdleHand
<1>14. \A k \in Ind : Flushed(t, k)' = Flushed(t, k) BY <1>6, <1>7, <1>13 DEF Flushed
<1>15. /\ \A k \in Ind : BinDistinct(t, k)'
       /\ \A b, k : k \in Ind => (InBin(b, t, k)' <=> InBin(b, t, k))
  BY <1>1, <1>14, BinsKept
<1>16. InFlight(t)' = {old} \ {NoBlock} BY <1>6, <1>7 DEF InFlight
<1>17. \A b \in Block : PlacedOnce(b)'
  <2>1. PICK M : M = {old} \ {NoBlock} OBVIOUS
  <2>2. M \in SUBSET Block BY <1>4, <2>1
  <2>3. \A b \in Block \ M : /\ b \in arena' <=> b \in arena
                             /\ b \in held' <=> b \in held
                             /\ \A k \in Ind : InBin(b, t, k)' <=> InBin(b, t, k)
                             /\ b \in InFlight(t)' <=> b \in InFlight(t)
    BY <1>1, <1>13, <1>15, <1>16, <2>1, BlockFacts
  <2>4. ASSUME NEW b \in M
        PROVE  /\ NotOthers(b, t) /\ b \in arena' /\ b \in InFlight(t)' /\ b \notin held'
               /\ \A k \in Ind : ~InBin(b, t, k)'
    <3>1. b \in held /\ b = old /\ b \notin held' BY <2>1, <2>4
    <3> QED BY <1>1, <1>15, <1>16, <2>1, <2>4, <3>1, HeldOnly
  <2> QED BY <1>9, <2>2, <2>3, <2>4, BlocksMove
<1> QED BY <1>9, <1>10, <1>11, <1>12, <1>15, <1>17, ThreadStep

LEMMA FillOneStep ==
  ASSUME IInv, NEW t \in Thread, FillOne(t)
  PROVE  IInv'
<1>0. TypeOK /\ CallShape(t) /\ Fits(t) BY FitsIsBatchesFit DEF IInv
<1>1. PICK i \in Ind : i = op[t].ind BY <1>0, ThreadFacts
<1>2. /\ At(t, "fill") /\ op[t].done < op[t].count
      /\ Goto(t, [op[t] EXCEPT !.done = @ + 1])
      /\ held' = held /\ made' = made /\ fill_count' = fill_count /\ low_mark' = low_mark
      /\ event_tick' = event_tick /\ gc_index' = gc_index
  BY DEF FillOne, events
<1>3. PICK b \in Region[i] : ArenaHeap!Alloc(b) /\ caches' = [caches EXCEPT ![t][i] = Append(@, b)]
  BY <1>1 DEF FillOne
<1>4. b \in Block /\ b \notin arena /\ arena' = arena \cup {b}
  BY <1>3, BlockFacts, AllocIsFresh
<1>5. PICK q : q = caches[t][i] OBVIOUS
<1>6. /\ q \in Seq(Region[i]) /\ Len(q) = op[t].done /\ Len(q) \in Nat
      /\ op[t].count < Capacity /\ op[t].done \in Nat /\ op[t].count \in Nat
      /\ i \in made[t] /\ op[t].block = NoBlock /\ op[t] \in OpType
  BY <1>0, <1>1, <1>2, <1>5, ThreadFacts DEF Fits, CallShape, At, num
<1>7. \A k \in Ind : Flushed(t, k) = 0 BY <1>2 DEF Flushed, At
<1>8. /\ Distinct(q, 0) /\ ~Holds(q, 0, b)
  BY <1>4, <1>5, <1>7, FreshOnly DEF IInv, BinDistinct, InBin
<1>9. PICK r : r = Append(q, b) OBVIOUS
<1>10. /\ r \in Seq(Region[i]) /\ Len(r) = Len(q) + 1 /\ Distinct(r, 0)
       /\ \A c : Holds(r, 0, c) <=> Holds(q, 0, c) \/ c = b
  <2>1. 0 \in 0..Len(q) BY <1>6
  <2> QED BY <1>6, <1>8, <1>9, <2>1, AppendHolds
<1>11. caches' = [caches EXCEPT ![t][i] = r] BY <1>3, <1>5, <1>9
<1>12. PICK o : o = [op[t] EXCEPT !.done = @ + 1] OBVIOUS
<1>13. /\ o \in OpType /\ o.step = "fill" /\ o.ind = i /\ o.count = op[t].count
       /\ o.done = op[t].done + 1 /\ o.block = NoBlock /\ o.old = op[t].old
  <2>1. op[t].done + 1 \in 0..Capacity BY <1>2, <1>6, FillNumbers
  <2> QED BY <1>1, <1>2, <1>6, <1>12, <2>1 DEF OpType, At
<1>14. op'[t] = o /\ (\A u \in Thread : u # t => op'[u] = op[u]) /\ op' \in [Thread -> OpType]
  BY <1>0, <1>2, <1>12, <1>13, OpStep
<1>15. /\ caches'[t][i] = r /\ \A k \in Ind : k # i => caches'[t][k] = caches[t][k]
       /\ \A u \in Thread : u # t => caches'[u] = caches[u]
  BY <1>0, <1>11, BinUpdate
<1>16. BinsOfOthersKept(t) BY <1>2, <1>14, <1>15 DEF BinsOfOthersKept
<1>17. TypeOK'
  <2>1. /\ DOMAIN caches' = Thread
        /\ \A u \in Thread :
             /\ DOMAIN caches'[u] = Ind
             /\ \A k \in Ind : /\ caches'[u][k] \in Seq(Region[k])
                               /\ num(u, k)' <= Capacity
                               /\ num(u, k)' > 0 => k \in made'[u]
    <3>1. Len(r) <= Capacity BY <1>2, <1>6, <1>10, FillNumbers
    <3>2. made' \in [Thread -> SUBSET Ind] /\ \A u \in Thread : made[u] \subseteq made'[u]
      BY <1>0, <1>2 DEF TypeOK
    <3> QED BY <1>0, <1>2, <1>6, <1>10, <1>11, <3>1, <3>2, BinsTyped
  <2> QED BY <1>0, <1>2, <1>4, <1>14, <2>1 DEF TypeOK
<1>18. CallShape(t)' BY <1>2, <1>6, <1>13, <1>14 DEF CallShape
<1>19. Fits(t)'
  <2>1. num(t, i)' = op[t].done + 1 BY <1>6, <1>10, <1>15 DEF num
  <2>2. op[t].done + 1 <= op[t].count BY <1>2, <1>6
  <2>3. \A k \in Ind : low_mark'[t][k] <= num(t, k)'
    <3>1. low_mark[t][i] <= op[t].done + 1
      BY <1>0, <1>5, <1>6, ThreadFacts DEF Fits, num
    <3> QED BY <1>0, <1>2, <1>15, <2>1, <3>1 DEF Fits, num
  <2> QED BY <1>6, <1>13, <1>14, <2>1, <2>2, <2>3 DEF Fits, At
<1>20. \A k \in Ind : Flushed(t, k)' = 0 BY <1>13, <1>14 DEF Flushed
<1>21. /\ \A k \in Ind : BinDistinct(t, k)'
       /\ \A c : InBin(c, t, i)' <=> Holds(r, 0, c)
       /\ \A c, k : k \in Ind /\ k # i => (InBin(c, t, k)' <=> InBin(c, t, k))
  BY <1>7, <1>10, <1>11, <1>20, BinBecomes
<1>22. InFlight(t)' = InFlight(t) BY <1>6, <1>13, <1>14 DEF InFlight
<1>23. \A c \in Block : PlacedOnce(c)'
  <2>1. \A c : InBin(c, t, i)' <=> InBin(c, t, i) \/ c = b
    BY <1>5, <1>7, <1>10, <1>21 DEF InBin
  <2>2. \A c \in Block \ {b} : /\ c \in arena' <=> c \in arena
                               /\ c \in held' <=> c \in held
                               /\ \A k \in Ind : InBin(c, t, k)' <=> InBin(c, t, k)
                               /\ c \in InFlight(t)' <=> c \in InFlight(t)
    BY <1>2, <1>4, <1>21, <1>22, <2>1
  <2>3. /\ NotOthers(b, t) /\ b \in arena' /\ b \notin InFlight(t)' /\ b \notin held'
        /\ \A k \in Ind : InBin(b, t, k)' <=> k = i
    BY <1>2, <1>4, <1>21, <1>22, <2>1, FreshOnly
  <2>4. {b} \in SUBSET Block BY <1>4
  <2> QED BY <1>16, <2>2, <2>3, <2>4, BlocksMove
<1> QED BY <1>16, <1>17, <1>18, <1>19, <1>21, <1>23, ThreadStep

LEMMA FilledStep ==
  ASSUME IInv, NEW t \in Thread, Filled(t)
  PROVE  IInv'
<1>0. TypeOK /\ CallShape(t) /\ Fits(t) BY FitsIsBatchesFit DEF IInv
<1>1. PICK i \in Ind : i = op[t].ind BY <1>0, ThreadFacts
<1>2. /\ At(t, "fill") /\ op[t].done > 0
      /\ fill_count' = [fill_count EXCEPT ![t][i] = Smaller(@ * 2, MaxFill)]
      /\ Goto(t, [op[t] EXCEPT !.step = "pop", !.count = 0, !.done = 0])
      /\ arena' = arena /\ held' = held /\ made' = made /\ caches' = caches
      /\ low_mark' = low_mark /\ event_tick' = event_tick /\ gc_index' = gc_index
  BY <1>1 DEF Filled, events
<1>3. /\ num(t, i) > 0 /\ i \in made[t] /\ op[t].block = NoBlock /\ op[t] \in OpType
      /\ fill_count[t][i] \in InitFillCount..MaxFill
  BY <1>0, <1>1, <1>2, ThreadFacts DEF Fits, CallShape, At
<1>4. PICK o : o = [op[t] EXCEPT !.step = "pop", !.count = 0, !.done = 0] OBVIOUS
<1>5. /\ o \in OpType /\ o.step = "pop" /\ o.ind = i /\ o.block = NoBlock
      /\ o.old = op[t].old /\ o.count = 0 /\ o.done = 0
  <2>1. 0 \in 0..Capacity BY FillNumbers
  <2> QED BY <1>1, <1>3, <1>4, <2>1 DEF OpType
<1>6. op'[t] = o /\ (\A u \in Thread : u # t => op'[u] = op[u]) /\ op' \in [Thread -> OpType]
  BY <1>0, <1>2, <1>4, <1>5, OpStep
<1>7. BinsOfOthersKept(t) BY <1>2, <1>6 DEF BinsOfOthersKept
<1>8. TypeOK'
  <2>1. Smaller(fill_count[t][i] * 2, MaxFill) \in InitFillCount..MaxFill
    BY <1>3, FillNumbers DEF Smaller
  <2>2. fill_count' \in [Thread -> [Ind -> InitFillCount..MaxFill]]
    BY <1>0, <1>2, <2>1 DEF TypeOK
  <2> QED BY <1>0, <1>2, <1>6, <2>2 DEF TypeOK, num
<1>9. CallShape(t)' BY <1>2, <1>3, <1>5, <1>6 DEF CallShape
<1>10. Fits(t)'
  <2>1. \A k \in Ind : low_mark'[t][k] <= num(t, k)' BY <1>0, <1>2 DEF Fits, num
  <2> QED BY <1>2, <1>3, <1>5, <1>6, <2>1 DEF Fits, At, num
<1>11. \A k \in Ind : Flushed(t, k)' = Flushed(t, k) BY <1>2, <1>5, <1>6 DEF Flushed, At
<1>12. /\ \A k \in Ind : BinDistinct(t, k)'
       /\ \A b, k : k \in Ind => (InBin(b, t, k)' <=> InBin(b, t, k))
  BY <1>2, <1>11, BinsKept
<1>13. InFlight(t)' = InFlight(t) BY <1>3, <1>5, <1>6 DEF InFlight
<1>14. \A b \in Block : PlacedOnce(b)'
  <2>1. ASSUME NEW b \in Block PROVE PlaceKept(b)
    BY <1>2, <1>7, <1>12, <1>13, OthersKept DEF PlaceKept
  <2> QED BY <2>1, PlacedStays DEF IInv
<1> QED BY <1>7, <1>8, <1>9, <1>10, <1>12, <1>14, ThreadStep

LEMMA FillFailedStep ==
  ASSUME IInv, NEW t \in Thread, FillFailed(t)
  PROVE  IInv'
<1>0. TypeOK /\ CallShape(t) /\ Fits(t) BY FitsIsBatchesFit DEF IInv
<1>1. PICK old \in Block \cup {NoBlock} : old = op[t].old BY <1>0, ThreadFacts DEF OpType
<1>2. /\ At(t, "fill") /\ Event(t, Idle)
      /\ held' = held \cup ({old} \ {NoBlock})
      /\ arena' = arena /\ made' = made /\ caches' = caches
      /\ fill_count' = fill_count /\ low_mark' = low_mark
  BY <1>1 DEF FillFailed, bins
<1>3. op[t].ind \in made[t] /\ op[t].block = NoBlock BY <1>0, <1>2 DEF CallShape, At
<1>4. GoesOn(t, Idle)
  <2>1. \A k \in Ind : /\ low_mark'[t][k] \in Nat /\ Len(caches'[t][k]) \in Nat
                       /\ low_mark'[t][k] <= Len(caches'[t][k]) /\ low_mark'[t][k] <= Capacity
    BY <1>0, <1>2, ThreadFacts DEF Fits, num
  <2>2. made'[t] \subseteq Ind /\ made'[t] # {} BY <1>0, <1>2, <1>3, ThreadFacts
  <2>3. \A u \in Thread : u # t => /\ made'[u] = made[u] /\ caches'[u] = caches[u]
                                   /\ low_mark'[u] = low_mark[u]
    BY <1>2
  <2>4. PICK o \in OpType : o = Idle BY IdleFacts
  <2>5. /\ o.step \in {"idle", "reuse"} /\ o.block = NoBlock /\ o.count = 0 /\ o.done = 0
        /\ o.step = "idle" <=> o.old = NoBlock
    BY <2>4, IdleFacts
  <2>6. Event(t, o) BY <1>2, <2>4
  <2>7. GoesOn(t, o) BY <2>1, <2>2, <2>3, <2>5, <2>6, EventGoesOn
  <2> QED BY <2>4, <2>7
<1>5. /\ BinsOfOthersKept(t) /\ CallShape(t)' /\ Fits(t)'
      /\ op'[t].block = NoBlock /\ op'[t].old = NoBlock
      /\ \A k \in Ind : Flushed(t, k)' = 0
  BY <1>4, IdleFacts DEF GoesOn
<1>6. TypeOK' BY <1>0, <1>2, <1>4 DEF TypeOK, GoesOn, num
<1>7. \A k \in Ind : Flushed(t, k)' = Flushed(t, k) BY <1>2, <1>5 DEF Flushed, At
<1>8. /\ \A k \in Ind : BinDistinct(t, k)'
      /\ \A b, k : k \in Ind => (InBin(b, t, k)' <=> InBin(b, t, k))
  BY <1>2, <1>7, BinsKept
<1>9. InFlight(t) = {old} \ {NoBlock} /\ InFlight(t)' = {}
  BY <1>1, <1>3, <1>5 DEF InFlight
<1>10. \A b \in Block : PlacedOnce(b)'
  <2>1. PICK M : M = {old} \ {NoBlock} OBVIOUS
  <2>2. M \in SUBSET Block BY <1>1, <2>1
  <2>3. \A b \in Block \ M : /\ b \in arena' <=> b \in arena
                             /\ b \in held' <=> b \in held
                             /\ \A k \in Ind : InBin(b, t, k)' <=> InBin(b, t, k)
                             /\ b \in InFlight(t)' <=> b \in InFlight(t)
    BY <1>2, <1>8, <1>9, <2>1, BlockFacts
  <2>4. ASSUME NEW b \in M
        PROVE  /\ NotOthers(b, t) /\ b \in arena' /\ b \notin InFlight(t)' /\ b \in held'
               /\ \A k \in Ind : ~InBin(b, t, k)'
    BY <1>2, <1>8, <1>9, <2>1, <2>4, FlyingOnly
  <2> QED BY <1>5, <2>2, <2>3, <2>4, BlocksMove
<1> QED BY <1>5, <1>6, <1>8, <1>10, ThreadStep

LEMMA AfterAllocFacts ==
  ASSUME TypeOK, NEW t \in Thread
  PROVE  LET o == AfterAlloc(t)
         IN  /\ o \in OpType /\ o.step \in {"idle", "reuse"} /\ o.block = NoBlock
             /\ o.count = 0 /\ o.done = 0 /\ o.old = op[t].old
             /\ o.step = "idle" <=> o.old = NoBlock
<1>1. PICK old \in Block \cup {NoBlock} : old = op[t].old BY ThreadFacts DEF OpType
<1>2. PICK o : o = [Idle EXCEPT !.step = "reuse", !.old = old] OBVIOUS
<1>3. /\ o \in OpType /\ o.step = "reuse" /\ o.block = NoBlock /\ o.count = 0 /\ o.done = 0
      /\ o.old = old
  BY <1>2, IdleFacts DEF OpType
<1>4. AfterAlloc(t) = IF old = NoBlock THEN Idle ELSE o BY <1>1, <1>2 DEF AfterAlloc
<1>5. CASE old = NoBlock BY <1>1, <1>4, <1>5, IdleFacts
<1>6. CASE old # NoBlock BY <1>1, <1>3, <1>4, <1>6
<1> QED BY <1>5, <1>6

LEMMA PopRegionStep ==
  ASSUME IInv, NEW t \in Thread, PopRegion(t)
  PROVE  IInv'
<1>0. TypeOK /\ CallShape(t) /\ Fits(t) BY FitsIsBatchesFit DEF IInv
<1>1. PICK i \in Ind : i = op[t].ind BY <1>0, ThreadFacts
<1>2. PICK q : q = caches[t][i] OBVIOUS
<1>3. PICK p : p = SubSeq(q, 1, Len(q) - 1) OBVIOUS
<1>4. PICK b : b = q[Len(q)] OBVIOUS
<1>5. /\ At(t, "pop")
      /\ caches' = [caches EXCEPT ![t][i] = p]
      /\ low_mark' = [low_mark EXCEPT ![t][i] = Smaller(@, Len(q) - 1)]
      /\ held' = held \cup {b}
      /\ arena' = arena /\ made' = made /\ fill_count' = fill_count
      /\ Event(t, AfterAlloc(t))
  BY <1>0, <1>1, <1>2, <1>3, <1>4 DEF PopRegion, num, TypeOK
<1>6. /\ q \in Seq(Region[i]) /\ Len(q) > 0 /\ Len(q) \in Nat /\ Len(q) <= Capacity
      /\ i \in made[t] /\ op[t].block = NoBlock
      /\ low_mark[t][i] \in Nat /\ low_mark[t][i] <= Len(q)
  BY <1>0, <1>1, <1>2, <1>5, ThreadFacts DEF Fits, CallShape, At, num
<1>7. \A k \in Ind : Flushed(t, k) = 0 BY <1>5 DEF Flushed, At
<1>8. Distinct(q, 0) BY <1>2, <1>7 DEF IInv, BinDistinct
<1>9. /\ b \in Region[i] /\ Holds(q, 0, b)
      /\ p \in Seq(Region[i]) /\ Len(p) = Len(q) - 1 /\ Distinct(p, 0)
      /\ \A c : Holds(p, 0, c) <=> Holds(q, 0, c) /\ c # b
  BY <1>3, <1>4, <1>6, <1>8, FrontHolds
<1>10. /\ caches'[t][i] = p /\ \A k \in Ind : k # i => caches'[t][k] = caches[t][k]
       /\ \A u \in Thread : u # t => caches'[u] = caches[u]
  BY <1>0, <1>5, BinUpdate
<1>11. PICK low \in Nat : /\ low = Smaller(low_mark[t][i], Len(q) - 1)
                          /\ low <= Len(p) /\ low <= Capacity
  BY <1>6, <1>9, FillNumbers DEF Smaller
<1>12. /\ low_mark'[t][i] = low /\ \A k \in Ind : k # i => low_mark'[t][k] = low_mark[t][k]
       /\ \A u \in Thread : u # t => low_mark'[u] = low_mark[u]
       /\ low_mark' \in [Thread -> [Ind -> 0..Capacity]]
  <2>1. low_mark' = [low_mark EXCEPT ![t][i] = low] BY <1>0, <1>5, <1>11 DEF TypeOK
  <2> QED BY <1>0, <1>11, <2>1, MarkUpdate
<1>13. GoesOn(t, AfterAlloc(t))
  <2>1. \A k \in Ind : /\ low_mark'[t][k] \in Nat /\ Len(caches'[t][k]) \in Nat
                       /\ low_mark'[t][k] <= Len(caches'[t][k]) /\ low_mark'[t][k] <= Capacity
    <3>1. ASSUME NEW k \in Ind, k # i
          PROVE  /\ low_mark'[t][k] \in Nat /\ Len(caches'[t][k]) \in Nat
                 /\ low_mark'[t][k] <= Len(caches'[t][k]) /\ low_mark'[t][k] <= Capacity
      BY <1>0, <1>10, <1>12, <3>1, ThreadFacts DEF Fits, num
    <3> QED BY <1>6, <1>9, <1>10, <1>11, <1>12, <3>1
  <2>2. made'[t] \subseteq Ind /\ made'[t] # {} BY <1>0, <1>5, <1>6, ThreadFacts
  <2>3. \A u \in Thread : u # t => /\ made'[u] = made[u] /\ caches'[u] = caches[u]
                                   /\ low_mark'[u] = low_mark[u]
    BY <1>5, <1>10, <1>12
  <2>4. PICK o \in OpType : o = AfterAlloc(t) BY <1>0, AfterAllocFacts
  <2>5. /\ o.step \in {"idle", "reuse"} /\ o.block = NoBlock /\ o.count = 0 /\ o.done = 0
        /\ o.step = "idle" <=> o.old = NoBlock
    BY <1>0, <2>4, AfterAllocFacts
  <2>6. Event(t, o) BY <1>5, <2>4
  <2>7. GoesOn(t, o) BY <2>1, <2>2, <2>3, <2>5, <2>6, EventGoesOn
  <2> QED BY <2>4, <2>7
<1>14. /\ BinsOfOthersKept(t) /\ CallShape(t)' /\ Fits(t)'
       /\ op'[t].block = NoBlock /\ op'[t].old = op[t].old
       /\ \A k \in Ind : Flushed(t, k)' = 0
  BY <1>0, <1>13, AfterAllocFacts DEF GoesOn
<1>15. TypeOK'
  <2>1. /\ DOMAIN caches' = Thread
        /\ \A u \in Thread :
             /\ DOMAIN caches'[u] = Ind
             /\ \A k \in Ind : /\ caches'[u][k] \in Seq(Region[k])
                               /\ num(u, k)' <= Capacity
                               /\ num(u, k)' > 0 => k \in made'[u]
    <3>1. Len(p) <= Capacity BY <1>6, <1>9, FillNumbers
    <3>2. made' \in [Thread -> SUBSET Ind] /\ \A u \in Thread : made[u] \subseteq made'[u]
      BY <1>0, <1>5 DEF TypeOK
    <3> QED BY <1>0, <1>5, <1>6, <1>9, <3>1, <3>2, BinsTyped
  <2>2. b \in Block BY <1>9, BlockFacts
  <2> QED BY <1>0, <1>5, <1>12, <1>13, <2>1, <2>2 DEF TypeOK, GoesOn
<1>16. /\ \A k \in Ind : BinDistinct(t, k)'
       /\ \A c : InBin(c, t, i)' <=> Holds(p, 0, c)
       /\ \A c, k : k \in Ind /\ k # i => (InBin(c, t, k)' <=> InBin(c, t, k))
  BY <1>5, <1>7, <1>9, <1>14, BinBecomes
<1>17. InFlight(t)' = InFlight(t) BY <1>6, <1>14 DEF InFlight
<1>18. \A c \in Block : PlacedOnce(c)'
  <2>1. \A c : InBin(c, t, i)' <=> InBin(c, t, i) /\ c # b
    BY <1>2, <1>7, <1>9, <1>16 DEF InBin
  <2>2. InBin(b, t, i) /\ b \in Block BY <1>2, <1>7, <1>9, BlockFacts DEF InBin
  <2>3. \A c \in Block \ {b} : /\ c \in arena' <=> c \in arena
                               /\ c \in held' <=> c \in held
                               /\ \A k \in Ind : InBin(c, t, k)' <=> InBin(c, t, k)
                               /\ c \in InFlight(t)' <=> c \in InFlight(t)
    BY <1>5, <1>16, <1>17, <2>1
  <2>4. /\ NotOthers(b, t) /\ b \in arena' /\ b \notin InFlight(t)' /\ b \in held'
        /\ \A k \in Ind : ~InBin(b, t, k)'
    BY <1>5, <1>16, <1>17, <2>1, <2>2, BinOnly
  <2>5. {b} \in SUBSET Block BY <2>2
  <2> QED BY <1>14, <2>3, <2>4, <2>5, BlocksMove
<1> QED BY <1>14, <1>15, <1>16, <1>18, ThreadStep

LEMMA LargeAllocStep ==
  ASSUME IInv, NEW t \in Thread, NEW old, LargeAlloc(t, old), old = NoBlock \/ old \in held
  PROVE  IInv'
<1>0. TypeOK /\ CallShape(t) /\ Fits(t) BY FitsIsBatchesFit DEF IInv
<1>1. PICK b \in Large : ArenaHeap!Alloc(b) /\ held' = (held \ {old}) \cup {b}
  BY DEF LargeAlloc
<1>2. PICK o : o = IF old = NoBlock THEN Idle ELSE [Idle EXCEPT !.step = "reuse", !.old = old]
  OBVIOUS
<1>3. /\ At(t, "idle") /\ Goto(t, o)
      /\ made' = made /\ caches' = caches /\ fill_count' = fill_count /\ low_mark' = low_mark
      /\ event_tick' = event_tick /\ gc_index' = gc_index
  BY <1>2 DEF LargeAlloc, events, bins
<1>4. b \in Block /\ b \notin arena /\ b \notin held /\ arena' = arena \cup {b}
  <2>1. b \in Block BY BlockFacts
  <2> QED BY <1>1, <2>1, AllocIsFresh, FreshOnly
<1>5. old \in Block \cup {NoBlock} /\ old # b BY <1>0, <1>4, BlockFacts DEF TypeOK
<1>6. /\ o \in OpType /\ o.step \in {"idle", "reuse"} /\ o.block = NoBlock /\ o.old = old
      /\ o.step = "idle" <=> old = NoBlock
  <2>1. CASE old = NoBlock BY <1>2, <2>1, IdleFacts
  <2>2. CASE old # NoBlock
    <3>1. o = [Idle EXCEPT !.step = "reuse", !.old = old] BY <1>2, <2>2
    <3>2. o \in OpType BY <1>5, <3>1, IdleFacts DEF OpType
    <3>3. o.step = "reuse" /\ o.block = NoBlock /\ o.old = old
      BY <3>1, IdleFacts DEF OpType
    <3> QED BY <2>2, <3>2, <3>3
  <2> QED BY <2>1, <2>2
<1>7. op'[t] = o /\ (\A u \in Thread : u # t => op'[u] = op[u]) /\ op' \in [Thread -> OpType]
  BY <1>0, <1>3, <1>6, OpStep
<1>8. BinsOfOthersKept(t) BY <1>3, <1>7 DEF BinsOfOthersKept
<1>9. TypeOK' BY <1>0, <1>1, <1>3, <1>4, <1>7 DEF TypeOK, num
<1>10. CallShape(t)' BY <1>6, <1>7 DEF CallShape
<1>11. Fits(t)'
  <2>1. \A k \in Ind : low_mark'[t][k] <= num(t, k)' BY <1>0, <1>3 DEF Fits, num
  <2> QED BY <1>6, <1>7, <2>1 DEF Fits, At
<1>12. /\ InFlight(t) = {} /\ \A k \in Ind : Flushed(t, k) = 0
  BY <1>3, IdleHand
<1>13. \A k \in Ind : Flushed(t, k)' = Flushed(t, k) BY <1>6, <1>7, <1>12 DEF Flushed
<1>14. /\ \A k \in Ind : BinDistinct(t, k)'
       /\ \A c, k : k \in Ind => (InBin(c, t, k)' <=> InBin(c, t, k))
  BY <1>3, <1>13, BinsKept
<1>15. InFlight(t)' = {old} \ {NoBlock} BY <1>6, <1>7 DEF InFlight
<1>16. \A c \in Block : PlacedOnce(c)'
  <2>1. PICK M : M = {b} \cup ({old} \ {NoBlock}) OBVIOUS
  <2>2. M \in SUBSET Block BY <1>4, <1>5, <2>1
  <2>3. \A c \in Block \ M : /\ c \in arena' <=> c \in arena
                             /\ c \in held' <=> c \in held
                             /\ \A k \in Ind : InBin(c, t, k)' <=> InBin(c, t, k)
                             /\ c \in InFlight(t)' <=> c \in InFlight(t)
    BY <1>1, <1>4, <1>12, <1>14, <1>15, <2>1, BlockFacts
  <2>4. /\ NotOthers(b, t) /\ b \in arena' /\ b \notin InFlight(t)' /\ b \in held'
        /\ \A k \in Ind : ~InBin(b, t, k)'
    BY <1>1, <1>4, <1>5, <1>14, <1>15, FreshOnly
  <2>5. ASSUME old # NoBlock
        PROVE  /\ NotOthers(old, t) /\ old \in arena' /\ old \in InFlight(t)' /\ old \notin held'
               /\ \A k \in Ind : ~InBin(old, t, k)'
    BY <1>1, <1>4, <1>5, <1>14, <1>15, <2>5, HeldOnly
  <2>6. ASSUME NEW c \in M
        PROVE  /\ NotOthers(c, t) /\ c \in arena'
               /\ c \in held' <=> c \notin InFlight(t)'
               /\ \A k \in Ind : ~InBin(c, t, k)'
    BY <2>1, <2>4, <2>5, <2>6
  <2>7. \A c \in M : c \in arena' <=> \/ c \in held' \/ c \in InFlight(t)'
                                      \/ \E k \in Ind : InBin(c, t, k)'
    BY <2>6
  <2> QED BY <1>8, <2>2, <2>3, <2>6, <2>7, BlocksMove
<1> QED BY <1>8, <1>9, <1>10, <1>11, <1>14, <1>16, ThreadStep

-----------------------------------------------------------------------------
(* free *)

\* Block b is in the hands of t, which puts it in a bin.
InHand(b, t) ==
  /\ b \in arena /\ NotOthers(b, t) /\ \A k \in Ind : ~InBin(b, t, k)
  /\ InFlight(t) \subseteq {b} /\ op[t].block = NoBlock
  /\ \A k \in Ind : Flushed(t, k) = 0

LEMMA PushFullStep ==
  ASSUME IInv, NEW t \in Thread, NEW b \in Small, NEW event \in BOOLEAN,
         PushRegion(t, b, event), InHand(b, t), held' = held \ {b},
         num(t, sz_to_ind(b)) = Capacity
  PROVE  IInv'
<1>0. TypeOK /\ CallShape(t) /\ Fits(t) BY FitsIsBatchesFit DEF IInv
<1>1. PICK i \in Ind : i = sz_to_ind(b) /\ b \in Region[i] BY BlockFacts
<1>2. b \in Block /\ b # NoBlock BY BlockFacts
<1>3. PICK s \in {"flush", "flushOld"} : s = IF event THEN "flush" ELSE "flushOld" OBVIOUS
<1>4. PICK m : m = MaxFill OBVIOUS
<1>5. PICK o : o = [Idle EXCEPT !.step = s, !.ind = i, !.count = m, !.block = b] OBVIOUS
<1>6. /\ made' = [made EXCEPT ![t] = @ \cup {i}] /\ Goto(t, o)
      /\ arena' = arena /\ caches' = caches /\ fill_count' = fill_count /\ low_mark' = low_mark
      /\ event_tick' = event_tick /\ gc_index' = gc_index
  BY <1>1, <1>3, <1>4, <1>5 DEF PushRegion, events
<1>7. /\ o \in OpType /\ o.step = s /\ o.ind = i /\ o.count = m /\ o.done = 0
      /\ o.block = b /\ o.old = NoBlock
  <2>1. m \in 0..Capacity BY <1>4, FillNumbers
  <2> QED BY <1>2, <1>5, <2>1, IdleFacts DEF OpType
<1>8. op'[t] = o /\ (\A u \in Thread : u # t => op'[u] = op[u]) /\ op' \in [Thread -> OpType]
  BY <1>0, <1>6, <1>7, OpStep
<1>9. /\ made' \in [Thread -> SUBSET Ind] /\ i \in made'[t]
      /\ \A u \in Thread : made[u] \subseteq made'[u]
      /\ \A u \in Thread : u # t => made'[u] = made[u]
  BY <1>0, <1>6, MadeUpdate
<1>10. BinsOfOthersKept(t) BY <1>6, <1>8, <1>9 DEF BinsOfOthersKept
<1>11. TypeOK' BY <1>0, <1>6, <1>8, <1>9 DEF TypeOK, num
<1>12. num(t, i)' = Capacity BY <1>1, <1>6 DEF num
<1>13. CallShape(t)' BY <1>1, <1>4, <1>7, <1>8, <1>9, <1>12 DEF CallShape
<1>14. Fits(t)'
  <2>1. \A k \in Ind : low_mark'[t][k] <= num(t, k)' BY <1>0, <1>6 DEF Fits, num
  <2>2. 0 <= m /\ m <= Capacity BY <1>4, FillNumbers
  <2> QED BY <1>7, <1>8, <1>12, <2>1, <2>2 DEF Fits, At
<1>15. \A k \in Ind : Flushed(t, k)' = Flushed(t, k) BY <1>7, <1>8 DEF Flushed, InHand
<1>16. /\ \A k \in Ind : BinDistinct(t, k)'
       /\ \A c, k : k \in Ind => (InBin(c, t, k)' <=> InBin(c, t, k))
  BY <1>6, <1>15, BinsKept
<1>17. InFlight(t)' = {b} BY <1>2, <1>7, <1>8 DEF InFlight
<1>18. \A c \in Block : PlacedOnce(c)'
  <2>1. \A c \in Block \ {b} : /\ c \in arena' <=> c \in arena
                               /\ c \in held' <=> c \in held
                               /\ \A k \in Ind : InBin(c, t, k)' <=> InBin(c, t, k)
                               /\ c \in InFlight(t)' <=> c \in InFlight(t)
    BY <1>6, <1>16, <1>17 DEF InHand
  <2>2. /\ NotOthers(b, t) /\ b \in arena' /\ b \in InFlight(t)' /\ b \notin held'
        /\ \A k \in Ind : ~InBin(b, t, k)'
    BY <1>6, <1>16, <1>17 DEF InHand
  <2>3. {b} \in SUBSET Block BY <1>2
  <2> QED BY <1>10, <2>1, <2>2, <2>3, BlocksMove
<1> QED BY <1>10, <1>11, <1>13, <1>14, <1>16, <1>18, ThreadStep

LEMMA PushRoomStep ==
  ASSUME IInv, NEW t \in Thread, NEW b \in Small, NEW event \in BOOLEAN,
         PushRegion(t, b, event), InHand(b, t), held' = held \ {b},
         num(t, sz_to_ind(b)) # Capacity
  PROVE  IInv'
<1>0. TypeOK /\ CallShape(t) /\ Fits(t) BY FitsIsBatchesFit DEF IInv
<1>1. PICK i \in Ind : i = sz_to_ind(b) /\ b \in Region[i] BY BlockFacts
<1>2. PICK q : q = caches[t][i] OBVIOUS
<1>3. PICK r : r = Append(q, b) OBVIOUS
<1>4. /\ made' = [made EXCEPT ![t] = @ \cup {i}] /\ caches' = [caches EXCEPT ![t][i] = r]
      /\ arena' = arena /\ fill_count' = fill_count /\ low_mark' = low_mark
      /\ \/ Event(t, Idle)
         \/ Goto(t, Idle) /\ UNCHANGED events
  BY <1>1, <1>2, <1>3 DEF PushRegion
<1>5. q \in Seq(Region[i]) /\ Len(q) \in Nat /\ Len(q) < Capacity
  BY <1>0, <1>1, <1>2, ThreadFacts, FillNumbers DEF num
<1>6. /\ Distinct(q, 0) /\ ~Holds(q, 0, b)
  BY <1>2 DEF IInv, BinDistinct, InBin, InHand
<1>7. /\ r \in Seq(Region[i]) /\ Len(r) = Len(q) + 1 /\ Distinct(r, 0)
      /\ \A c : Holds(r, 0, c) <=> Holds(q, 0, c) \/ c = b
  <2>1. 0 \in 0..Len(q) BY <1>5
  <2> QED BY <1>1, <1>3, <1>5, <1>6, <2>1, AppendHolds
<1>8. /\ made' \in [Thread -> SUBSET Ind] /\ i \in made'[t]
      /\ \A u \in Thread : made[u] \subseteq made'[u]
      /\ \A u \in Thread : u # t => made'[u] = made[u]
  BY <1>0, <1>4, MadeUpdate
<1>9. /\ caches'[t][i] = r /\ \A k \in Ind : k # i => caches'[t][k] = caches[t][k]
      /\ \A u \in Thread : u # t => caches'[u] = caches[u]
  BY <1>0, <1>4, BinUpdate
<1>10. GoesOn(t, Idle)
  <2>1. \A k \in Ind : /\ low_mark'[t][k] \in Nat /\ Len(caches'[t][k]) \in Nat
                       /\ low_mark'[t][k] <= Len(caches'[t][k]) /\ low_mark'[t][k] <= Capacity
    <3>1. ASSUME NEW k \in Ind
          PROVE  /\ low_mark[t][k] \in Nat /\ num(t, k) \in Nat
                 /\ low_mark[t][k] <= num(t, k) /\ low_mark[t][k] <= Capacity
      BY <1>0, ThreadFacts DEF Fits
    <3>2. ASSUME NEW k \in Ind PROVE num(t, k) <= Len(caches'[t][k]) /\ Len(caches'[t][k]) \in Nat
      BY <1>2, <1>5, <1>7, <1>9, <3>1 DEF num
    <3> QED BY <1>4, <3>1, <3>2
  <2>2. made'[t] \subseteq Ind /\ made'[t] # {} BY <1>8
  <2>3. \A u \in Thread : u # t => /\ made'[u] = made[u] /\ caches'[u] = caches[u]
                                   /\ low_mark'[u] = low_mark[u]
    BY <1>4, <1>8, <1>9
  <2>4. PICK o \in OpType : o = Idle BY IdleFacts
  <2>5. /\ o.step \in {"idle", "reuse"} /\ o.block = NoBlock /\ o.count = 0 /\ o.done = 0
        /\ o.step = "idle" <=> o.old = NoBlock
    BY <2>4, IdleFacts
  <2>6. \/ Event(t, o)
        \/ Goto(t, o) /\ UNCHANGED events
    BY <1>4, <2>4
  <2>7. GoesOn(t, o) BY <2>1, <2>2, <2>3, <2>5, <2>6, EventGoesOn
  <2> QED BY <2>4, <2>7
<1>11. /\ BinsOfOthersKept(t) /\ CallShape(t)' /\ Fits(t)'
       /\ op'[t].block = NoBlock /\ op'[t].old = NoBlock
       /\ \A k \in Ind : Flushed(t, k)' = 0
  BY <1>10, IdleFacts DEF GoesOn
<1>12. TypeOK'
  <2>1. /\ DOMAIN caches' = Thread
        /\ \A u \in Thread :
             /\ DOMAIN caches'[u] = Ind
             /\ \A k \in Ind : /\ caches'[u][k] \in Seq(Region[k])
                               /\ num(u, k)' <= Capacity
                               /\ num(u, k)' > 0 => k \in made'[u]
    <3>1. Len(r) <= Capacity BY <1>5, <1>7, FillNumbers
    <3> QED BY <1>0, <1>4, <1>7, <1>8, <3>1, BinsTyped
  <2> QED BY <1>0, <1>4, <1>8, <1>10, <2>1 DEF TypeOK, GoesOn
<1>13. /\ \A k \in Ind : BinDistinct(t, k)'
       /\ \A c : InBin(c, t, i)' <=> Holds(r, 0, c)
       /\ \A c, k : k \in Ind /\ k # i => (InBin(c, t, k)' <=> InBin(c, t, k))
  BY <1>4, <1>7, <1>11, BinBecomes DEF InHand
<1>14. InFlight(t)' = {} BY <1>11 DEF InFlight
<1>15. \A c \in Block : PlacedOnce(c)'
  <2>1. \A c : InBin(c, t, i)' <=> InBin(c, t, i) \/ c = b
    BY <1>2, <1>7, <1>13 DEF InBin, InHand
  <2>2. \A c \in Block \ {b} : /\ c \in arena' <=> c \in arena
                               /\ c \in held' <=> c \in held
                               /\ \A k \in Ind : InBin(c, t, k)' <=> InBin(c, t, k)
                               /\ c \in InFlight(t)' <=> c \in InFlight(t)
    BY <1>4, <1>13, <1>14, <2>1 DEF InHand
  <2>3. /\ NotOthers(b, t) /\ b \in arena' /\ b \notin InFlight(t)' /\ b \notin held'
        /\ \A k \in Ind : InBin(b, t, k)' <=> k = i
    BY <1>4, <1>13, <1>14, <2>1 DEF InHand
  <2>4. {b} \in SUBSET Block BY BlockFacts
  <2>5. \A c \in {b} :
          /\ NotOthers(c, t)
          /\ c \in arena' <=> \/ c \in held' \/ c \in InFlight(t)' \/ \E k \in Ind : InBin(c, t, k)'
          /\ \A k, m \in Ind : InBin(c, t, k)' /\ InBin(c, t, m)' => k = m
          /\ (\E k \in Ind : InBin(c, t, k)') => c \notin held' /\ c \notin InFlight(t)'
          /\ c \in InFlight(t)' => c \notin held'
    BY <2>3
  <2> QED BY <1>11, <2>2, <2>4, <2>5, BlocksMove
<1> QED BY <1>11, <1>12, <1>13, <1>15, ThreadStep

\* ArenaHeap!Free of a large block: t has it, and has nothing else in hand.
LEMMA LargeFreeStep ==
  ASSUME IInv, NEW t \in Thread, NEW b \in Block, ArenaHeap!Free(b), InHand(b, t),
         held' = held \ {b}, UNCHANGED <<bins, events>>,
         \/ At(t, "idle") /\ op' = op
         \/ Goto(t, Idle)
  PROVE  IInv'
<1>0. TypeOK /\ CallShape(t) /\ Fits(t) BY FitsIsBatchesFit DEF IInv
<1>1. /\ arena' = arena \ {b}
      /\ made' = made /\ caches' = caches /\ fill_count' = fill_count /\ low_mark' = low_mark
      /\ event_tick' = event_tick /\ gc_index' = gc_index
  BY DEF ArenaHeap!Free, events, bins
<1>2. /\ \A u \in Thread : u # t => op'[u] = op[u]
      /\ op' \in [Thread -> OpType]
  <2>1. CASE op' = op BY <1>0, <2>1 DEF TypeOK
  <2>2. CASE Goto(t, Idle)
    <3>1. Idle \in OpType BY IdleFacts
    <3> QED BY <1>0, <2>2, <3>1, OpStep
  <2> QED BY <2>1, <2>2
<1>3. /\ op'[t].step = "idle" /\ op'[t].block = NoBlock /\ op'[t].old = NoBlock
  <2>1. CASE At(t, "idle") /\ op' = op BY <1>0, <2>1 DEF CallShape, At
  <2>2. CASE Goto(t, Idle)
    <3>1. Idle \in OpType BY IdleFacts
    <3>2. op'[t] = Idle BY <1>0, <2>2, <3>1, OpStep
    <3> QED BY <3>2, IdleFacts
  <2> QED BY <2>1, <2>2
<1>4. BinsOfOthersKept(t) BY <1>1, <1>2 DEF BinsOfOthersKept
<1>5. TypeOK' BY <1>0, <1>1, <1>2 DEF TypeOK, num
<1>6. CallShape(t)' BY <1>3 DEF CallShape
<1>7. Fits(t)'
  <2>1. \A k \in Ind : low_mark'[t][k] <= num(t, k)' BY <1>0, <1>1 DEF Fits, num
  <2> QED BY <1>3, <2>1 DEF Fits, At
<1>8. \A k \in Ind : Flushed(t, k)' = Flushed(t, k) BY <1>3 DEF Flushed, InHand
<1>9. /\ \A k \in Ind : BinDistinct(t, k)'
      /\ \A c, k : k \in Ind => (InBin(c, t, k)' <=> InBin(c, t, k))
  BY <1>1, <1>8, BinsKept
<1>10. InFlight(t)' = {} BY <1>3 DEF InFlight
<1>11. \A c \in Block : PlacedOnce(c)'
  <2>1. \A c \in Block \ {b} : /\ c \in arena' <=> c \in arena
                               /\ c \in held' <=> c \in held
                               /\ \A k \in Ind : InBin(c, t, k)' <=> InBin(c, t, k)
                               /\ c \in InFlight(t)' <=> c \in InFlight(t)
    BY <1>1, <1>9, <1>10 DEF InHand
  <2>2. /\ NotOthers(b, t) /\ b \notin arena' /\ b \notin InFlight(t)' /\ b \notin held'
        /\ \A k \in Ind : ~InBin(b, t, k)'
    BY <1>1, <1>9, <1>10 DEF InHand
  <2>3. {b} \in SUBSET Block OBVIOUS
  <2> QED BY <1>4, <2>1, <2>2, <2>3, BlocksMove
<1> QED BY <1>4, <1>5, <1>6, <1>7, <1>9, <1>11, ThreadStep

LEMMA DallocStep ==
  ASSUME IInv, NEW t \in Thread, NEW b \in held, Dalloc(t, b)
  PROVE  IInv'
<1>1. At(t, "idle") /\ held' = held \ {b} BY DEF Dalloc
<1>2. InHand(b, t)
  BY <1>1, HeldOnly, IdleHand DEF InHand
<1>3. CASE b \in Small
  <2>1. PushRegion(t, b, TRUE) BY <1>3 DEF Dalloc
  <2>2. PICK event \in BOOLEAN : event = TRUE OBVIOUS
  <2>3. PushRegion(t, b, event) BY <2>1, <2>2
  <2>4. CASE num(t, sz_to_ind(b)) = Capacity BY <1>1, <1>2, <1>3, <2>3, <2>4, PushFullStep
  <2>5. CASE num(t, sz_to_ind(b)) # Capacity BY <1>1, <1>2, <1>3, <2>3, <2>5, PushRoomStep
  <2> QED BY <2>4, <2>5
<1>4. CASE b \notin Small
  <2>1. ArenaHeap!Free(b) /\ op' = op /\ UNCHANGED <<bins, events>>
    BY <1>4 DEF Dalloc
  <2>2. b \in Block BY HeldOnly
  <2> QED BY <1>1, <1>2, <2>1, <2>2, LargeFreeStep
<1> QED BY <1>3, <1>4

LEMMA ReuseStep ==
  ASSUME IInv, NEW t \in Thread, Reuse(t)
  PROVE  IInv'
<1>0. TypeOK /\ CallShape(t) BY DEF IInv
<1>1. PICK b : b = op[t].old OBVIOUS
<1>2. At(t, "reuse") /\ held' = held BY DEF Reuse
<1>3. /\ b # NoBlock /\ op[t].block = NoBlock /\ InFlight(t) = {b}
      /\ \A k \in Ind : Flushed(t, k) = 0
  BY <1>0, <1>1, <1>2 DEF CallShape, At, InFlight, Flushed
<1>4. b \in Block /\ b \notin held /\ InHand(b, t)
  BY <1>3, FlyingOnly DEF InHand
<1>5. held' = held \ {b} BY <1>2, <1>4
<1>6. CASE b \in Small
  <2>1. PICK event \in BOOLEAN : event = FALSE OBVIOUS
  <2>2. PushRegion(t, b, event) BY <1>1, <1>6, <2>1 DEF Reuse
  <2>3. CASE num(t, sz_to_ind(b)) = Capacity BY <1>4, <1>5, <1>6, <2>2, <2>3, PushFullStep
  <2>4. CASE num(t, sz_to_ind(b)) # Capacity BY <1>4, <1>5, <1>6, <2>2, <2>4, PushRoomStep
  <2> QED BY <2>3, <2>4
<1>7. CASE b \notin Small
  <2>1. ArenaHeap!Free(b) /\ Goto(t, Idle) /\ UNCHANGED <<bins, events>>
    BY <1>1, <1>7 DEF Reuse
  <2> QED BY <1>4, <1>5, <2>1, LargeFreeStep
<1> QED BY <1>6, <1>7

LEMMA FlushOneStep ==
  ASSUME IInv, NEW t \in Thread, FlushOne(t)
  PROVE  IInv'
<1>0. TypeOK /\ CallShape(t) /\ Fits(t) BY FitsIsBatchesFit DEF IInv
<1>1. PICK i \in Ind : i = op[t].ind BY <1>0, ThreadFacts
<1>2. PICK q : q = caches[t][i] OBVIOUS
<1>3. PICK f \in Nat : f = op[t].done BY <1>0, ThreadFacts
<1>4. PICK b : b = q[f + 1] OBVIOUS
<1>5. /\ op[t].step \in {"flush", "flushOld", "gc"} /\ f < op[t].count
      /\ ArenaHeap!Free(b) /\ Goto(t, [op[t] EXCEPT !.done = @ + 1])
      /\ held' = held /\ made' = made /\ caches' = caches /\ fill_count' = fill_count
      /\ low_mark' = low_mark /\ event_tick' = event_tick /\ gc_index' = gc_index
  BY <1>1, <1>2, <1>3, <1>4 DEF FlushOne, bins, events
<1>6. arena' = arena \ {b} BY <1>5 DEF ArenaHeap!Free
<1>7. /\ q \in Seq(Region[i]) /\ Len(q) \in Nat /\ op[t].count \in Nat /\ f < Len(q)
      /\ op[t].count <= Len(q) /\ Len(q) <= Capacity /\ op[t] \in OpType
  <2>1. /\ q \in Seq(Region[i]) /\ Len(q) \in Nat /\ op[t].count \in Nat
        /\ Len(q) <= Capacity /\ op[t] \in OpType
    BY <1>0, <1>1, <1>2, ThreadFacts DEF num
  <2>2. op[t].count <= Len(q) BY <1>0, <1>1, <1>2, <1>5 DEF Fits, num
  <2> QED BY <1>5, <2>1, <2>2
<1>8. /\ Flushed(t, i) = f /\ \A k \in Ind : k # i => Flushed(t, k) = 0
  BY <1>1, <1>3, <1>5 DEF Flushed
<1>9. Distinct(q, f) BY <1>2, <1>8 DEF IInv, BinDistinct
<1>10. /\ b \in Region[i] /\ Holds(q, f, b) /\ Distinct(q, f + 1)
       /\ \A c : Holds(q, f + 1, c) <=> Holds(q, f, c) /\ c # b
  BY <1>4, <1>7, <1>9, PassedHolds
<1>11. PICK o : o = [op[t] EXCEPT !.done = @ + 1] OBVIOUS
<1>12. /\ o \in OpType /\ o.step = op[t].step /\ o.ind = i /\ o.count = op[t].count
       /\ o.done = f + 1 /\ o.block = op[t].block /\ o.old = op[t].old
  <2>1. f + 1 \in 0..Capacity BY <1>7, FillNumbers
  <2> QED BY <1>1, <1>3, <1>7, <1>11, <2>1 DEF OpType
<1>13. op'[t] = o /\ (\A u \in Thread : u # t => op'[u] = op[u]) /\ op' \in [Thread -> OpType]
  BY <1>0, <1>5, <1>11, <1>12, OpStep
<1>14. BinsOfOthersKept(t) BY <1>5, <1>13 DEF BinsOfOthersKept
<1>15. TypeOK' BY <1>0, <1>5, <1>6, <1>13 DEF TypeOK, num
<1>16. CallShape(t)'
  <2>1. num(t, i)' = num(t, i) BY <1>5 DEF num
  <2> QED BY <1>0, <1>1, <1>5, <1>12, <1>13, <2>1 DEF CallShape
<1>17. Fits(t)'
  <2>1. \A k \in Ind : low_mark'[t][k] <= num(t, k)' /\ num(t, k)' = num(t, k)
    BY <1>0, <1>5 DEF Fits, num
  <2>2. f + 1 <= op[t].count BY <1>5, <1>7
  <2> QED BY <1>0, <1>1, <1>5, <1>12, <1>13, <2>1, <2>2 DEF Fits, At
<1>18. /\ Flushed(t, i)' = f + 1 /\ \A k \in Ind : k # i => Flushed(t, k)' = 0
  BY <1>5, <1>12, <1>13 DEF Flushed
<1>19. \A k \in Ind : BinDistinct(t, k)'
  <2>1. BinDistinct(t, i)' BY <1>2, <1>5, <1>10, <1>18 DEF BinDistinct
  <2>2. ASSUME NEW k \in Ind, k # i PROVE BinDistinct(t, k)'
    BY <1>5, <1>8, <1>18, <2>2 DEF BinDistinct, IInv
  <2> QED BY <2>1, <2>2
<1>20. \A c : InBin(c, t, i)' <=> InBin(c, t, i) /\ c # b
  BY <1>2, <1>5, <1>8, <1>10, <1>18 DEF InBin
<1>21. \A c, k : k \in Ind /\ k # i => (InBin(c, t, k)' <=> InBin(c, t, k))
  BY <1>5, <1>8, <1>18 DEF InBin
<1>22. InFlight(t)' = InFlight(t) BY <1>12, <1>13 DEF InFlight
<1>23. InBin(b, t, i) /\ b \in Block BY <1>2, <1>8, <1>10, BlockFacts DEF InBin
<1>24. \A c \in Block : PlacedOnce(c)'
  <2>1. \A c \in Block \ {b} : /\ c \in arena' <=> c \in arena
                               /\ c \in held' <=> c \in held
                               /\ \A k \in Ind : InBin(c, t, k)' <=> InBin(c, t, k)
                               /\ c \in InFlight(t)' <=> c \in InFlight(t)
    BY <1>5, <1>6, <1>20, <1>21, <1>22
  <2>2. /\ NotOthers(b, t) /\ b \notin arena' /\ b \notin InFlight(t)' /\ b \notin held'
        /\ \A k \in Ind : ~InBin(b, t, k)'
    BY <1>5, <1>6, <1>20, <1>21, <1>22, <1>23, BinOnly
  <2>3. {b} \in SUBSET Block BY <1>23
  <2> QED BY <1>14, <2>1, <2>2, <2>3, BlocksMove
<1> QED BY <1>14, <1>15, <1>16, <1>17, <1>19, <1>24, ThreadStep

\* The end of a flush: what it has not given back is the whole bin.
LEMMA RestOfFlush ==
  ASSUME IInv, NEW t \in Thread, NEW i \in Ind, i = op[t].ind,
         op[t].step \in {"flush", "flushOld", "gc"}, op[t].done = op[t].count
  PROVE  /\ Rest(t) \in Seq(Region[i]) /\ Len(Rest(t)) \in Nat /\ Distinct(Rest(t), 0)
         /\ Len(Rest(t)) = num(t, i) - op[t].count
         /\ \A b : Holds(Rest(t), 0, b) <=> InBin(b, t, i)
         /\ \A k \in Ind : k # i => Flushed(t, k) = 0
         /\ op[t].count \in 0..num(t, i) /\ num(t, i) \in Nat /\ num(t, i) <= Capacity
         /\ i \in made[t]
<1>0. TypeOK /\ CallShape(t) /\ Fits(t) BY FitsIsBatchesFit DEF IInv
<1>1. PICK q : q = caches[t][i] OBVIOUS
<1>2. PICK m \in Nat : m = op[t].count BY <1>0, ThreadFacts
<1>3. /\ q \in Seq(Region[i]) /\ Len(q) \in Nat /\ m \in 0..Len(q) /\ Len(q) <= Capacity
  <2>1. q \in Seq(Region[i]) /\ Len(q) \in Nat /\ Len(q) <= Capacity
    BY <1>0, <1>1, ThreadFacts DEF num
  <2>2. m <= Len(q) BY <1>0, <1>1, <1>2 DEF Fits, num
  <2> QED BY <2>1, <2>2
<1>4. Flushed(t, i) = m /\ \A k \in Ind : k # i => Flushed(t, k) = 0
  BY <1>2 DEF Flushed
<1>5. Distinct(q, m) BY <1>1, <1>4 DEF IInv, BinDistinct
<1>6. PICK p : p = SubSeq(q, m + 1, Len(q)) OBVIOUS
<1>7. /\ p \in Seq(Region[i]) /\ Len(p) = Len(q) - m /\ Distinct(p, 0)
      /\ \A b : Holds(p, 0, b) <=> Holds(q, m, b)
  BY <1>3, <1>5, <1>6, RestHolds
<1>8. Rest(t) = p BY <1>1, <1>2, <1>6 DEF Rest, num
<1>9. \A b : Holds(p, 0, b) <=> InBin(b, t, i) BY <1>1, <1>4, <1>7 DEF InBin
<1>10. i \in made[t] BY <1>0 DEF CallShape
<1>11. num(t, i) = Len(q) BY <1>1 DEF num
<1> QED BY <1>2, <1>3, <1>4, <1>7, <1>8, <1>9, <1>10, <1>11

LEMMA FlushedToPushStep ==
  ASSUME IInv, NEW t \in Thread, FlushedToPush(t)
  PROVE  IInv'
<1>0. TypeOK /\ CallShape(t) /\ Fits(t) BY FitsIsBatchesFit DEF IInv
<1>1. PICK i \in Ind : i = op[t].ind BY <1>0, ThreadFacts
<1>2. PICK p : p = Rest(t) OBVIOUS
<1>3. PICK b : b = op[t].block OBVIOUS
<1>4. PICK r : r = Append(p, b) OBVIOUS
<1>5. /\ op[t].step \in {"flush", "flushOld"} /\ op[t].done = op[t].count
      /\ caches' = [caches EXCEPT ![t][i] = r]
      /\ low_mark' = [low_mark EXCEPT ![t][i] = Len(p)]
      /\ fill_count' = [fill_count EXCEPT ![t][i] = Larger(@ \div 2, InitFillCount)]
      /\ arena' = arena /\ held' = held /\ made' = made
      /\ \/ Event(t, Idle)
         \/ Goto(t, Idle) /\ UNCHANGED events
  BY <1>1, <1>2, <1>3, <1>4 DEF FlushedToPush
<1>6. /\ p \in Seq(Region[i]) /\ Len(p) \in Nat /\ Distinct(p, 0)
      /\ \A c : Holds(p, 0, c) <=> InBin(c, t, i)
      /\ \A k \in Ind : k # i => Flushed(t, k) = 0
      /\ Len(p) = num(t, i) - op[t].count /\ i \in made[t]
  BY <1>1, <1>2, <1>5, RestOfFlush
<1>7. /\ b \in Region[i] /\ op[t].old = NoBlock
      /\ op[t].count = MaxFill /\ num(t, i) = Capacity
  BY <1>0, <1>1, <1>3, <1>5 DEF CallShape
<1>8. Len(p) < Capacity BY <1>6, <1>7, FillNumbers
<1>9. b \in Block /\ InFlight(t) = {b} /\ ~InBin(b, t, i)
  <2>1. b \in Block /\ b # NoBlock BY <1>7, BlockFacts
  <2>2. InFlight(t) = {b} BY <1>3, <1>7, <2>1 DEF InFlight
  <2> QED BY <2>1, <2>2, FlyingOnly
<1>10. /\ r \in Seq(Region[i]) /\ Len(r) = Len(p) + 1 /\ Distinct(r, 0)
       /\ \A c : Holds(r, 0, c) <=> Holds(p, 0, c) \/ c = b
  <2>1. 0 \in 0..Len(p) BY <1>6
  <2>2. ~Holds(p, 0, b) BY <1>6, <1>9
  <2> QED BY <1>4, <1>6, <1>7, <2>1, <2>2, AppendHolds
<1>11. /\ caches'[t][i] = r /\ \A k \in Ind : k # i => caches'[t][k] = caches[t][k]
       /\ \A u \in Thread : u # t => caches'[u] = caches[u]
  BY <1>0, <1>5, BinUpdate
<1>12. /\ low_mark'[t][i] = Len(p) /\ \A k \in Ind : k # i => low_mark'[t][k] = low_mark[t][k]
       /\ \A u \in Thread : u # t => low_mark'[u] = low_mark[u]
       /\ low_mark' \in [Thread -> [Ind -> 0..Capacity]]
  <2>1. Len(p) <= Capacity BY <1>6, <1>8, FillNumbers
  <2> QED BY <1>0, <1>5, <1>6, <2>1, MarkUpdate
<1>13. fill_count' \in [Thread -> [Ind -> InitFillCount..MaxFill]]
  <2>1. fill_count[t][i] \in InitFillCount..MaxFill BY <1>0, ThreadFacts
  <2>2. Larger(fill_count[t][i] \div 2, InitFillCount) \in InitFillCount..MaxFill
    BY <2>1, FillNumbers DEF Larger
  <2> QED BY <1>0, <1>5, <2>2 DEF TypeOK
<1>14. GoesOn(t, Idle)
  <2>1. \A k \in Ind : /\ low_mark'[t][k] \in Nat /\ Len(caches'[t][k]) \in Nat
                       /\ low_mark'[t][k] <= Len(caches'[t][k]) /\ low_mark'[t][k] <= Capacity
    <3>1. ASSUME NEW k \in Ind, k # i
          PROVE  /\ low_mark'[t][k] \in Nat /\ Len(caches'[t][k]) \in Nat
                 /\ low_mark'[t][k] <= Len(caches'[t][k]) /\ low_mark'[t][k] <= Capacity
      BY <1>0, <1>11, <1>12, <3>1, ThreadFacts DEF Fits, num
    <3> QED BY <1>6, <1>8, <1>10, <1>11, <1>12, <3>1, FillNumbers
  <2>2. made'[t] \subseteq Ind /\ made'[t] # {} BY <1>0, <1>5, <1>6, ThreadFacts
  <2>3. \A u \in Thread : u # t => /\ made'[u] = made[u] /\ caches'[u] = caches[u]
                                   /\ low_mark'[u] = low_mark[u]
    BY <1>5, <1>11, <1>12
  <2>4. PICK o \in OpType : o = Idle BY IdleFacts
  <2>5. /\ o.step \in {"idle", "reuse"} /\ o.block = NoBlock /\ o.count = 0 /\ o.done = 0
        /\ o.step = "idle" <=> o.old = NoBlock
    BY <2>4, IdleFacts
  <2>6. \/ Event(t, o)
        \/ Goto(t, o) /\ UNCHANGED events
    BY <1>5, <2>4
  <2>7. GoesOn(t, o) BY <2>1, <2>2, <2>3, <2>5, <2>6, EventGoesOn
  <2> QED BY <2>4, <2>7
<1>15. /\ BinsOfOthersKept(t) /\ CallShape(t)' /\ Fits(t)'
       /\ op'[t].block = NoBlock /\ op'[t].old = NoBlock
       /\ \A k \in Ind : Flushed(t, k)' = 0
  BY <1>14, IdleFacts DEF GoesOn
<1>16. TypeOK'
  <2>1. /\ DOMAIN caches' = Thread
        /\ \A u \in Thread :
             /\ DOMAIN caches'[u] = Ind
             /\ \A k \in Ind : /\ caches'[u][k] \in Seq(Region[k])
                               /\ num(u, k)' <= Capacity
                               /\ num(u, k)' > 0 => k \in made'[u]
    <3>1. Len(r) <= Capacity BY <1>6, <1>8, <1>10, FillNumbers
    <3>2. made' \in [Thread -> SUBSET Ind] /\ \A u \in Thread : made[u] \subseteq made'[u]
      BY <1>0, <1>5 DEF TypeOK
    <3> QED BY <1>0, <1>5, <1>6, <1>10, <3>1, <3>2, BinsTyped
  <2> QED BY <1>0, <1>5, <1>12, <1>13, <1>14, <2>1 DEF TypeOK, GoesOn
<1>17. /\ \A k \in Ind : BinDistinct(t, k)'
       /\ \A c : InBin(c, t, i)' <=> Holds(r, 0, c)
       /\ \A c, k : k \in Ind /\ k # i => (InBin(c, t, k)' <=> InBin(c, t, k))
  BY <1>5, <1>6, <1>10, <1>15, BinBecomes
<1>18. InFlight(t)' = {} BY <1>15 DEF InFlight
<1>19. \A c \in Block : PlacedOnce(c)'
  <2>1. \A c : InBin(c, t, i)' <=> InBin(c, t, i) \/ c = b BY <1>6, <1>10, <1>17
  <2>2. \A c \in Block \ {b} : /\ c \in arena' <=> c \in arena
                               /\ c \in held' <=> c \in held
                               /\ \A k \in Ind : InBin(c, t, k)' <=> InBin(c, t, k)
                               /\ c \in InFlight(t)' <=> c \in InFlight(t)
    BY <1>5, <1>9, <1>17, <1>18, <2>1
  <2>3. b \in InFlight(t) BY <1>9
  <2>4. /\ NotOthers(b, t) /\ b \in arena /\ b \notin held /\ \A k \in Ind : ~InBin(b, t, k)
    BY <2>3, FlyingOnly
  <2>5. /\ NotOthers(b, t) /\ b \in arena' /\ b \notin InFlight(t)' /\ b \notin held'
        /\ \A k \in Ind : InBin(b, t, k)' <=> k = i
    BY <1>5, <1>17, <1>18, <2>1, <2>4
  <2>6. \A c \in {b} :
          /\ NotOthers(c, t)
          /\ c \in arena' <=> \/ c \in held' \/ c \in InFlight(t)' \/ \E k \in Ind : InBin(c, t, k)'
          /\ \A k, m \in Ind : InBin(c, t, k)' /\ InBin(c, t, m)' => k = m
          /\ (\E k \in Ind : InBin(c, t, k)') => c \notin held' /\ c \notin InFlight(t)'
          /\ c \in InFlight(t)' => c \notin held'
    BY <2>5
  <2>7. {b} \in SUBSET Block BY <1>9
  <2> QED BY <1>15, <2>2, <2>6, <2>7, BlocksMove
<1> QED BY <1>15, <1>16, <1>17, <1>19, ThreadStep

LEMMA CollectedStep ==
  ASSUME IInv, NEW t \in Thread, Collected(t)
  PROVE  IInv'
<1>0. TypeOK /\ CallShape(t) /\ Fits(t) BY FitsIsBatchesFit DEF IInv
<1>1. PICK i \in Ind : i = op[t].ind BY <1>0, ThreadFacts
<1>2. PICK p : p = Rest(t) OBVIOUS
<1>3. /\ op[t].step = "gc" /\ op[t].done = op[t].count
      /\ caches' = [caches EXCEPT ![t][i] = p]
      /\ low_mark' = [low_mark EXCEPT ![t][i] = Len(p)]
      /\ Goto(t, AfterAlloc(t)) /\ UNCHANGED events
      /\ arena' = arena /\ held' = held /\ made' = made /\ fill_count' = fill_count
  BY <1>1, <1>2 DEF Collected, At, events
<1>4. /\ p \in Seq(Region[i]) /\ Len(p) \in Nat /\ Distinct(p, 0) /\ Len(p) <= Capacity
      /\ \A c : Holds(p, 0, c) <=> InBin(c, t, i)
      /\ \A k \in Ind : k # i => Flushed(t, k) = 0
      /\ i \in made[t]
  BY <1>1, <1>2, <1>3, RestOfFlush, FillNumbers
<1>5. op[t].block = NoBlock BY <1>0, <1>3 DEF CallShape
<1>6. /\ caches'[t][i] = p /\ \A k \in Ind : k # i => caches'[t][k] = caches[t][k]
      /\ \A u \in Thread : u # t => caches'[u] = caches[u]
  BY <1>0, <1>3, BinUpdate
<1>7. /\ low_mark'[t][i] = Len(p) /\ \A k \in Ind : k # i => low_mark'[t][k] = low_mark[t][k]
      /\ \A u \in Thread : u # t => low_mark'[u] = low_mark[u]
      /\ low_mark' \in [Thread -> [Ind -> 0..Capacity]]
  BY <1>0, <1>3, <1>4, MarkUpdate
<1>8. GoesOn(t, AfterAlloc(t))
  <2>1. \A k \in Ind : /\ low_mark'[t][k] \in Nat /\ Len(caches'[t][k]) \in Nat
                       /\ low_mark'[t][k] <= Len(caches'[t][k]) /\ low_mark'[t][k] <= Capacity
    <3>1. ASSUME NEW k \in Ind, k # i
          PROVE  /\ low_mark'[t][k] \in Nat /\ Len(caches'[t][k]) \in Nat
                 /\ low_mark'[t][k] <= Len(caches'[t][k]) /\ low_mark'[t][k] <= Capacity
      BY <1>0, <1>6, <1>7, <3>1, ThreadFacts DEF Fits, num
    <3> QED BY <1>4, <1>6, <1>7, <3>1
  <2>2. made'[t] \subseteq Ind /\ made'[t] # {} BY <1>0, <1>3, <1>4, ThreadFacts
  <2>3. \A u \in Thread : u # t => /\ made'[u] = made[u] /\ caches'[u] = caches[u]
                                   /\ low_mark'[u] = low_mark[u]
    BY <1>3, <1>6, <1>7
  <2>4. PICK o \in OpType : o = AfterAlloc(t) BY <1>0, AfterAllocFacts
  <2>5. /\ o.step \in {"idle", "reuse"} /\ o.block = NoBlock /\ o.count = 0 /\ o.done = 0
        /\ o.step = "idle" <=> o.old = NoBlock
    BY <1>0, <2>4, AfterAllocFacts
  <2>6. Goto(t, o) /\ UNCHANGED events BY <1>3, <2>4
  <2>7. GoesOn(t, o) BY <2>1, <2>2, <2>3, <2>5, <2>6, EventGoesOn
  <2> QED BY <2>4, <2>7
<1>9. /\ BinsOfOthersKept(t) /\ CallShape(t)' /\ Fits(t)'
      /\ op'[t].block = NoBlock /\ op'[t].old = op[t].old
      /\ \A k \in Ind : Flushed(t, k)' = 0
  BY <1>0, <1>8, AfterAllocFacts DEF GoesOn
<1>10. TypeOK'
  <2>1. /\ DOMAIN caches' = Thread
        /\ \A u \in Thread :
             /\ DOMAIN caches'[u] = Ind
             /\ \A k \in Ind : /\ caches'[u][k] \in Seq(Region[k])
                               /\ num(u, k)' <= Capacity
                               /\ num(u, k)' > 0 => k \in made'[u]
    <3>1. made' \in [Thread -> SUBSET Ind] /\ \A u \in Thread : made[u] \subseteq made'[u]
      BY <1>0, <1>3 DEF TypeOK
    <3> QED BY <1>0, <1>3, <1>4, <3>1, BinsTyped
  <2> QED BY <1>0, <1>3, <1>7, <1>8, <2>1 DEF TypeOK, GoesOn
<1>11. /\ \A k \in Ind : BinDistinct(t, k)'
       /\ \A c : InBin(c, t, i)' <=> Holds(p, 0, c)
       /\ \A c, k : k \in Ind /\ k # i => (InBin(c, t, k)' <=> InBin(c, t, k))
  BY <1>3, <1>4, <1>9, BinBecomes
<1>12. InFlight(t)' = InFlight(t) BY <1>5, <1>9 DEF InFlight
<1>13. \A c, k : k \in Ind => (InBin(c, t, k)' <=> InBin(c, t, k)) BY <1>4, <1>11
<1>14. \A c \in Block : PlacedOnce(c)'
  <2>1. ASSUME NEW c \in Block PROVE PlaceKept(c)
    BY <1>3, <1>9, <1>12, <1>13, OthersKept DEF PlaceKept
  <2> QED BY <2>1, PlacedStays DEF IInv
<1> QED BY <1>9, <1>10, <1>11, <1>14, ThreadStep

-----------------------------------------------------------------------------
(* The invariant is inductive *)

LEMMA InitIInv == Init => IInv
<1> SUFFICES ASSUME Init PROVE IInv OBVIOUS
<1>1. \A t \in Thread : op[t] = Idle BY DEF Init
<1>2. \A t \in Thread, i \in Ind : caches[t][i] = <<>> /\ num(t, i) = 0 BY DEF Init, num
<1>3. TypeOK
  <2>1. \A i \in Ind : <<>> \in Seq(Region[i]) OBVIOUS
  <2>2. /\ 0 \in 0..Capacity /\ 0 \in 0..MaxEventTick /\ 0 \in Ind
        /\ InitFillCount \in InitFillCount..MaxFill
    BY FillNumbers, CacheAssumption DEF Ind
  <2>3. op \in [Thread -> OpType] BY IdleFacts DEF Init
  <2>4. \A t \in Thread : /\ DOMAIN caches[t] = Ind
                          /\ \A i \in Ind : /\ caches[t][i] \in Seq(Region[i])
                                            /\ num(t, i) <= Capacity
                                            /\ num(t, i) > 0 => i \in made[t]
    BY <1>2, <2>1, FillNumbers DEF Init
  <2> QED BY <2>2, <2>3, <2>4 DEF Init, TypeOK
<1>4. \A t \in Thread : CallShape(t) BY <1>1, IdleFacts DEF CallShape
<1>5. BatchesFit
  <2>1. ASSUME NEW t \in Thread PROVE Fits(t)
    BY <1>1, <1>2, IdleFacts DEF Fits, At, Init
  <2> QED BY <2>1, FitsIsBatchesFit
<1>6. \A t \in Thread, i \in Ind : BinDistinct(t, i)
  BY <1>2 DEF BinDistinct, Distinct
<1>7. \A b, t, i : t \in Thread /\ i \in Ind => ~InBin(b, t, i) BY <1>2 DEF InBin, Holds
<1>8. \A t \in Thread : InFlight(t) = {} BY <1>1, IdleFacts DEF InFlight
<1>9. \A b \in Block : PlacedOnce(b) BY <1>7, <1>8 DEF PlacedOnce, Init
<1> QED BY <1>3, <1>4, <1>5, <1>6, <1>9 DEF IInv

LEMMA StutterIInv == IInv /\ UNCHANGED vars => IInv'
<1> SUFFICES ASSUME IInv, UNCHANGED vars PROVE IInv' OBVIOUS
<1>1. /\ arena' = arena /\ held' = held /\ made' = made /\ caches' = caches
      /\ fill_count' = fill_count /\ low_mark' = low_mark
      /\ event_tick' = event_tick /\ gc_index' = gc_index /\ op' = op
  BY DEF vars, bins, events
<1>2. TypeOK' BY <1>1 DEF IInv, TypeOK, num
<1>3. BatchesFit' BY <1>1 DEF IInv, BatchesFit, num, At
<1>4. \A t \in Thread : CallShape(t)' BY <1>1 DEF IInv, CallShape, num
<1>5. \A t \in Thread, i \in Ind : BinDistinct(t, i)' BY <1>1 DEF IInv, BinDistinct, Flushed
<1>6. ASSUME NEW b \in Block PROVE PlacedOnce(b)'
  <2>1. PlaceKept(b) BY <1>1 DEF PlaceKept, InBin, Flushed, InFlight
  <2> QED BY <2>1, PlacedStays DEF IInv
<1> QED BY <1>2, <1>3, <1>4, <1>5, <1>6 DEF IInv

\* The steps of a thread, realloc taken apart.
Steps(t) ==
  \/ \E i \in Ind : EnterAlloc(t, i, NoBlock) /\ held' = held
  \/ \E b \in held, i \in Ind : EnterAlloc(t, i, b) /\ held' = held \ {b}
  \/ \E old \in held \cup {NoBlock} : LargeAlloc(t, old)
  \/ \E b \in held : Dalloc(t, b)
  \/ Run(t)

LEMMA NextIsSteps == Next => \E t \in Thread : Steps(t)
BY DEF Next, Call, Realloc, Steps

LEMMA StepIInv ==
  ASSUME IInv, NEW t \in Thread, Steps(t)
  PROVE  IInv'
<1>1. ASSUME NEW i \in Ind, EnterAlloc(t, i, NoBlock), held' = held PROVE IInv'
  <2>1. PICK old : old = NoBlock OBVIOUS
  <2>2. EnterAlloc(t, i, old) BY <1>1, <2>1
  <2> QED BY <1>1, <2>1, <2>2, EnterAllocStep
<1>2. ASSUME NEW b \in held, NEW i \in Ind, EnterAlloc(t, i, b), held' = held \ {b} PROVE IInv'
  BY <1>2, EnterAllocStep
<1>3. ASSUME NEW old \in held \cup {NoBlock}, LargeAlloc(t, old) PROVE IInv'
  BY <1>3, LargeAllocStep
<1>4. ASSUME NEW b \in held, Dalloc(t, b) PROVE IInv' BY <1>4, DallocStep
<1>5. ASSUME Run(t) PROVE IInv'
  BY <1>5, FillOneStep, FilledStep, FillFailedStep, PopRegionStep, FlushOneStep,
     FlushedToPushStep, CollectedStep, ReuseStep DEF Run
<1> QED BY <1>1, <1>2, <1>3, <1>4, <1>5 DEF Steps

LEMMA NextIInv == IInv /\ [Next]_vars => IInv'
BY StutterIInv, NextIsSteps, StepIInv

\* In every state the program can be in, each block is in one place, and what
\* each call has in hand fits its bin.
THEOREM Inductive == Spec => []IInv
<1>1. Init => IInv BY InitIInv
<1>2. IInv /\ [Next]_vars => IInv' BY NextIInv
<1> QED BY <1>1, <1>2, PTL DEF Spec

\* The bins keep to their class and their capacity, and fill counts stay
\* between kInitFillCount and three quarters of the capacity (thread_alloc.h).
THEOREM TypeCorrect == Spec => []TypeOK
<1>1. IInv => TypeOK BY DEF IInv
<1> QED BY <1>1, Inductive, PTL

\* FillCaches never overruns a bin and FlushCaches never takes more than there
\* is, whichever of PushRegion and GarbageCollect calls it.
THEOREM BatchesAlwaysFit == Spec => []BatchesFit
<1>1. IInv => BatchesFit BY DEF IInv
<1> QED BY <1>1, Inductive, PTL

LEMMA CachedIsInBin ==
  ASSUME TypeOK, NEW b
  PROVE  (\E s \in Slot : b = Cached(s)) <=> \E t \in Thread, i \in Ind : InBin(b, t, i)
<1>1. \A t \in Thread, i \in Ind : num(t, i) \in Nat /\ num(t, i) <= Capacity BY ThreadFacts
<1>2. ASSUME NEW s \in Slot, b = Cached(s) PROVE \E t \in Thread, i \in Ind : InBin(b, t, i)
  <2>1. PICK t \in Thread, i \in Ind, j \in 1..Capacity : s = <<t, i, j>> BY DEF Slot
  <2>2. j > Flushed(t, i) /\ j <= num(t, i) /\ caches[t][i][j] = b
    BY <1>2, <2>1 DEF Slot, Cached
  <2>3. j \in 1..Len(caches[t][i]) BY <1>1, <2>2 DEF num
  <2>4. Flushed(t, i) < j BY <2>2, ThreadFacts DEF Flushed
  <2> QED BY <2>2, <2>3, <2>4 DEF InBin, Holds
<1>3. ASSUME NEW t \in Thread, NEW i \in Ind, InBin(b, t, i) PROVE \E s \in Slot : b = Cached(s)
  <2>1. PICK j \in 1..num(t, i) : Flushed(t, i) < j /\ caches[t][i][j] = b
    BY <1>3 DEF InBin, Holds, num
  <2>2. j \in 1..Capacity /\ j <= num(t, i) BY <1>1, FillNumbers
  <2>3. Flushed(t, i) \in Nat BY ThreadFacts DEF Flushed
  <2>4. <<t, i, j>> \in Slot BY <2>1, <2>2, <2>3 DEF Slot
  <2> QED BY <2>1, <2>4 DEF Cached
<1> QED BY <1>2, <1>3

LEMMA SlotFacts ==
  ASSUME TypeOK, NEW s \in Slot
  PROVE  \E t \in Thread, i \in Ind : \E j \in 1..Len(caches[t][i]) :
           s = <<t, i, j>> /\ Flushed(t, i) < j /\ caches[t][i][j] = Cached(s)
<1>1. PICK t \in Thread, i \in Ind, j \in 1..Capacity : s = <<t, i, j>> BY DEF Slot
<1>2. j > Flushed(t, i) /\ j <= num(t, i) /\ caches[t][i][j] = Cached(s)
  BY <1>1 DEF Slot, Cached
<1>3. num(t, i) \in Nat /\ Flushed(t, i) \in Nat BY ThreadFacts DEF Flushed
<1>4. j \in 1..Len(caches[t][i]) BY <1>2, <1>3 DEF num
<1>5. Flushed(t, i) < j BY <1>2, <1>3
<1> QED BY <1>1, <1>2, <1>4, <1>5

LEMMA AccountedOnce == IInv => BlocksAccounted
<1> SUFFICES ASSUME IInv PROVE BlocksAccounted OBVIOUS
<1>0. TypeOK BY DEF IInv
<1> DEFINE cached == { Cached(s) : s \in Slot }
           flying == UNION { InFlight(t) : t \in Thread }
<1>1. \A b : b \in cached <=> \E t \in Thread, i \in Ind : InBin(b, t, i)
  BY <1>0, CachedIsInBin
<1>2. \A b : b \in flying <=> \E t \in Thread : b \in InFlight(t) OBVIOUS
<1> HIDE DEF cached, flying
<1>3. \A b \in cached : b \in Block
  <2>1. \A t \in Thread, i \in Ind : \A b : InBin(b, t, i) => b \in Region[i]
    BY <1>0, ThreadFacts DEF InBin, Holds
  <2> QED BY <1>1, <2>1, BlockFacts
<1>4. \A b \in flying : b \in Block BY <1>2, FlyingOnly
<1>5. arena \subseteq Block /\ held \subseteq Block BY <1>0 DEF TypeOK
<1>6. \A b \in Block : b \in arena <=> b \in held \/ b \in cached \/ b \in flying
  BY <1>1, <1>2 DEF IInv, PlacedOnce
<1>7. arena = held \cup cached \cup flying BY <1>3, <1>4, <1>5, <1>6
<1>8. ASSUME NEW r \in Slot, NEW s \in Slot, Cached(r) = Cached(s) PROVE r = s
  <2>1. PICK t \in Thread, i \in Ind : \E j \in 1..Len(caches[t][i]) :
          r = <<t, i, j>> /\ Flushed(t, i) < j /\ caches[t][i][j] = Cached(r)
    BY <1>0, SlotFacts
  <2>2. PICK j \in 1..Len(caches[t][i]) :
          r = <<t, i, j>> /\ Flushed(t, i) < j /\ caches[t][i][j] = Cached(r)
    BY <2>1
  <2>3. PICK u \in Thread, k \in Ind : \E m \in 1..Len(caches[u][k]) :
          s = <<u, k, m>> /\ Flushed(u, k) < m /\ caches[u][k][m] = Cached(s)
    BY <1>0, SlotFacts
  <2>4. PICK m \in 1..Len(caches[u][k]) :
          s = <<u, k, m>> /\ Flushed(u, k) < m /\ caches[u][k][m] = Cached(s)
    BY <2>3
  <2>5. InBin(Cached(r), t, i) /\ InBin(Cached(r), u, k)
    BY <1>8, <2>2, <2>4 DEF InBin, Holds
  <2>6. t = u /\ i = k
    <3>1. Cached(r) \in cached BY <1>1, <2>5
    <3> QED BY <1>3, <2>5, <3>1 DEF IInv, PlacedOnce
  <2>7. j = m
    <3>1. BinDistinct(t, i) BY DEF IInv
    <3> QED BY <1>8, <2>2, <2>4, <2>6, <3>1 DEF BinDistinct, Distinct
  <2> QED BY <2>2, <2>4, <2>6, <2>7
<1>9. held \cap (cached \cup flying) = {} /\ cached \cap flying = {}
  BY <1>1, <1>2, <1>3, <1>4 DEF IInv, PlacedOnce
<1>10. \A t, u \in Thread : t # u => InFlight(t) \cap InFlight(u) = {}
  <2>1. \A t \in Thread : InFlight(t) \subseteq Block BY <1>2, <1>4
  <2> QED BY <2>1 DEF IInv, PlacedOnce
<1>11. \A t \in Thread : op[t].block = op[t].old => op[t].old = NoBlock
  BY DEF IInv, CallShape
<1> QED BY <1>7, <1>8, <1>9, <1>10, <1>11 DEF BlocksAccounted, cached, flying

\* malloc, free and realloc lose no block and hand out none twice: each block
\* taken from the arenas is with the program, in one slot of one bin or in one
\* call, also while a flush of its bin is half done.
THEOREM BlocksAlwaysAccounted == Spec => []BlocksAccounted
BY AccountedOnce, Inductive, PTL

-----------------------------------------------------------------------------
(* What lies below the low mark *)

\* Of one bin: what LowMarkIsIdle says of it, when its mark starts no new period.
BinIdles(t, i) ==
  LET low == low_mark'[t][i]
  IN  /\ low <= low_mark[t][i] /\ low <= Len(caches'[t][i])
      /\ SubSeq(caches'[t][i], 1, low) = SubSeq(caches[t][i], 1, low)

LEMMA AppendIdles ==
  ASSUME NEW S, NEW q \in Seq(S), NEW x \in S, NEW low \in 0..Len(q)
  PROVE  SubSeq(Append(q, x), 1, low) = SubSeq(q, 1, low) /\ low <= Len(Append(q, x))
OBVIOUS

LEMMA FrontIdles ==
  ASSUME NEW S, NEW q \in Seq(S), NEW m \in 0..Len(q), NEW low \in 0..m
  PROVE  SubSeq(SubSeq(q, 1, m), 1, low) = SubSeq(q, 1, low) /\ low <= Len(SubSeq(q, 1, m))
<1>1. SubSeq(q, 1, m) \in Seq(S) /\ Len(SubSeq(q, 1, m)) = m OBVIOUS
<1>2. SubSeq(SubSeq(q, 1, m), 1, low) = SubSeq(q, 1, low) BY <1>1
<1> QED BY <1>1, <1>2

LEMMA KeptIdles ==
  ASSUME IInv, NEW t \in Thread, NEW i \in Ind,
         caches'[t][i] = caches[t][i], low_mark'[t][i] = low_mark[t][i]
  PROVE  BinIdles(t, i)
<1>1. Fits(t) /\ TypeOK BY FitsIsBatchesFit DEF IInv
<1>2. low_mark[t][i] \in Nat BY <1>1, ThreadFacts
<1> QED BY <1>1, <1>2 DEF BinIdles, Fits, num

\* A push or a fill.
LEMMA PushIdles ==
  ASSUME IInv, NEW t \in Thread, NEW i \in Ind, NEW b \in Region[i],
         NEW r, r = Append(caches[t][i], b),
         caches' = [caches EXCEPT ![t][i] = r], low_mark' = low_mark,
         NEW u \in Thread, NEW k \in Ind
  PROVE  BinIdles(u, k)
<1>1. TypeOK /\ Fits(t) BY FitsIsBatchesFit DEF IInv
<1>2. /\ caches'[t][i] = r
      /\ \A m \in Ind : m # i => caches'[t][m] = caches[t][m]
      /\ \A v \in Thread : v # t => caches'[v] = caches[v]
  BY <1>1, BinUpdate
<1>3. CASE u = t /\ k = i
  <2>1. /\ caches[t][i] \in Seq(Region[i]) /\ low_mark[t][i] \in Nat
        /\ low_mark[t][i] <= Len(caches[t][i])
    BY <1>1, ThreadFacts DEF Fits, num
  <2>2. low_mark[t][i] \in 0..Len(caches[t][i]) BY <2>1
  <2> QED BY <1>2, <1>3, <2>1, <2>2, AppendIdles DEF BinIdles
<1>4. CASE ~(u = t /\ k = i)
  <2>1. caches'[u][k] = caches[u][k] BY <1>2, <1>4
  <2> QED BY <2>1, KeptIdles
<1> QED BY <1>3, <1>4

LEMMA PopIdles ==
  ASSUME IInv, NEW t \in Thread, PopRegion(t), NEW u \in Thread, NEW k \in Ind
  PROVE  BinIdles(u, k)
<1>1. TypeOK /\ Fits(t) BY FitsIsBatchesFit DEF IInv
<1>2. PICK i \in Ind : i = op[t].ind BY <1>1, ThreadFacts
<1>3. PICK q : q = caches[t][i] OBVIOUS
<1>4. /\ q \in Seq(Region[i]) /\ Len(q) > 0 /\ Len(q) \in Nat /\ Len(q) <= Capacity
      /\ low_mark[t][i] \in Nat /\ low_mark[t][i] <= Len(q)
  BY <1>1, <1>2, <1>3, ThreadFacts DEF PopRegion, Fits, num
<1>5. PICK p : p = SubSeq(q, 1, Len(q) - 1) OBVIOUS
<1>6. PICK m \in 0..Len(q) : m = Len(q) - 1
  <2>1. Len(q) - 1 \in 0..Len(q) BY <1>4
  <2> QED BY <2>1
<1>7. PICK low \in 0..m :
        /\ low = Smaller(low_mark[t][i], Len(q) - 1)
        /\ low <= low_mark[t][i] /\ low <= Capacity
  BY <1>4, <1>6, FillNumbers DEF Smaller
<1>8. caches' = [caches EXCEPT ![t][i] = p] /\ low_mark' = [low_mark EXCEPT ![t][i] = low]
  BY <1>1, <1>2, <1>3, <1>5, <1>7 DEF PopRegion, num, TypeOK
<1>9. /\ caches'[t][i] = p
      /\ \A n \in Ind : n # i => caches'[t][n] = caches[t][n]
      /\ \A v \in Thread : v # t => caches'[v] = caches[v]
  BY <1>1, <1>8, BinUpdate
<1>10. /\ low_mark'[t][i] = low
       /\ \A n \in Ind : n # i => low_mark'[t][n] = low_mark[t][n]
       /\ \A v \in Thread : v # t => low_mark'[v] = low_mark[v]
  <2>1. low \in Nat BY <1>6
  <2> QED BY <1>1, <1>7, <1>8, <2>1, MarkUpdate
<1>11. CASE u = t /\ k = i
  <2>1. SubSeq(p, 1, low) = SubSeq(q, 1, low) /\ low <= Len(p) BY <1>4, <1>5, <1>6, FrontIdles
  <2> QED BY <1>3, <1>7, <1>9, <1>10, <1>11, <2>1 DEF BinIdles
<1>12. CASE ~(u = t /\ k = i)
  <2>1. caches'[u][k] = caches[u][k] BY <1>9, <1>12
  <2>2. low_mark'[u][k] = low_mark[u][k] BY <1>10, <1>12
  <2> QED BY <2>1, <2>2, KeptIdles
<1> QED BY <1>11, <1>12

\* The end of a flush starts a new period for its bin, and leaves the others.
LEMMA FlushIdles ==
  ASSUME IInv, NEW t \in Thread, FlushedToPush(t) \/ Collected(t),
         NEW u \in Thread, NEW k \in Ind
  PROVE  \/ op[u].ind = k /\ (FlushedToPush(u) \/ Collected(u))
         \/ BinIdles(u, k)
<1>1. TypeOK BY DEF IInv
<1>2. PICK i \in Ind : i = op[t].ind BY <1>1, ThreadFacts
<1>3. PICK q, low : /\ caches' = [caches EXCEPT ![t][i] = q]
                    /\ low_mark' = [low_mark EXCEPT ![t][i] = low]
  BY <1>2 DEF FlushedToPush, Collected
<1>4. CASE u = t /\ k = i BY <1>2, <1>4
<1>5. CASE ~(u = t /\ k = i)
  <2>1. caches'[u][k] = caches[u][k] /\ low_mark'[u][k] = low_mark[u][k]
    BY <1>1, <1>3, <1>5 DEF TypeOK
  <2> QED BY <2>1, KeptIdles
<1> QED BY <1>4, <1>5

LEMMA StepIdles ==
  ASSUME IInv, NEW t \in Thread, Steps(t), NEW u \in Thread, NEW k \in Ind
  PROVE  \/ op[u].ind = k /\ (FlushedToPush(u) \/ Collected(u))
         \/ BinIdles(u, k)
<1>0. TypeOK BY DEF IInv
<1>1. ASSUME caches' = caches, low_mark' = low_mark PROVE BinIdles(u, k)
  BY <1>1, KeptIdles
<1>2. ASSUME NEW b \in Small, NEW event, PushRegion(t, b, event) PROVE BinIdles(u, k)
  <2>1. PICK i \in Ind : i = sz_to_ind(b) /\ b \in Region[i] BY BlockFacts
  <2>2. CASE num(t, i) = Capacity BY <1>1, <1>2, <2>1, <2>2 DEF PushRegion
  <2>3. CASE num(t, i) # Capacity
    <3>1. PICK r : r = Append(caches[t][i], b) OBVIOUS
    <3>2. caches' = [caches EXCEPT ![t][i] = r] /\ low_mark' = low_mark
      BY <1>2, <2>1, <2>3, <3>1 DEF PushRegion
    <3> QED BY <2>1, <3>1, <3>2, PushIdles
  <2> QED BY <2>2, <2>3
<1>3. ASSUME NEW i \in Ind, NEW old, EnterAlloc(t, i, old) PROVE BinIdles(u, k)
  BY <1>1, <1>3 DEF EnterAlloc
<1>4. ASSUME NEW old, LargeAlloc(t, old) PROVE BinIdles(u, k)
  BY <1>1, <1>4 DEF LargeAlloc, bins
<1>5. ASSUME NEW b \in held, Dalloc(t, b) PROVE BinIdles(u, k)
  <2>1. CASE b \in Small BY <1>2, <1>5, <2>1 DEF Dalloc
  <2>2. CASE b \notin Small BY <1>1, <1>5, <2>2 DEF Dalloc, bins
  <2> QED BY <2>1, <2>2
<1>6. ASSUME FillOne(t) PROVE BinIdles(u, k)
  <2>1. PICK i \in Ind : i = op[t].ind BY <1>0, ThreadFacts
  <2>2. PICK b \in Region[i] : caches' = [caches EXCEPT ![t][i] = Append(@, b)]
    BY <1>6, <2>1 DEF FillOne
  <2>3. PICK r : r = Append(caches[t][i], b) OBVIOUS
  <2>4. caches' = [caches EXCEPT ![t][i] = r] /\ low_mark' = low_mark
    BY <1>6, <2>2, <2>3 DEF FillOne
  <2> QED BY <2>3, <2>4, PushIdles
<1>7. ASSUME Filled(t) PROVE BinIdles(u, k) BY <1>1, <1>7 DEF Filled
<1>8. ASSUME FillFailed(t) PROVE BinIdles(u, k) BY <1>1, <1>8 DEF FillFailed, bins
<1>9. ASSUME FlushOne(t) PROVE BinIdles(u, k) BY <1>1, <1>9 DEF FlushOne, bins
<1>10. ASSUME Reuse(t) PROVE BinIdles(u, k)
  <2>1. CASE op[t].old \in Small BY <1>2, <1>10, <2>1 DEF Reuse
  <2>2. CASE op[t].old \notin Small BY <1>1, <1>10, <2>2 DEF Reuse, bins
  <2> QED BY <2>1, <2>2
<1> QED BY <1>3, <1>4, <1>5, <1>6, <1>7, <1>8, <1>9, <1>10, PopIdles, FlushIdles DEF Steps, Run

\* GarbageCollect gives back only regions that have idled since the last flush
\* of their bin: until the next one, nothing touches what lies below low_mark_.
THEOREM LowMarkAlwaysIdle == Spec => LowMarkIsIdle
<1> DEFINE Idles == \A t \in Thread, i \in Ind :
                      \/ op[t].ind = i /\ (FlushedToPush(t) \/ Collected(t))
                      \/ BinIdles(t, i)
<1>1. IInv /\ [Next]_vars => [Idles]_vars
  <2>1. ASSUME IInv, Next PROVE Idles BY <2>1, NextIsSteps, StepIdles
  <2> QED BY <2>1
<1>2. LowMarkIsIdle <=> [][Idles]_vars BY DEF LowMarkIsIdle, BinIdles
<1> HIDE DEF Idles
<1> QED BY <1>1, <1>2, Inductive, PTL DEF Spec

-----------------------------------------------------------------------------
(* malloc, free and realloc are a heap *)

\* The blocks the program uses, and the part of them that thread t can change.
InUse == held \cup ({ op[t].old : t \in Thread } \ {NoBlock})
Hand(t) == held \cup ({op[t].old} \ {NoBlock})

LEMMA EventKeepsOld ==
  ASSUME TypeOK, NEW t \in Thread, NEW o \in OpType,
         \/ Event(t, o)
         \/ Goto(t, o)
  PROVE  /\ op'[t].old = o.old
         /\ \A u \in Thread : u # t => op'[u] = op[u]
<1>1. CASE Goto(t, o) BY <1>1 DEF Goto, TypeOK
<1>2. CASE Event(t, o) /\ ~(event_tick[t] + 1 > MaxEventTick)
  BY <1>2 DEF Event, Goto, TypeOK
<1>3. CASE Event(t, o) /\ event_tick[t] + 1 > MaxEventTick
  <2>1. PICK i, c : op' = [op EXCEPT ![t] = [o EXCEPT !.step = "gc", !.ind = i, !.count = c]]
    BY <1>3 DEF Event, Goto
  <2>2. PICK p : p = [o EXCEPT !.step = "gc", !.ind = i, !.count = c] OBVIOUS
  <2>3. p.old = o.old BY <2>2 DEF OpType
  <2>4. op' = [op EXCEPT ![t] = p] BY <2>1, <2>2
  <2> QED BY <2>3, <2>4 DEF TypeOK
<1> QED BY <1>1, <1>2, <1>3

\* What the hand of one thread does, the blocks in use do.
LEMMA HandMoves ==
  ASSUME NEW t \in Thread, \A u \in Thread : u # t => op'[u].old = op[u].old
  PROVE  /\ Hand(t)' = Hand(t) => InUse' = InUse
         /\ \A b : Hand(t)' = Hand(t) \cup {b} => InUse' = InUse \cup {b}
         /\ \A b : /\ Hand(t)' = Hand(t) \ {b}
                   /\ \A u \in Thread : u # t => op[u].old # b
                   => InUse' = InUse \ {b}
<1>1. \A c : c \in InUse <=> c \in Hand(t) \/ \E u \in Thread : u # t /\ op[u].old = c /\ c # NoBlock
  BY DEF InUse, Hand
<1>2. \A c : c \in InUse' <=> c \in Hand(t)' \/ \E u \in Thread : u # t /\ op[u].old = c /\ c # NoBlock
  BY DEF InUse, Hand
<1>3. Hand(t)' = Hand(t) => InUse' = InUse BY <1>1, <1>2
<1>4. ASSUME NEW b, Hand(t)' = Hand(t) \cup {b} PROVE InUse' = InUse \cup {b}
  BY <1>1, <1>2, <1>4
<1>5. ASSUME NEW b, Hand(t)' = Hand(t) \ {b}, \A u \in Thread : u # t => op[u].old # b
      PROVE  InUse' = InUse \ {b}
  BY <1>1, <1>2, <1>5
<1> QED BY <1>3, <1>4, <1>5

LEMMA InUseIsTaken ==
  ASSUME IInv
  PROVE  /\ InUse \subseteq Block /\ InUse \subseteq arena
         /\ \A b, t, i : b \in Block /\ t \in Thread /\ i \in Ind /\ InBin(b, t, i) => b \notin InUse
<1>1. held \subseteq Block /\ held \subseteq arena
  BY DEF IInv, TypeOK, PlacedOnce
<1>2. \A t \in Thread : op[t].old # NoBlock => op[t].old \in InFlight(t) BY DEF InFlight
<1>3. \A t \in Thread : InFlight(t) \subseteq Block /\ InFlight(t) \subseteq arena
  BY FlyingOnly
<1>4. \A b, t, i : b \in Block /\ t \in Thread /\ i \in Ind /\ InBin(b, t, i) =>
        b \notin held /\ \A u \in Thread : b \notin InFlight(u)
  BY DEF IInv, PlacedOnce
<1> QED BY <1>1, <1>2, <1>3, <1>4 DEF InUse

LEMMA HeapAlloc ==
  ASSUME NEW b \in Block, InUse \subseteq Block, b \notin InUse, InUse' = InUse \cup {b}
  PROVE  MallocHeap!Alloc(b)
<1>1. \A f \in InUse : [c \in Block |-> {c}][b] \cap [c \in Block |-> {c}][f] = {} OBVIOUS
<1> QED BY <1>1 DEF InUse, MallocHeap!Alloc, MallocHeap!Apart

LEMMA HeapFree ==
  ASSUME NEW b \in InUse, InUse' = InUse \ {b}
  PROVE  MallocHeap!Free(b)
BY DEF InUse, MallocHeap!Free

\* Each time malloc returns a cached region, nobody has it.
LEMMA PopAllocs ==
  ASSUME IInv, NEW t \in Thread, PopRegion(t)
  PROVE  \E b \in Small : MallocHeap!Alloc(b)
<1>0. TypeOK /\ CallShape(t) /\ Fits(t) BY FitsIsBatchesFit DEF IInv
<1>1. PICK i \in Ind : i = op[t].ind BY <1>0, ThreadFacts
<1>2. PICK q : q = caches[t][i] OBVIOUS
<1>3. PICK b : b = q[Len(q)] OBVIOUS
<1>4. At(t, "pop") /\ held' = held \cup {b} /\ Event(t, AfterAlloc(t))
  BY <1>1, <1>2, <1>3 DEF PopRegion, num
<1>5. q \in Seq(Region[i]) /\ Len(q) > 0
  BY <1>0, <1>1, <1>2, <1>4, ThreadFacts DEF Fits, num
<1>6. Flushed(t, i) = 0 BY <1>4 DEF Flushed, At
<1>7. Distinct(q, 0) BY <1>2, <1>6 DEF IInv, BinDistinct
<1>8. b \in Region[i] /\ Holds(q, 0, b) BY <1>3, <1>5, <1>7, FrontHolds
<1>9. b \in Small /\ b \in Block /\ InBin(b, t, i) BY <1>2, <1>6, <1>8, BlockFacts DEF InBin
<1>10. b \notin InUse /\ InUse \subseteq Block BY <1>9, InUseIsTaken
<1>11. op'[t].old = op[t].old /\ \A u \in Thread : u # t => op'[u] = op[u]
  BY <1>0, <1>4, AfterAllocFacts, EventKeepsOld
<1>12. Hand(t)' = Hand(t) \cup {b} BY <1>4, <1>11 DEF Hand
<1>13. InUse' = InUse \cup {b} BY <1>11, <1>12, HandMoves
<1> QED BY <1>9, <1>10, <1>13, HeapAlloc

\* t gives back a block, which leaves its hand.
LEMMA GiveBack ==
  ASSUME IInv, NEW t \in Thread, NEW b \in InUse, NotOthers(b, t),
         Hand(t)' = Hand(t) \ {b}, \A u \in Thread : u # t => op'[u] = op[u]
  PROVE  MallocHeap!Free(b)
<1>1. b # NoBlock BY InUseIsTaken, BlockFacts
<1>2. \A u \in Thread : u # t => op[u].old # b BY <1>1 DEF NotOthers, InFlight
<1>3. InUse' = InUse \ {b} BY <1>2, HandMoves
<1> QED BY <1>3, HeapFree

LEMMA PushLeavesHand ==
  ASSUME TypeOK, NEW t \in Thread, NEW b \in Small, NEW event, PushRegion(t, b, event)
  PROVE  op'[t].old = NoBlock /\ \A u \in Thread : u # t => op'[u] = op[u]
<1>1. PICK i \in Ind : i = sz_to_ind(b) /\ b \in Region[i] BY BlockFacts
<1>2. CASE num(t, i) = Capacity
  <2>1. PICK s, m : op' = [op EXCEPT ![t] = [Idle EXCEPT !.step = s, !.ind = i, !.count = m,
                                                         !.block = b]]
    BY <1>1, <1>2 DEF PushRegion, Goto
  <2>2. PICK o : o = [Idle EXCEPT !.step = s, !.ind = i, !.count = m, !.block = b] OBVIOUS
  <2>3. o.old = NoBlock BY <2>2 DEF Idle
  <2>4. op' = [op EXCEPT ![t] = o] BY <2>1, <2>2
  <2> QED BY <2>3, <2>4 DEF TypeOK
<1>3. CASE num(t, i) # Capacity
  <2>1. PICK o \in OpType : o = Idle /\ o.old = NoBlock BY IdleFacts
  <2>2. \/ Event(t, o)
        \/ Goto(t, o)
    BY <1>1, <1>3, <2>1 DEF PushRegion
  <2> QED BY <2>1, <2>2, EventKeepsOld
<1> QED BY <1>2, <1>3

LEMMA StepIsHeapStep ==
  ASSUME IInv, NEW t \in Thread, Steps(t)
  PROVE  InUse' = InUse \/ MallocHeap!Next
<1>0. TypeOK /\ CallShape(t) BY DEF IInv
<1>1. ASSUME \A u \in Thread : u # t => op'[u] = op[u], Hand(t)' = Hand(t)
      PROVE  InUse' = InUse
  BY <1>1, HandMoves
<1>2. At(t, "idle") => op[t].old = NoBlock BY <1>0 DEF CallShape, At
<1>3. ASSUME NEW i \in Ind, NEW old, EnterAlloc(t, i, old),
             \/ old = NoBlock /\ held' = held
             \/ old \in held /\ held' = held \ {old}
      PROVE  InUse' = InUse
  <2>1. PICK s, c : op' = [op EXCEPT ![t] = [Idle EXCEPT !.ind = i, !.old = old, !.step = s,
                                                         !.count = c]]
    BY <1>3 DEF EnterAlloc, Goto
  <2>2. PICK o : o = [Idle EXCEPT !.ind = i, !.old = old, !.step = s, !.count = c] OBVIOUS
  <2>3. o.old = old BY <2>2 DEF Idle
  <2>4. op' = [op EXCEPT ![t] = o] BY <2>1, <2>2
  <2>5. op'[t].old = old /\ \A u \in Thread : u # t => op'[u] = op[u]
    BY <1>0, <2>3, <2>4 DEF TypeOK
  <2>6. op[t].old = NoBlock BY <1>2, <1>3 DEF EnterAlloc
  <2>7. NoBlock \notin held BY <1>0, BlockFacts DEF TypeOK
  <2>8. Hand(t)' = Hand(t) BY <1>3, <2>5, <2>6, <2>7 DEF Hand
  <2> QED BY <1>1, <2>5, <2>8
<1>4. ASSUME NEW old \in held \cup {NoBlock}, LargeAlloc(t, old) PROVE MallocHeap!Next
  <2>1. PICK b \in Large : ArenaHeap!Alloc(b) /\ held' = (held \ {old}) \cup {b}
    BY <1>4 DEF LargeAlloc
  <2>2. PICK o : o = IF old = NoBlock THEN Idle ELSE [Idle EXCEPT !.step = "reuse", !.old = old]
    OBVIOUS
  <2>3. o.old = old BY <2>2 DEF Idle
  <2>4. op' = [op EXCEPT ![t] = o] BY <1>4, <2>2 DEF LargeAlloc, Goto
  <2>5. op'[t].old = old /\ \A u \in Thread : u # t => op'[u] = op[u]
    BY <1>0, <2>3, <2>4 DEF TypeOK
  <2>6. op[t].old = NoBlock BY <1>2, <1>4 DEF LargeAlloc
  <2>7. b \in Block /\ b \notin arena BY <2>1, BlockFacts, AllocIsFresh
  <2>8. NoBlock \notin held BY <1>0, BlockFacts DEF TypeOK
  <2>9. Hand(t)' = Hand(t) \cup {b} BY <2>1, <2>5, <2>6, <2>7, <2>8, BlockFacts DEF Hand
  <2>10. InUse' = InUse \cup {b} BY <2>5, <2>9, HandMoves
  <2>11. MallocHeap!Alloc(b) BY <2>7, <2>10, InUseIsTaken, HeapAlloc
  <2> QED BY <2>7, <2>11 DEF MallocHeap!Next
<1>5. ASSUME NEW b \in held, Dalloc(t, b) PROVE MallocHeap!Next
  <2>1. op[t].old = NoBlock /\ held' = held \ {b} BY <1>2, <1>5 DEF Dalloc
  <2>2. op'[t].old = NoBlock /\ \A u \in Thread : u # t => op'[u] = op[u]
    <3>1. CASE b \in Small BY <1>0, <1>5, <3>1, PushLeavesHand DEF Dalloc
    <3>2. CASE b \notin Small BY <1>5, <2>1, <3>2 DEF Dalloc
    <3> QED BY <3>1, <3>2
  <2>3. b \in Block /\ b \in InUse /\ NotOthers(b, t) BY HeldOnly DEF InUse
  <2>4. Hand(t)' = Hand(t) \ {b} BY <2>1, <2>2, <2>3, BlockFacts DEF Hand
  <2>5. MallocHeap!Free(b) BY <2>2, <2>3, <2>4, GiveBack
  <2> QED BY <2>3, <2>5 DEF MallocHeap!Next
<1>6. ASSUME Reuse(t) PROVE MallocHeap!Next
  <2>1. PICK b : b = op[t].old OBVIOUS
  <2>2. b # NoBlock /\ b \in InFlight(t) /\ held' = held
    BY <1>0, <1>6, <2>1 DEF Reuse, At, CallShape, InFlight
  <2>3. b \in Block /\ b \in InUse /\ b \notin held /\ NotOthers(b, t)
    BY <2>1, <2>2, FlyingOnly DEF InUse
  <2>4. op'[t].old = NoBlock /\ \A u \in Thread : u # t => op'[u] = op[u]
    <3>1. CASE b \in Small BY <1>0, <1>6, <2>1, <3>1, PushLeavesHand DEF Reuse
    <3>2. CASE b \notin Small
      <4>1. PICK o \in OpType : o = Idle /\ o.old = NoBlock BY IdleFacts
      <4>2. Goto(t, o) BY <1>6, <2>1, <3>2, <4>1 DEF Reuse
      <4> QED BY <1>0, <4>1, <4>2, EventKeepsOld
    <3> QED BY <3>1, <3>2
  <2>5. Hand(t)' = Hand(t) \ {b} BY <2>1, <2>2, <2>3, <2>4 DEF Hand
  <2>6. MallocHeap!Free(b) BY <2>3, <2>4, <2>5, GiveBack
  <2> QED BY <2>3, <2>6 DEF MallocHeap!Next
<1>7. ASSUME FillFailed(t) PROVE InUse' = InUse
  <2>1. PICK o \in OpType : o = Idle /\ o.old = NoBlock BY IdleFacts
  <2>2. Event(t, o) /\ held' = held \cup ({op[t].old} \ {NoBlock})
    BY <1>7, <2>1 DEF FillFailed
  <2>3. op'[t].old = NoBlock /\ \A u \in Thread : u # t => op'[u] = op[u]
    BY <1>0, <2>1, <2>2, EventKeepsOld
  <2>4. Hand(t)' = Hand(t) BY <2>2, <2>3 DEF Hand
  <2> QED BY <1>1, <2>3, <2>4
<1>8. ASSUME FillOne(t) \/ Filled(t) \/ FlushOne(t) PROVE InUse' = InUse
  <2>1. PICK o : op' = [op EXCEPT ![t] = o] /\ o.old = op[t].old
    <3>1. op[t] \in OpType BY <1>0, ThreadFacts
    <3>2. CASE FillOne(t) \/ FlushOne(t)
      <4>1. PICK o : o = [op[t] EXCEPT !.done = @ + 1] OBVIOUS
      <4>2. o.old = op[t].old BY <3>1, <4>1 DEF OpType
      <4>3. op' = [op EXCEPT ![t] = o] BY <3>2, <4>1 DEF FillOne, FlushOne, Goto
      <4> QED BY <4>2, <4>3
    <3>3. CASE Filled(t)
      <4>1. PICK o : o = [op[t] EXCEPT !.step = "pop", !.count = 0, !.done = 0] OBVIOUS
      <4>2. o.old = op[t].old BY <3>1, <4>1 DEF OpType
      <4>3. op' = [op EXCEPT ![t] = o] BY <3>3, <4>1 DEF Filled, Goto
      <4> QED BY <4>2, <4>3
    <3> QED BY <1>8, <3>2, <3>3
  <2>2. op'[t].old = op[t].old /\ \A u \in Thread : u # t => op'[u] = op[u]
    BY <1>0, <2>1 DEF TypeOK
  <2>3. held' = held BY <1>8 DEF FillOne, Filled, FlushOne
  <2>4. Hand(t)' = Hand(t) BY <2>2, <2>3 DEF Hand
  <2> QED BY <1>1, <2>2, <2>4
<1>9. ASSUME FlushedToPush(t) PROVE InUse' = InUse
  <2>1. PICK o \in OpType : o = Idle /\ o.old = NoBlock BY IdleFacts
  <2>2. \/ Event(t, o)
        \/ Goto(t, o)
    BY <1>9, <2>1 DEF FlushedToPush
  <2>3. op'[t].old = NoBlock /\ \A u \in Thread : u # t => op'[u] = op[u]
    BY <1>0, <2>1, <2>2, EventKeepsOld
  <2>4. op[t].old = NoBlock /\ held' = held BY <1>0, <1>9 DEF FlushedToPush, CallShape
  <2>5. Hand(t)' = Hand(t) BY <2>3, <2>4 DEF Hand
  <2> QED BY <1>1, <2>3, <2>5
<1>10. ASSUME Collected(t) PROVE InUse' = InUse
  <2>1. PICK o \in OpType : o = AfterAlloc(t) /\ o.old = op[t].old
    BY <1>0, AfterAllocFacts
  <2>2. Goto(t, o) /\ held' = held BY <1>10, <2>1 DEF Collected
  <2>3. op'[t].old = op[t].old /\ \A u \in Thread : u # t => op'[u] = op[u]
    BY <1>0, <2>1, <2>2, EventKeepsOld
  <2>4. Hand(t)' = Hand(t) BY <2>2, <2>3 DEF Hand
  <2> QED BY <1>1, <2>3, <2>4
<1>11. ASSUME PopRegion(t) PROVE MallocHeap!Next
  <2>1. PICK b \in Small : MallocHeap!Alloc(b) BY <1>11, PopAllocs
  <2>2. b \in Block BY BlockFacts
  <2> QED BY <2>1, <2>2 DEF MallocHeap!Next
<1>12. ASSUME NEW i \in Ind, EnterAlloc(t, i, NoBlock), held' = held PROVE InUse' = InUse
  <2>1. PICK old : old = NoBlock OBVIOUS
  <2>2. EnterAlloc(t, i, old) BY <1>12, <2>1
  <2> QED BY <1>3, <1>12, <2>1, <2>2
<1>13. ASSUME NEW b \in held, NEW i \in Ind, EnterAlloc(t, i, b), held' = held \ {b}
       PROVE  InUse' = InUse
  BY <1>3, <1>13
<1> QED BY <1>4, <1>5, <1>6, <1>7, <1>8, <1>9, <1>10, <1>11, <1>12, <1>13 DEF Steps, Run

\* malloc, realloc and free, with all the caching behind them, implement a heap:
\* whatever the threads do, malloc returns a block nobody has, realloc's old
\* block stays in use until it is freed, and only a block in use is freed.
THEOREM MallocHeapImplemented == Spec => ImplementsMallocHeap
<1> DEFINE Pops == \A t \in Thread : PopRegion(t) => \E b \in Small : MallocHeap!Alloc(b)
           Heap == MallocHeap!Next
           use  == InUse
<1>1. Init => use = {}
  <2> SUFFICES ASSUME Init PROVE InUse = {} OBVIOUS
  <2>1. \A t \in Thread : op[t].old = NoBlock BY IdleFacts DEF Init
  <2> QED BY <2>1 DEF InUse, Init
<1>2. IInv /\ [Next]_vars => [Heap]_use
  <2>1. ASSUME IInv, Next PROVE InUse' = InUse \/ Heap BY <2>1, NextIsSteps, StepIsHeapStep
  <2>2. UNCHANGED vars => InUse' = InUse BY DEF vars, InUse
  <2> QED BY <2>1, <2>2
<1>3. IInv /\ [Next]_vars => [Pops]_vars BY PopAllocs
<1>4. ImplementsMallocHeap <=> use = {} /\ [][Heap]_use /\ [][Pops]_vars
  BY DEF ImplementsMallocHeap, MallocHeap!Spec, MallocHeap!Init, InUse
<1> HIDE DEF Pops, Heap, use
<1> QED BY <1>1, <1>2, <1>3, <1>4, Inductive, PTL DEF Spec
=============================================================================
