----------------------------- MODULE ThreadCache -----------------------------
(***************************************************************************)
(* The ThreadAllocator of each thread and its CacheBins (thread_alloc.h):  *)
(* malloc, free and realloc as a program calls them.  A bin keeps regions  *)
(* of one class that the thread freed, or took from the arena ahead of     *)
(* need: a stack that is filled, flushed and trimmed in batches.           *)
(*                                                                         *)
(* Only the thread uses its bins; threads meet in the arenas, and in the   *)
(* regions one allocates and another frees.  The arenas are the region     *)
(* heap that Arena!ImplementsRegionHeap says they are; each call on them   *)
(* is one step.  A region stands for its extent and its class; which       *)
(* extents overlap is the arena's matter.                                  *)
(*                                                                         *)
(* Left out: the statistics, and ~ThreadAllocator, which nothing calls     *)
(* when a thread ends (its caches stay taken from the arena).              *)
(***************************************************************************)
EXTENDS Integers, FiniteSets, Sequences

CONSTANTS
  Thread,
  NumClasses,      \* kNumSmallClasses
  Region,          \* Region[i]: the regions of small class i
  Large,           \* the large chunks
  NoBlock,         \* nullptr
  Capacity,        \* capacity_ of a bin
  InitFillCount,   \* kInitFillCount
  MaxEventTick     \* kMaxEventTick

Ind == 0..(NumClasses - 1)
MaxFill == (Capacity * 3) \div 4

Small == UNION { Region[i] : i \in Ind }
Block == Small \cup Large

ASSUME CacheAssumption ==
  /\ NumClasses \in Nat \ {0}
  /\ DOMAIN Region = Ind
  /\ \A i, j \in Ind : i # j => Region[i] \cap Region[j] = {}
  /\ Large \cap Small = {}
  /\ NoBlock \notin Block
  /\ Capacity \in Nat /\ InitFillCount \in Nat \ {0} /\ MaxEventTick \in Nat
  /\ InitFillCount <= MaxFill /\ MaxFill < Capacity

VARIABLES
  arena,        \* the blocks taken from the arenas
  held,         \* the blocks the program has been given
  made,         \* cache_bins_: the classes each thread has a bin for
  caches,       \* caches_[0 .. num_ - 1] of each bin, the top of the stack last
  fill_count,   \* fill_count_ of each bin
  low_mark,     \* low_mark_ of each bin
  event_tick,   \* event_tick_ of each thread
  gc_index,     \* gc_index_ of each thread
  op            \* the call each thread is in

bins == <<made, caches, fill_count, low_mark>>
events == <<event_tick, gc_index>>
vars == <<arena, held, bins, events, op>>

-----------------------------------------------------------------------------
(* Blocks, bins and calls *)

ArenaHeap == INSTANCE ExtentHeap
  WITH Extent <- Block, Span <- [b \in Block |-> {b}], live <- arena

\* sz_to_ind(LookUp(ptr)->slab_region_size())
sz_to_ind(b) == CHOOSE i \in Ind : b \in Region[i]

\* Slip: three quarters of the mark, rounded down.
GCCountFloor(low) == (low * 3) \div 4

\* The regions of a collection: three quarters of the low mark, rounded up.
GCCount(low) == (low * 3 + 3) \div 4

Smaller(m, n) == IF m < n THEN m ELSE n
\* Slip: no lower bound.
FirstOf(m, n) == m

Larger(m, n) == IF m > n THEN m ELSE n

Idle == [step |-> "idle", ind |-> 0, count |-> 0, done |-> 0,
         block |-> NoBlock, old |-> NoBlock]

At(t, step) == op[t].step = step
Goto(t, o) == op' = [op EXCEPT ![t] = o]
num(t, i) == Len(caches[t][i])

\* TriggerGC takes the bins in turn, those that have been made.
NextBin(t) ==
  LET turn(k) == (gc_index[t] + k) % NumClasses
      k == CHOOSE k \in 1..NumClasses :
             /\ turn(k) \in made'[t]
             /\ \A j \in 1..(k - 1) : turn(j) \notin made'[t]
  IN  turn(k)

\* Event ends a call on a bin: one in kMaxEventTick + 1 of them goes on with a
\* collection of one bin.  What the thread does after it is in resume.
Event(t, resume) ==
  IF event_tick[t] + 1 > MaxEventTick
  THEN LET i == NextBin(t)
       IN  /\ event_tick' = [event_tick EXCEPT ![t] = 0]
           /\ gc_index' = [gc_index EXCEPT ![t] = i]
           /\ Goto(t, [resume EXCEPT !.step = "gc", !.ind = i,
                                     !.count = GCCount(low_mark'[t][i])])
  ELSE /\ event_tick' = [event_tick EXCEPT ![t] = @ + 1]
       /\ Goto(t, resume)
       /\ UNCHANGED gc_index

-----------------------------------------------------------------------------
(* malloc *)

\* ThreadAlloc of a small size, for malloc and for realloc, whose old block is
\* kept in old: an empty bin is filled first.
EnterAlloc(t, i, old) ==
  /\ At(t, "idle")
  /\ made' = [made EXCEPT ![t] = @ \cup {i}]
  /\ Goto(t, [Idle EXCEPT !.ind = i, !.old = old,
                 !.step  = IF caches[t][i] = <<>> THEN "fill" ELSE "pop",
                 !.count = IF caches[t][i] = <<>> THEN fill_count[t][i] ELSE 0])
  /\ UNCHANGED <<arena, caches, fill_count, low_mark, events>>

\* One turn of the loop of FillCaches.
FillOne(t) ==
  LET i == op[t].ind
  IN  /\ At(t, "fill")
      /\ op[t].done < op[t].count
      /\ \E b \in Region[i] :
           /\ ArenaHeap!Alloc(b)
           /\ caches' = [caches EXCEPT ![t][i] = Append(@, b)]
      /\ Goto(t, [op[t] EXCEPT !.done = @ + 1])
      /\ UNCHANGED <<held, made, fill_count, low_mark, events>>

\* Slip: FillCaches tries again when the arena has no memory.
FilledToCount(t) ==
  LET i == op[t].ind
  IN  /\ At(t, "fill")
      /\ op[t].done = op[t].count
      /\ fill_count' = [fill_count EXCEPT ![t][i] = Smaller(@ * 2, MaxFill)]
      /\ Goto(t, [op[t] EXCEPT !.step = "pop", !.count = 0, !.done = 0])
      /\ UNCHANGED <<arena, held, made, caches, low_mark, events>>

\* FillCaches returns, for it is done or the arena has no memory, with
\* something to pop.
Filled(t) ==
  LET i == op[t].ind
  IN  /\ At(t, "fill")
      /\ op[t].done > 0
      /\ fill_count' = [fill_count EXCEPT ![t][i] = Smaller(@ * 2, MaxFill)]
      /\ Goto(t, [op[t] EXCEPT !.step = "pop", !.count = 0, !.done = 0])
      /\ UNCHANGED <<arena, held, made, caches, low_mark, events>>

\* What ThreadRealloc does once ThreadAlloc has returned a block.
AfterAlloc(t) ==
  IF op[t].old = NoBlock THEN Idle
  ELSE [Idle EXCEPT !.step = "reuse", !.old = op[t].old]

\* It could not fill the bin at all: nullptr, and realloc keeps the old block.
FillFailed(t) ==
  /\ At(t, "fill")
  /\ op[t].done = 0
  /\ held' = held \cup ({op[t].old} \ {NoBlock})
  /\ UNCHANGED <<arena, bins>>
  /\ Event(t, Idle)

\* Slip: num_ is not decremented.
PopRegionKeepsTop(t) ==
  LET i == op[t].ind
  IN  /\ At(t, "pop")
      /\ held' = held \cup {caches[t][i][num(t, i)]}
      /\ UNCHANGED <<arena, bins>>
      /\ Event(t, AfterAlloc(t))

\* Slip: the low mark is not lowered.
PopRegionKeepsMark(t) ==
  LET i   == op[t].ind
      top == num(t, i)
  IN  /\ At(t, "pop")
      /\ caches' = [caches EXCEPT ![t][i] = SubSeq(@, 1, top - 1)]
      /\ held' = held \cup {caches[t][i][top]}
      /\ UNCHANGED <<arena, made, fill_count, low_mark>>
      /\ Event(t, AfterAlloc(t))

PopRegion(t) ==
  LET i   == op[t].ind
      top == num(t, i)
  IN  /\ At(t, "pop")
      /\ caches' = [caches EXCEPT ![t][i] = SubSeq(@, 1, top - 1)]
      /\ low_mark' = [low_mark EXCEPT ![t][i] = Smaller(@, top - 1)]
      /\ held' = held \cup {caches[t][i][top]}
      /\ UNCHANGED <<arena, made, fill_count>>
      /\ Event(t, AfterAlloc(t))

\* ThreadAlloc of a large size: no bin, no event.
LargeAlloc(t, old) ==
  /\ At(t, "idle")
  /\ \E b \in Large :
       /\ ArenaHeap!Alloc(b)
       /\ held' = (held \ {old}) \cup {b}
  /\ Goto(t, IF old = NoBlock THEN Idle
             ELSE [Idle EXCEPT !.step = "reuse", !.old = old])
  /\ UNCHANGED <<bins, events>>

-----------------------------------------------------------------------------
(* free *)

\* PushRegion: block b goes on top of its bin, which is flushed first when it
\* is full.  The statement that follows the call is Event in ThreadDalloc,
\* and nothing in ThreadRealloc.
PushRegion(t, b, event) ==
  LET i == sz_to_ind(b)
  IN  /\ made' = [made EXCEPT ![t] = @ \cup {i}]
      /\ IF num(t, i) = Capacity
         THEN /\ Goto(t, [Idle EXCEPT !.step = IF event THEN "flush" ELSE "flushOld",
                             !.ind = i, !.count = MaxFill, !.block = b])
              /\ UNCHANGED <<caches, fill_count, low_mark, events>>
         ELSE /\ caches' = [caches EXCEPT ![t][i] = Append(@, b)]
              /\ UNCHANGED <<fill_count, low_mark>>
              /\ IF event THEN Event(t, Idle) ELSE Goto(t, Idle) /\ UNCHANGED events
      /\ UNCHANGED arena

\* ThreadDalloc, by any thread, of a block the program holds.
Dalloc(t, b) ==
  /\ At(t, "idle")
  /\ b \in held
  /\ held' = held \ {b}
  /\ IF b \in Small
     THEN PushRegion(t, b, TRUE)
     ELSE /\ ArenaHeap!Free(b)
          /\ UNCHANGED <<bins, events, op>>

\* One turn of the loop of FlushCaches; the region stays in caches_ until the
\* loop is over.
FlushOne(t) ==
  /\ op[t].step \in {"flush", "flushOld", "gc"}
  /\ op[t].done < op[t].count
  /\ ArenaHeap!Free(caches[t][op[t].ind][op[t].done + 1])
  /\ Goto(t, [op[t] EXCEPT !.done = @ + 1])
  /\ UNCHANGED <<held, bins, events>>

\* Slip: the rest of the stack is not moved down.
RestUnmoved(t) ==
  LET i == op[t].ind IN SubSeq(caches[t][i], 1, num(t, i) - op[t].count)

\* What the loop left, moved down: memmove and num_ -= count.
Rest(t) ==
  LET i == op[t].ind IN SubSeq(caches[t][i], op[t].count + 1, num(t, i))

\* The end of PushRegion of a full bin.
FlushedToPush(t) ==
  LET i == op[t].ind
  IN  /\ op[t].step \in {"flush", "flushOld"}
      /\ op[t].done = op[t].count
      /\ caches' = [caches EXCEPT ![t][i] = Append(Rest(t), op[t].block)]
      /\ low_mark' = [low_mark EXCEPT ![t][i] = Len(Rest(t))]
      /\ fill_count' = [fill_count EXCEPT ![t][i] = Larger(@ \div 2, InitFillCount)]
      /\ UNCHANGED <<arena, held, made>>
      /\ IF At(t, "flush") THEN Event(t, Idle) ELSE Goto(t, Idle) /\ UNCHANGED events

\* The end of GarbageCollect.
Collected(t) ==
  LET i == op[t].ind
  IN  /\ At(t, "gc")
      /\ op[t].done = op[t].count
      /\ caches' = [caches EXCEPT ![t][i] = Rest(t)]
      /\ low_mark' = [low_mark EXCEPT ![t][i] = Len(Rest(t))]
      /\ Goto(t, AfterAlloc(t))
      /\ UNCHANGED <<arena, held, made, fill_count, events>>

-----------------------------------------------------------------------------
(* realloc *)

\* ThreadRealloc of a block the program holds; no other thread may use it any
\* more.  realloc(nullptr, n) is malloc and realloc(p, 0) is free.
Realloc(t, b) ==
  /\ b \in held
  /\ \/ /\ held' = held \ {b}
        /\ \E i \in Ind : EnterAlloc(t, i, b)
     \/ LargeAlloc(t, b)

\* The rest of it: the new block has the contents, the old one is freed.
Reuse(t) ==
  /\ At(t, "reuse")
  /\ IF op[t].old \in Small
     THEN PushRegion(t, op[t].old, FALSE)
     ELSE /\ ArenaHeap!Free(op[t].old)
          /\ Goto(t, Idle)
          /\ UNCHANGED <<bins, events>>
  /\ UNCHANGED held

-----------------------------------------------------------------------------
(* Specification *)

Init ==
  /\ arena = {} /\ held = {}
  /\ made = [t \in Thread |-> {}]
  /\ caches = [t \in Thread |-> [i \in Ind |-> <<>>]]
  /\ fill_count = [t \in Thread |-> [i \in Ind |-> InitFillCount]]
  /\ low_mark = [t \in Thread |-> [i \in Ind |-> 0]]
  /\ event_tick = [t \in Thread |-> 0]
  /\ gc_index = [t \in Thread |-> 0]
  /\ op = [t \in Thread |-> Idle]

Call(t) ==
  \/ \E i \in Ind : EnterAlloc(t, i, NoBlock) /\ UNCHANGED held
  \/ LargeAlloc(t, NoBlock)
  \/ \E b \in held : Dalloc(t, b) \/ Realloc(t, b)

Run(t) ==
  \/ FillOne(t) \/ Filled(t) \/ FillFailed(t) \/ PopRegion(t)
  \/ FlushOne(t) \/ FlushedToPush(t) \/ Collected(t) \/ Reuse(t)

Next == \E t \in Thread : Call(t) \/ Run(t)

Spec == Init /\ [][Next]_vars

\* A thread inside a call keeps running.
FairSpec == Spec /\ \A t \in Thread : WF_vars(Run(t))

-----------------------------------------------------------------------------
(* Properties *)

OpType == [step : {"idle", "fill", "pop", "flush", "flushOld", "gc", "reuse"}, ind : Ind,
           count : 0..Capacity, done : 0..Capacity,
           block : Block \cup {NoBlock}, old : Block \cup {NoBlock}]

\* Bins keep to their class and their capacity, and fill counts to the bounds
\* that doubling and halving have.
TypeOK ==
  /\ arena \subseteq Block /\ held \subseteq Block
  /\ made \in [Thread -> SUBSET Ind]
  /\ DOMAIN caches = Thread
  /\ \A t \in Thread :
       /\ DOMAIN caches[t] = Ind
       /\ \A i \in Ind : /\ caches[t][i] \in Seq(Region[i])
                         /\ num(t, i) <= Capacity
                         /\ num(t, i) > 0 => i \in made[t]
  /\ fill_count \in [Thread -> [Ind -> InitFillCount..MaxFill]]
  /\ low_mark \in [Thread -> [Ind -> 0..Capacity]]
  /\ event_tick \in [Thread -> 0..MaxEventTick]
  /\ gc_index \in [Thread -> Ind]
  /\ op \in [Thread -> OpType]

\* The regions at the bottom of a bin that a flush in progress has returned.
Flushed(t, i) ==
  IF op[t].step \in {"flush", "flushOld", "gc"} /\ op[t].ind = i THEN op[t].done ELSE 0

Slot == { s \in Thread \X Ind \X (1..Capacity) :
            s[3] > Flushed(s[1], s[2]) /\ s[3] <= num(s[1], s[2]) }
Cached(s) == caches[s[1]][s[2]][s[3]]

\* The blocks a call in progress has taken from the program: the one to push
\* once its bin is flushed, the one to free once realloc has a new one.
InFlight(t) == {op[t].block, op[t].old} \ {NoBlock}

\* Every block taken from the arenas is in one place: with the program, in one
\* slot of one bin or in one call; and nothing else is in any.  So no thread
\* hands out a block that another has, in use or cached, nor one it has given
\* back in a flush, and no path of malloc, free or realloc loses a block.
BlocksAccounted ==
  LET cached == { Cached(s) : s \in Slot }
      flying == UNION { InFlight(t) : t \in Thread }
  IN  /\ arena = held \cup cached \cup flying
      /\ \A r, s \in Slot : r # s => Cached(r) # Cached(s)
      /\ held \cap (cached \cup flying) = {} /\ cached \cap flying = {}
      /\ \A t, u \in Thread : t # u => InFlight(t) \cap InFlight(u) = {}
      /\ \A t \in Thread : op[t].block = op[t].old => op[t].old = NoBlock

\* FillCaches never overruns a bin (its assertion num_ + count < capacity_) and
\* FlushCaches never takes more than there is, for any low mark: the mark is at
\* most the number cached, and three quarters of it, rounded up, at most it.
BatchesFit ==
  \A t \in Thread :
    LET o == op[t]
    IN  /\ At(t, "fill") => num(t, o.ind) = o.done /\ o.done <= o.count /\ o.count < Capacity
        /\ At(t, "pop") => num(t, o.ind) > 0
        /\ o.step \in {"flush", "flushOld", "gc"} => o.done <= o.count /\ o.count <= num(t, o.ind)
        /\ At(t, "gc") => o.ind \in made[t] /\ o.count = GCCount(low_mark[t][o.ind])
        /\ \A i \in Ind : low_mark[t][i] <= num(t, i)

\* What lies below the low mark of a bin has not been used since its last
\* flush: whatever a call does, it leaves those regions alone, or lowers the
\* mark.  So a collection gives back only regions that idled since the last.
LowMarkIsIdle ==
  [][\A t \in Thread, i \in Ind :
       \/ op[t].ind = i /\ (FlushedToPush(t) \/ Collected(t))
       \/ LET low == low_mark'[t][i]
          IN  /\ low <= low_mark[t][i] /\ low <= Len(caches'[t][i])
              /\ SubSeq(caches'[t][i], 1, low) = SubSeq(caches[t][i], 1, low)]_vars

\* The blocks the program uses: while realloc runs it still needs the old one.
MallocHeap == INSTANCE ExtentHeap
  WITH Extent <- Block, Span <- [b \in Block |-> {b}],
       live <- held \cup ({ op[t].old : t \in Thread } \ {NoBlock})

\* malloc, realloc and free of all threads, with all the caching behind them,
\* are a heap, and each time malloc returns a block that is a block nobody has.
ImplementsMallocHeap ==
  /\ MallocHeap!Spec
  /\ [][\A t \in Thread : PopRegion(t) => \E b \in Small : MallocHeap!Alloc(b)]_vars

\* Every call ends, the batches and the collection it happens to do included.
CallsEnd == \A t \in Thread : []<>At(t, "idle")

\* A bin that its thread has stopped using is emptied in the end, if the thread
\* goes on with calls on other bins: collections come round to every bin, and
\* each takes at least one region of a bin that has idle ones.
UnusedBinDrains ==
  \A t \in Thread, i \in Ind :
    /\ <>[][Collected(t) \/ caches'[t][i] = caches[t][i]]_vars
    /\ []<>At(t, "gc")
    => <>[](caches[t][i] = <<>>)
=============================================================================
