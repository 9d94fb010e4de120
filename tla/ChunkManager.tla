---------------------------- MODULE ChunkManager ----------------------------
(***************************************************************************)
(* The page level of ffmalloc: the ChunkManager of each Arena (chunk.cc)   *)
(* carves chunks, runs of whole pages, out of memory mapped from the OS,   *)
(* keeps the free ones in bins by size (dirty: still backed by memory;     *)
(* clean: given back with madvise) and merges clean neighbours, which it   *)
(* finds through the page map (chunk_rtree) that all arenas share.         *)
(*                                                                         *)
(* Sizes and addresses are counted in pages.  A Chunk object is named by   *)
(* its first page: no operation moves a chunk, a split leaves the object   *)
(* on the head and a merge keeps the object of the head.                   *)
(*                                                                         *)
(* AllocChunk and DallocChunk run under Arena::mutex_, so the steps of one *)
(* arena's call are never interleaved with another call on that arena.     *)
(* op[a] is the call in progress: a call is split into steps where it      *)
(* meets what the arenas share, the OS map and the page map, and where the *)
(* garbage collector loops.                                                *)
(*                                                                         *)
(* Left out: the statistics (stat_), a failing mmap (AllocChunk            *)
(* returns nullptr and changes nothing), the order inside a bin (pop takes *)
(* any chunk of the bin here; the code takes the one pushed last).         *)
(***************************************************************************)
EXTENDS Integers, FiniteSets

CONSTANTS
  Arena,         \* the arenas, each with one ChunkManager
  NoArena,       \* not an arena: the arena of a chunk that does not exist
  NumPages,      \* bound: pages of address space the OS maps from
  NumClasses,    \* kNumGePageClasses: number of chunk size classes
  ClassSize,     \* ge_page_classes: the size of each class, in pages
  HugeSize,      \* sizes above kStandardChunk that are asked for
  MaxEventTick,  \* kMaxEventTick: calls between two collections
  EpochLimit     \* UINT8_MAX: epoch_ wraps to 0 when it reaches this

Page == 1..NumPages
Pind == 0..(NumClasses - 1)

\* nullptr in the page map, and the pages an address range may be probed at.
NoPage == 0
Probe == 0..(NumPages + 1)

\* kStandardChunk is the largest class: small requests map this much at once.
StandardChunk == ClassSize[NumClasses - 1]

ASSUME SizeAssumption ==
  /\ NoArena \notin Arena
  /\ NumPages \in Nat
  /\ NumClasses \in Nat \ {0}
  /\ ClassSize \in [Pind -> Nat \ {0}]
  /\ ClassSize[0] = 1
  /\ \A i, j \in Pind : i < j => ClassSize[i] < ClassSize[j]
  /\ \A n \in HugeSize : n \in Nat /\ n > StandardChunk

ASSUME CounterAssumption ==
  /\ MaxEventTick \in Nat
  /\ EpochLimit \in Nat \ {0}

VARIABLES
  chunk,    \* chunk[p]: the Chunk object whose first page is p
  rtree,    \* the page map: first page of the chunk a page is registered for
  mapped,   \* pages mapped from the OS
  dirty,    \* dirty_chunk_ of each arena: one bin per class
  clean,    \* clean_chunk_ of each arena
  epoch,    \* epoch_ of each arena
  tick,     \* event_tick_ of each arena
  op        \* the call each arena's mutex_ is held for

vars == <<chunk, rtree, mapped, dirty, clean, epoch, tick, op>>

-----------------------------------------------------------------------------
(* Chunks, size classes, bins and the page map *)

NoChunk == [state |-> "none", size |-> 0, arena |-> NoArena,
            epoch |-> 0, slab |-> FALSE]

Chunk == [state : {"none", "active", "dirty", "clean"}, size : 0..NumPages,
          arena : Arena \cup {NoArena},
          epoch : 0..(EpochLimit - 1), slab : BOOLEAN]

Exists(c) == chunk[c].state # "none"
Pages(c) == c..(c + chunk[c].size - 1)

\* The smallest class that holds n pages; NumClasses above kMinAllocMmap.
sz_to_pind(n) ==
  IF n > StandardChunk
  THEN NumClasses
  ELSE CHOOSE i \in Pind : n <= ClassSize[i]
                           /\ \A j \in Pind : n <= ClassSize[j] => i <= j

\* Slip: the class that holds n pages, not the one n pages can serve.
get_fit_pind_up(n) == sz_to_pind(n)

\* The largest class that n pages can serve.
get_fit_pind(n) == sz_to_pind(n + 1) - 1

Pop(bins, c)      == [i \in Pind |-> bins[i] \ {c}]
Push(bins, i, c)  == [bins EXCEPT ![i] = @ \cup {c}]
Erase(bins, i, c) == [bins EXCEPT ![i] = @ \ {c}]

\* The chunks FindSuitableChunk may return: those of the first bin that is
\* not empty, from the class asked for upwards.
FindSuitableChunk(bins, pind) ==
  UNION { bins[i] : i \in { k \in Pind :
            /\ pind <= k
            /\ \A j \in pind..(k - 1) : bins[j] = {} } }

Ends(c, n) == {c, c + n - 1}

\* Slip: the loop over the inner pages stops one short.
InteriorShort(c, n) == (c + 1)..(c + n - 3)

Interior(c, n) == (c + 1)..(c + n - 2)

Insert(rt, pages, c) == [p \in Probe |-> IF p \in pages THEN c ELSE rt[p]]
Delete(rt, pages) == Insert(rt, pages, NoPage)

\* Slip: SplitChunk forgets to register the tail.
SplitRtreeNoTail(rt, c, whole, n) ==
  Insert(Delete(rt, Ends(c, whole)), Ends(c, n), c)

\* What SplitChunk does to the page map: n pages of the whole stay in front.
SplitRtree(rt, c, whole, n) ==
  Insert(Insert(Delete(rt, Ends(c, whole)), Ends(c, n), c),
         Ends(c + n, whole - n), c + n)

\* Slip: MergeChunk leaves the entries of the tail as they are.
MergeRtreeKeepsTail(rt, head, hn, tail, tn) ==
  Insert(Delete(rt, Ends(head, hn)), {head}, head)

\* What MergeChunk does to the page map.
MergeRtree(rt, head, hn, tail, tn) ==
  Insert(Delete(rt, Ends(head, hn) \cup Ends(tail, tn)), Ends(head, hn + tn), head)

-----------------------------------------------------------------------------
(* Calls and their steps *)

Idle == [step |-> "idle", base |-> NoPage, need |-> 0, slab |-> FALSE]

Steps == {"idle", "register", "unmap", "gc", "destroy", "destroyUnmap", "gone"}

At(a, step) == op[a].step = step
Goto(a, step) == op' = [op EXCEPT ![a] = [Idle EXCEPT !.step = step]]

\* Event ends every call: it counts the call and starts a collection when
\* kMaxEventTick is exceeded.
Event(a) ==
  IF tick[a] + 1 > MaxEventTick
  THEN /\ tick' = [tick EXCEPT ![a] = 0]
       /\ Goto(a, "gc")
  ELSE /\ tick' = [tick EXCEPT ![a] = @ + 1]
       /\ Goto(a, "idle")

\* The end of AllocChunk: chunk c, registered in rt, is cut to n pages
\* (SplitChunk makes the rest a chunk like it) and handed out.
HandOut(a, c, rt, n, slab) ==
  LET old == chunk[c]
      cut == IF n < old.size THEN SplitRtree(rt, c, old.size, n) ELSE rt
  IN  /\ chunk' = [p \in Page |->
           IF p = c
           THEN [old EXCEPT !.state = "active", !.size = n,
                            !.epoch = epoch[a], !.slab = slab]
           ELSE IF n < old.size /\ p = c + n
                THEN [old EXCEPT !.size = @ - n, !.slab = FALSE]
                ELSE chunk[p]]
      /\ rtree' = IF slab THEN Insert(cut, Interior(c, n), c) ELSE cut

\* The bins after c, of the given size, was popped and cut to n pages.
Rebin(bins, c, size, n) ==
  IF n < size
  THEN Push(Pop(bins, c), get_fit_pind(size - n), c + n)
  ELSE Pop(bins, c)

\* AllocChunk served from a dirty bin.
AllocDirty(a, n, slab) ==
  /\ At(a, "idle")
  /\ n <= StandardChunk
  /\ \E c \in FindSuitableChunk(dirty[a], sz_to_pind(n)) :
       /\ HandOut(a, c, rtree, n, slab)
       /\ dirty' = [dirty EXCEPT ![a] = Rebin(@, c, chunk[c].size, n)]
  /\ Event(a)
  /\ UNCHANGED <<mapped, clean, epoch>>

\* AllocChunk served from a clean bin, for want of a dirty chunk.
AllocClean(a, n, slab) ==
  /\ At(a, "idle")
  /\ n <= StandardChunk
  /\ FindSuitableChunk(dirty[a], sz_to_pind(n)) = {}
  /\ \E c \in FindSuitableChunk(clean[a], sz_to_pind(n)) :
       /\ HandOut(a, c, rtree, n, slab)
       /\ clean' = [clean EXCEPT ![a] = Rebin(@, c, chunk[c].size, n)]
  /\ Event(a)
  /\ UNCHANGED <<mapped, dirty, epoch>>

\* AllocChunk, for a huge chunk or for want of any free one: OSNewChunk maps
\* memory wherever the OS has room for it and makes it a Chunk ...
MapNew(a, n, slab) ==
  LET whole == IF n > StandardChunk THEN n ELSE StandardChunk
  IN  /\ At(a, "idle")
      /\ n <= StandardChunk =>
           /\ FindSuitableChunk(dirty[a], sz_to_pind(n)) = {}
           /\ FindSuitableChunk(clean[a], sz_to_pind(n)) = {}
      /\ \E base \in Page :
           /\ base..(base + whole - 1) \subseteq Page \ mapped
           /\ mapped' = mapped \cup base..(base + whole - 1)
           /\ chunk' = [chunk EXCEPT ![base] =
                          [state |-> "dirty", size |-> whole, arena |-> a,
                           epoch |-> epoch[a], slab |-> FALSE]]
           /\ op' = [op EXCEPT ![a] =
                        [step |-> "register", base |-> base, need |-> n, slab |-> slab]]
      /\ UNCHANGED <<rtree, dirty, clean, epoch, tick>>

\* ... which is registered and cut to what was asked for; the rest goes to a
\* dirty bin.
RegisterNew(a) ==
  LET c == op[a].base
      n == op[a].need
      whole == chunk[c].size
  IN  /\ At(a, "register")
      /\ HandOut(a, c, Insert(rtree, Ends(c, whole), c), n, op[a].slab)
      /\ dirty' = [dirty EXCEPT ![a] = Rebin(@, c, whole, n)]
      /\ Event(a)
      /\ UNCHANGED <<mapped, clean, epoch>>

\* The page map once the inner pages of the chunk, if it is a slab, are off it.
WithoutInterior(c) ==
  IF chunk[c].slab THEN Delete(rtree, Interior(c, chunk[c].size)) ELSE rtree

\* DallocChunk of a chunk that fits a class: to a dirty bin.
DallocToBin(a, c) ==
  /\ At(a, "idle")
  /\ chunk[c].state = "active" /\ chunk[c].arena = a
  /\ chunk[c].size <= StandardChunk
  /\ chunk' = [chunk EXCEPT ![c].state = "dirty", ![c].epoch = epoch[a]]
  /\ rtree' = WithoutInterior(c)
  /\ dirty' = [dirty EXCEPT ![a] = Push(@, sz_to_pind(chunk[c].size), c)]
  /\ Event(a)
  /\ UNCHANGED <<mapped, clean, epoch>>

\* DallocChunk of a huge chunk: OSDeleteChunk takes it off the page map ...
DallocHuge(a, c) ==
  /\ At(a, "idle")
  /\ chunk[c].state = "active" /\ chunk[c].arena = a
  /\ chunk[c].size > StandardChunk
  /\ chunk' = [chunk EXCEPT ![c].state = "dirty", ![c].epoch = epoch[a]]
  /\ rtree' = Delete(WithoutInterior(c), Ends(c, chunk[c].size))
  /\ op' = [op EXCEPT ![a] = [Idle EXCEPT !.step = "unmap", !.base = c]]
  /\ UNCHANGED <<mapped, dirty, clean, epoch, tick>>

\* Slip: munmap gets the size of a standard chunk, not that of the chunk.
UnmapStandard(a) ==
  /\ mapped' = mapped \ (op[a].base..(op[a].base + StandardChunk - 1))
  /\ chunk' = [chunk EXCEPT ![op[a].base] = NoChunk]
  /\ UNCHANGED <<rtree, dirty, clean, epoch>>

\* ... unmaps it and deletes the Chunk.
Unmap(a) ==
  /\ mapped' = mapped \ Pages(op[a].base)
  /\ chunk' = [chunk EXCEPT ![op[a].base] = NoChunk]
  /\ UNCHANGED <<rtree, dirty, clean, epoch>>

UnmapHuge(a) ==
  /\ At(a, "unmap")
  /\ Unmap(a)
  /\ Event(a)

-----------------------------------------------------------------------------
(* The collection: TriggerGC *)

\* Slip: chunks of the epoch just ended are spared as well.
StaleTwice(a) ==
  { c \in UNION { dirty[a][i] : i \in Pind } : chunk[c].epoch + 1 < epoch[a] }

\* Dirty chunks of an epoch before the current one: the loop skips the others.
Stale(a) == { c \in UNION { dirty[a][i] : i \in Pind } : chunk[c].epoch < epoch[a] }

\* Slip: the neighbour may be another arena's.
CleanAtAnyArena(a, p) ==
  IF rtree[p] # NoPage /\ chunk[rtree[p]].state = "clean" THEN rtree[p] ELSE NoPage

\* Slip: the neighbour may be in use.
CleanAtAnyState(a, p) ==
  IF rtree[p] # NoPage /\ chunk[rtree[p]].arena = a THEN rtree[p] ELSE NoPage

\* The clean chunk of this arena the page map has for page p, if any.
CleanAt(a, p) ==
  IF rtree[p] # NoPage /\ chunk[rtree[p]].arena = a /\ chunk[rtree[p]].state = "clean"
  THEN rtree[p]
  ELSE NoPage

\* Dirty chunk c becomes clean and is merged with the clean chunks just before
\* and after it, where there are any.
PushCleanChunk(a, c, prev, next) ==
  LET n     == chunk[c].size
      pn    == IF prev = NoPage THEN 0 ELSE chunk[prev].size
      nn    == IF next = NoPage THEN 0 ELSE chunk[next].size
      head  == IF prev = NoPage THEN c ELSE prev
      back  == IF prev = NoPage THEN rtree ELSE MergeRtree(rtree, prev, pn, c, n)
      left  == IF prev = NoPage THEN clean[a] ELSE Erase(clean[a], get_fit_pind(pn), prev)
      right == IF next = NoPage THEN left ELSE Erase(left, get_fit_pind(nn), next)
  IN  /\ chunk' = [p \in Page |->
           IF p = head
           THEN [chunk[p] EXCEPT !.state = "clean", !.size = pn + n + nn]
           ELSE IF p \in {c, next} THEN NoChunk ELSE chunk[p]]
      /\ rtree' = IF next = NoPage THEN back
                  ELSE MergeRtree(back, head, pn + n, next, nn)
      /\ dirty' = [dirty EXCEPT ![a] = Pop(@, c)]
      /\ clean' = [clean EXCEPT ![a] = Push(right, get_fit_pind(pn + n + nn), head)]

\* One turn of the loop: a stale chunk is given back with madvise and pushed.
ReleaseStale(a) ==
  /\ At(a, "gc")
  /\ \E c \in Stale(a) :
       PushCleanChunk(a, c, CleanAt(a, c - 1), CleanAt(a, c + chunk[c].size))
  /\ UNCHANGED <<mapped, epoch, tick, op>>

\* Slip: the loop goes on until no chunk is dirty.
EndGCWhenDrained(a) ==
  /\ At(a, "gc")
  /\ \A i \in Pind : dirty[a][i] = {}
  /\ epoch' = [epoch EXCEPT ![a] = IF @ + 1 = EpochLimit THEN 0 ELSE @ + 1]
  /\ Goto(a, "idle")
  /\ UNCHANGED <<chunk, rtree, mapped, dirty, clean, tick>>

\* The end of the loop: a new epoch begins.
EndGC(a) ==
  /\ At(a, "gc")
  /\ Stale(a) = {}
  /\ epoch' = [epoch EXCEPT ![a] = IF @ + 1 = EpochLimit THEN 0 ELSE @ + 1]
  /\ Goto(a, "idle")
  /\ UNCHANGED <<chunk, rtree, mapped, dirty, clean, tick>>

-----------------------------------------------------------------------------
(* ~ChunkManager: every binned chunk goes back to the OS *)

Binned(a) == UNION { dirty[a][i] \cup clean[a][i] : i \in Pind }

BeginDestroy(a) ==
  /\ At(a, "idle")
  /\ Goto(a, "destroy")
  /\ UNCHANGED <<chunk, rtree, mapped, dirty, clean, epoch, tick>>

DestroyNext(a) ==
  /\ At(a, "destroy")
  /\ \E c \in Binned(a) :
       /\ dirty' = [dirty EXCEPT ![a] = Pop(@, c)]
       /\ clean' = [clean EXCEPT ![a] = Pop(@, c)]
       /\ rtree' = Delete(rtree, Ends(c, chunk[c].size))
       /\ op' = [op EXCEPT ![a] = [Idle EXCEPT !.step = "destroyUnmap", !.base = c]]
  /\ UNCHANGED <<chunk, mapped, epoch, tick>>

DestroyUnmap(a) ==
  /\ At(a, "destroyUnmap")
  /\ Unmap(a)
  /\ Goto(a, "destroy")
  /\ UNCHANGED tick

EndDestroy(a) ==
  /\ At(a, "destroy")
  /\ Binned(a) = {}
  /\ Goto(a, "gone")
  /\ UNCHANGED <<chunk, rtree, mapped, dirty, clean, epoch, tick>>

-----------------------------------------------------------------------------
(* Specification *)

NoBins == [i \in Pind |-> {}]

Init ==
  /\ chunk = [p \in Page |-> NoChunk]
  /\ rtree = [p \in Probe |-> NoPage]
  /\ mapped = {}
  /\ dirty = [a \in Arena |-> NoBins]
  /\ clean = [a \in Arena |-> NoBins]
  /\ epoch = [a \in Arena |-> 0]
  /\ tick = [a \in Arena |-> 0]
  /\ op = [a \in Arena |-> Idle]

\* Slabs are carved from classes; every other request may be huge.
AllocChunk(a) ==
  \/ \E n \in { ClassSize[i] : i \in Pind }, slab \in BOOLEAN :
       AllocDirty(a, n, slab) \/ AllocClean(a, n, slab) \/ MapNew(a, n, slab)
  \/ \E n \in HugeSize : MapNew(a, n, FALSE)

DallocChunk(a) == \E c \in Page : DallocToBin(a, c) \/ DallocHuge(a, c)

\* The steps that finish what a holder of mutex_ began.
Continue(a) ==
  \/ RegisterNew(a) \/ UnmapHuge(a)
  \/ ReleaseStale(a) \/ EndGC(a)
  \/ DestroyNext(a) \/ DestroyUnmap(a) \/ EndDestroy(a)

Next == \E a \in Arena :
  AllocChunk(a) \/ DallocChunk(a) \/ BeginDestroy(a) \/ Continue(a)

Spec == Init /\ [][Next]_vars

\* A thread inside a call keeps running; nobody is obliged to call.
FairSpec == Spec /\ \A a \in Arena : WF_vars(Continue(a))

-----------------------------------------------------------------------------
(* Properties *)

\* Every variable has its type; an arena that is idle keeps no call's data.
TypeOK ==
  /\ chunk \in [Page -> Chunk]
  /\ rtree \in [Probe -> 0..NumPages]
  /\ mapped \in SUBSET Page
  /\ dirty \in [Arena -> [Pind -> SUBSET Page]]
  /\ clean \in [Arena -> [Pind -> SUBSET Page]]
  /\ epoch \in [Arena -> 0..(EpochLimit - 1)]
  /\ tick \in [Arena -> 0..MaxEventTick]
  /\ op \in [Arena -> [step : Steps, base : 0..NumPages, need : 0..NumPages,
                       slab : BOOLEAN]]

\* A chunk that only the call in progress has: not yet on the page map, or off
\* it on its way back to the OS, and in no bin.
Holds(a, c) ==
  /\ op[a].step \in {"register", "unmap", "destroyUnmap"}
  /\ op[a].base = c

Detached(c) == \E a \in Arena : Holds(a, c)

\* No two chunks, of any arenas, share a page, whatever was split, merged,
\* mapped and unmapped in whatever order (SplitChunk, MergeChunk).
ChunksDisjoint ==
  \A c, d \in Page : Exists(c) /\ Exists(d) /\ c # d => Pages(c) \cap Pages(d) = {}

\* No mapped page is lost and no chunk outlives its mapping: the chunks tile
\* what is mapped from the OS.
MappedIsTiled == mapped = UNION { Pages(c) : c \in { d \in Page : Exists(d) } }

\* The pages a chunk must be found by: its ends, for its neighbours to merge
\* with it, and all of them for a slab, for any of its regions to be freed.
FoundBy(c, p) ==
  \/ p \in Ends(c, chunk[c].size)
  \/ /\ chunk[c].state = "active" /\ chunk[c].slab
     /\ p \in Interior(c, chunk[c].size)

\* The page map has exactly the first and the last page of every chunk and
\* the inner pages of the slabs in use: no free() misses its chunk and no
\* merge follows an entry that a split, a merge or an unmapping left behind.
PageMapExact ==
  \A p \in Probe, c \in Page :
    rtree[p] = c <=> Exists(c) /\ ~Detached(c) /\ FoundBy(c, p)

\* Where a free chunk belongs: with its arena, in the bin of the largest class
\* it is large enough for; not when a call has it.
Belongs(c, a, i) ==
  /\ chunk[c].arena = a
  /\ ClassSize[i] <= chunk[c].size
  /\ \A j \in Pind : i < j => chunk[c].size < ClassSize[j]
  /\ ~Detached(c)

\* Each free chunk is in one bin, that of its arena, its state and the largest
\* class it can serve, and nothing else is: so erase() is called on the list the
\* chunk is in, and first fit never meets a chunk too small nor passes over one
\* that is large enough.
BinsExact ==
  \A a \in Arena, i \in Pind, c \in Page :
    /\ c \in dirty[a][i] <=> chunk[c].state = "dirty" /\ Belongs(c, a, i)
    /\ c \in clean[a][i] <=> chunk[c].state = "clean" /\ Belongs(c, a, i)

\* Two clean chunks of one arena never touch: whatever the order in which
\* neighbours were freed and collected, PushCleanChunk has merged them.
CleanCoalesced ==
  \A c, d \in Page :
    /\ chunk[c].state = "clean" /\ ~Detached(c)
    /\ chunk[d].state = "clean" /\ ~Detached(d)
    /\ chunk[c].arena = chunk[d].arena
    => d # c + chunk[c].size

\* A dirty chunk waits for at most one collection: its epoch is the current
\* one or the one before.  The exception is the last epoch before the counter
\* wraps, which no later epoch is greater than.
DirtyIsRecent ==
  \A c \in Page : chunk[c].state = "dirty" /\ ~Detached(c) =>
    chunk[c].epoch \in {epoch[chunk[c].arena], epoch[chunk[c].arena] - 1, EpochLimit - 1}

\* A chunk in use stays as it is until it is freed, whatever other calls,
\* collections and arenas do around it.
LiveChunkStable ==
  [][\A c \in Page : chunk[c].state = "active" =>
       \/ chunk'[c] = chunk[c]
       \/ chunk'[c].state = "dirty" /\ \E a \in Arena : DallocToBin(a, c) \/ DallocHuge(a, c)]_vars

\* A step of one arena works on chunks of that arena alone, as they were and as
\* they become: every other chunk stays as it is and is found by the same pages.
\* An arena looks at its neighbour's chunk (PushCleanChunk: arena(), state())
\* holding only its own mutex_, so nothing else keeps it from joining, cutting
\* or taking off the page map what another arena has.
ArenasApart ==
  [][\E a \in Arena : \A c \in Page :
       \/ /\ Exists(c) => chunk[c].arena = a
          /\ Exists(c)' => chunk'[c].arena = a
       \/ /\ chunk'[c] = chunk[c]
          /\ \A p \in Probe : rtree'[p] = c <=> rtree[p] = c]_vars

\* The chunks in use, as their users see them.
Extents == { [base |-> c, size |-> chunk[c].size] :
               c \in { d \in Page : chunk[d].state = "active" } }

PageExtent == [base : Page, size : Page]

PageHeap == INSTANCE ExtentHeap
  WITH Extent <- PageExtent,
       Span <- [e \in PageExtent |-> e.base..(e.base + e.size - 1)],
       live <- Extents

\* AllocChunk and DallocChunk of all arenas, with all that goes on behind them,
\* implement a heap of pages: what AllocChunk returns overlaps nothing in use,
\* and no chunk in use is lost, moved, cut or freed but by DallocChunk.
ImplementsPageHeap == PageHeap!Spec

\* A call that holds mutex_ ends: the collection's loop terminates, too.
CallsEnd == \A a \in Arena : []<>(op[a].step \in {"idle", "gone"})

=============================================================================
