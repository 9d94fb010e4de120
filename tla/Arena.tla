------------------------------- MODULE Arena -------------------------------
(***************************************************************************)
(* The Arena (arena.h, arena.cc): threads that share an arena take regions *)
(* of fixed sizes from slabs, and large chunks, and give them back, in any *)
(* thread.  A slab is a chunk with a bitmap of its free regions.  Slabs    *)
(* with a free region are on nonempty_slab_[sind], full ones on            *)
(* empty_slab_[sind]; slab_mutex_[sind] guards both and their bitmaps.     *)
(*                                                                         *)
(* The chunks come from the page heap the ChunkManager implements          *)
(* (ChunkManager!ImplementsPageHeap); AllocChunkWrapper and                *)
(* DallocChunkWrapper are one step each, for they hold mutex_ throughout.  *)
(* So is a critical section of slab_mutex_[sind] that does not call them.  *)
(*                                                                         *)
(* A chunk is named by its first page.  A region is an extent of cells,    *)
(* the unit of region sizes; PageCells of them make a page.                *)
(*                                                                         *)
(* Left out: ~Arena, which no allocation API reaches.                      *)
(***************************************************************************)
EXTENDS Integers, FiniteSets, Sequences

CONSTANTS
  Thread,
  Nobody,         \* not a thread: the owner of a mutex that is free
  Sind,           \* the small size classes
  NonSlab,        \* kNonSlabAttr: not a size class
  RegionCells,    \* ind_to_cs: the size of a region, in cells
  SlabPages,      \* g_slab_sizes: the size of a slab, in pages
  LargePages,     \* sizes of the large chunks asked for, in pages
  PageCells,      \* kPage, in cells
  NumPages,       \* bound: pages of address space
  MaxHeld,        \* bound: allocations in use or under way
  MemoryFails     \* whether the OS may refuse memory

SlabRegions(s) == (SlabPages[s] * PageCells) \div RegionCells[s]

ASSUME ArenaAssumption ==
  /\ Nobody \notin Thread
  /\ NonSlab \notin Sind
  /\ PageCells \in Nat \ {0}
  /\ NumPages \in Nat
  /\ MaxHeld \in Nat
  /\ MemoryFails \in BOOLEAN
  /\ RegionCells \in [Sind -> Nat \ {0}]
  /\ SlabPages \in [Sind -> Nat \ {0}]
  /\ LargePages \subseteq Nat \ {0}
  \* bitmap().init(size_ / slab_region_size_): regions fill the slab exactly
  /\ \A s \in Sind : SlabRegions(s) * RegionCells[s] = SlabPages[s] * PageCells

VARIABLES
  chunks,         \* chunks of this arena in use: extents of pages
  region_size,    \* slab_region_size_ of the chunk at a page, as its class
  bitmap,         \* slab_bitmap_ of the chunk at a page: indices of free regions
  nonempty_slab,  \* nonempty_slab_: a list of chunks for each class
  empty_slab,     \* empty_slab_
  slab_mutex,     \* slab_mutex_: who holds it
  request,        \* small_stats_[sind].request, in cells
  hold,           \* small_stats_[sind].hold, in pages
  large_request,  \* large_stat_.request, in pages
  held,           \* what the callers have been given: extents of cells
  op              \* the call each thread is in

slabs == <<region_size, bitmap, nonempty_slab, empty_slab>>
stats == <<request, hold, large_request>>
vars == <<chunks, slabs, slab_mutex, stats, held, op>>

-----------------------------------------------------------------------------
(* Chunks, regions and lists *)

Page == 1..NumPages
NumCells == NumPages * PageCells

\* The runs of whole pages a chunk may be.
PageExtent == { e \in [base : Page, size : Page] : e.base + e.size - 1 \in Page }

PageHeap == INSTANCE ExtentHeap
  WITH Extent <- PageExtent,
       Span <- [e \in PageExtent |-> e.base..(e.base + e.size - 1)],
       live <- chunks

CellExtent == [base : 1..NumCells, size : 1..NumCells]

FirstCell(p) == (p - 1) * PageCells + 1

\* Slip: the index is not scaled by the size of a region.
RegionAtUnscaled(p, s, i) == [base |-> FirstCell(p) + i, size |-> RegionCells[s]]

\* char_addr() + index * cs
RegionAt(p, s, i) == [base |-> FirstCell(p) + i * RegionCells[s], size |-> RegionCells[s]]

LargeAt(c) == [base |-> FirstCell(c.base), size |-> c.size * PageCells]

\* chunk_rtree()->LookUp: the chunk whose pages a region lies in.
LookUp(e) == CHOOSE c \in chunks :
  FirstCell(c.base) <= e.base /\ e.base < FirstCell(c.base + c.size)

ChunkAt(p) == CHOOSE c \in chunks : c.base = p

AllRegions(s) == 0..(SlabRegions(s) - 1)

\* ffs_and_reset takes the first region that is free.
ffs(bits) == CHOOSE i \in bits : \A j \in bits : i <= j

\* Slip: all() answers as any() does.
AllFreeIfAny(bits, s) == bits # {}

\* bitmap.all()
AllFree(bits, s) == bits = AllRegions(s)

Push(list, p) == <<p>> \o list

\* Slip: the first slab is popped, whichever is to be erased.
EraseFirst(list, p) == Tail(list)

\* The node of p is unlinked from the list it is on.
Erase(list, p) ==
  LET k == CHOOSE k \in DOMAIN list : list[k] = p
  IN  SubSeq(list, 1, k - 1) \o SubSeq(list, k + 1, Len(list))

Elements(list) == { list[i] : i \in DOMAIN list }

-----------------------------------------------------------------------------
(* Calls *)

Idle == [step |-> "idle", sind |-> NonSlab, page |-> 0, index |-> 0]
At(t, step) == op[t].step = step
Goto(t, o) == op' = [op EXCEPT ![t] = o]

Busy == { t \in Thread : ~At(t, "idle") }
Room == Cardinality(held) + Cardinality(Busy) < MaxHeld

\* A thread enters SmallAlloc and waits for the mutex of its class.
SmallAlloc(t, s) ==
  /\ At(t, "idle") /\ Room
  /\ Goto(t, [Idle EXCEPT !.step = "alloc", !.sind = s])
  /\ UNCHANGED <<chunks, slabs, slab_mutex, stats, held>>

\* The end of SmallAlloc, in the critical section: the first free region of
\* the first slab; a slab that it fills moves to the other list.
TakeRegion(t, s) ==
  LET p    == Head(nonempty_slab[s])
      i    == ffs(bitmap[p])
      left == bitmap[p] \ {i}
  IN  /\ bitmap' = [bitmap EXCEPT ![p] = left]
      /\ IF left = {}
         THEN /\ nonempty_slab' = [nonempty_slab EXCEPT ![s] = Erase(@, p)]
              /\ empty_slab' = [empty_slab EXCEPT ![s] = Push(@, p)]
         ELSE UNCHANGED <<nonempty_slab, empty_slab>>
      /\ request' = [request EXCEPT ![s] = @ + RegionCells[s]]
      /\ held' = held \cup {RegionAt(p, s, i)}
      /\ Goto(t, Idle)
      /\ UNCHANGED <<chunks, region_size, hold, large_request>>

\* The mutex is taken, a slab has a free region, the mutex is released.
AllocFromSlab(t) ==
  LET s == op[t].sind
  IN  /\ At(t, "alloc")
      /\ slab_mutex[s] = Nobody
      /\ nonempty_slab[s] # <<>>
      /\ TakeRegion(t, s)
      /\ UNCHANGED slab_mutex

\* The mutex is taken and no slab has a free region: it stays locked while
\* AllocChunkWrapper gets a chunk for a new one.
LockForSlab(t) ==
  LET s == op[t].sind
  IN  /\ At(t, "alloc")
      /\ slab_mutex[s] = Nobody
      /\ nonempty_slab[s] = <<>>
      /\ slab_mutex' = [slab_mutex EXCEPT ![s] = t]
      /\ Goto(t, [op[t] EXCEPT !.step = "slab"])
      /\ UNCHANGED <<chunks, slabs, stats, held>>

NewSlab(t) ==
  LET s == op[t].sind
  IN  /\ At(t, "slab")
      /\ \E c \in PageExtent :
           /\ c.size = SlabPages[s]
           /\ PageHeap!Alloc(c)
           /\ region_size' = [region_size EXCEPT ![c.base] = s]
           /\ bitmap' = [bitmap EXCEPT ![c.base] = AllRegions(s)]
           /\ nonempty_slab' = [nonempty_slab EXCEPT ![s] = Push(@, c.base)]
      /\ hold' = [hold EXCEPT ![s] = @ + SlabPages[s]]
      /\ Goto(t, [op[t] EXCEPT !.step = "take"])
      /\ UNCHANGED <<empty_slab, slab_mutex, request, large_request, held>>

\* AllocChunkWrapper returned nullptr: SmallAlloc returns it, the mutex locked.
NoSlab(t) ==
  /\ At(t, "slab")
  /\ MemoryFails
  /\ Goto(t, Idle)
  /\ UNCHANGED <<chunks, slabs, slab_mutex, stats, held>>

\* The new slab serves the call, the mutex is released.
AllocFromNewSlab(t) ==
  /\ At(t, "take")
  /\ slab_mutex' = [slab_mutex EXCEPT ![op[t].sind] = Nobody]
  /\ TakeRegion(t, op[t].sind)

\* LargeAlloc; when there is no memory it changes nothing.
LargeAlloc(t) ==
  /\ At(t, "idle") /\ Room
  /\ \E c \in PageExtent :
       /\ c.size \in LargePages
       /\ PageHeap!Alloc(c)
       /\ region_size' = [region_size EXCEPT ![c.base] = NonSlab]
       /\ large_request' = large_request + c.size
       /\ held' = held \cup {LargeAt(c)}
  /\ UNCHANGED <<bitmap, nonempty_slab, empty_slab, slab_mutex, request, hold, op>>

\* A caller, in any thread, frees what it holds.  For a region SmallDalloc
\* computes class and index before it locks; a large chunk goes to
\* DallocChunkWrapper at once.
Dalloc(t, e) ==
  LET c == LookUp(e)
      s == region_size[c.base]
  IN  /\ At(t, "idle")
      /\ e \in held
      /\ held' = held \ {e}
      /\ Goto(t, IF s = NonSlab
                 THEN [Idle EXCEPT !.step = "release", !.page = c.base]
                 ELSE [step |-> "free", sind |-> s, page |-> c.base,
                       index |-> (e.base - FirstCell(c.base)) \div RegionCells[s]])
      /\ UNCHANGED <<chunks, slabs, slab_mutex, stats>>

\* The critical section of SmallDalloc: a slab that was full goes back to the
\* list to allocate from; one that is wholly free leaves it, to be released.
ReturnRegion(t) ==
  LET s    == op[t].sind
      p    == op[t].page
      bits == bitmap[p] \cup {op[t].index}
      full == bitmap[p] = {}
      back == IF full THEN Push(nonempty_slab[s], p) ELSE nonempty_slab[s]
      done == AllFree(bits, s)
  IN  /\ At(t, "free")
      /\ slab_mutex[s] = Nobody
      /\ bitmap' = [bitmap EXCEPT ![p] = bits]
      /\ request' = [request EXCEPT ![s] = @ - RegionCells[s]]
      /\ hold' = IF done THEN [hold EXCEPT ![s] = @ - ChunkAt(p).size] ELSE hold
      /\ nonempty_slab' = [nonempty_slab EXCEPT ![s] = IF done THEN Erase(back, p) ELSE back]
      /\ empty_slab' = [empty_slab EXCEPT ![s] = IF full THEN Erase(@, p) ELSE @]
      /\ Goto(t, IF done THEN [Idle EXCEPT !.step = "release", !.page = p] ELSE Idle)
      /\ UNCHANGED <<chunks, region_size, slab_mutex, large_request, held>>

\* Slip: the chunk of a slab is counted as a large one.
ReleaseCountsSlab(t) ==
  LET c == ChunkAt(op[t].page)
  IN  /\ At(t, "release")
      /\ PageHeap!Free(c)
      /\ large_request' = large_request - c.size
      /\ Goto(t, Idle)
      /\ UNCHANGED <<slabs, slab_mutex, request, hold, held>>

\* DallocChunkWrapper, of a slab after the mutex of its class was released.
Release(t) ==
  LET c == ChunkAt(op[t].page)
  IN  /\ At(t, "release")
      /\ PageHeap!Free(c)
      /\ large_request' = IF region_size[c.base] = NonSlab
                          THEN large_request - c.size ELSE large_request
      /\ Goto(t, Idle)
      /\ UNCHANGED <<slabs, slab_mutex, request, hold, held>>

-----------------------------------------------------------------------------
(* Specification *)

Init ==
  /\ chunks = {}
  /\ region_size = [p \in Page |-> NonSlab]
  /\ bitmap = [p \in Page |-> {}]
  /\ nonempty_slab = [s \in Sind |-> <<>>]
  /\ empty_slab = [s \in Sind |-> <<>>]
  /\ slab_mutex = [s \in Sind |-> Nobody]
  /\ request = [s \in Sind |-> 0]
  /\ hold = [s \in Sind |-> 0]
  /\ large_request = 0
  /\ held = {}
  /\ op = [t \in Thread |-> Idle]

Lock(t) == AllocFromSlab(t) \/ LockForSlab(t) \/ ReturnRegion(t)
Run(t) == NewSlab(t) \/ NoSlab(t) \/ AllocFromNewSlab(t) \/ Release(t)

Next == \E t \in Thread :
  \/ \E s \in Sind : SmallAlloc(t, s)
  \/ LargeAlloc(t)
  \/ \E e \in held : Dalloc(t, e)
  \/ Lock(t) \/ Run(t)

Spec == Init /\ [][Next]_vars

\* A thread inside a call is scheduled, and gets a mutex it waits for if the
\* mutex is released again and again.
FairSpec == Spec /\ \A t \in Thread : WF_vars(Run(t)) /\ SF_vars(Lock(t))

-----------------------------------------------------------------------------
(* Properties *)

OpType == [step : {"idle", "alloc", "slab", "take", "free", "release"},
           sind : Sind \cup {NonSlab}, page : 0..NumPages, index : 0..NumCells]

TypeOK ==
  /\ chunks \subseteq PageExtent
  /\ region_size \in [Page -> Sind \cup {NonSlab}]
  /\ DOMAIN bitmap = Page /\ \A p \in Page : bitmap[p] \subseteq 0..(NumCells - 1)
  /\ DOMAIN nonempty_slab = Sind /\ DOMAIN empty_slab = Sind
  /\ \A s \in Sind : /\ Elements(nonempty_slab[s]) \subseteq Page
                     /\ Elements(empty_slab[s]) \subseteq Page
  /\ slab_mutex \in [Sind -> Thread \cup {Nobody}]
  /\ request \in [Sind -> Nat] /\ hold \in [Sind -> Nat] /\ large_request \in Nat
  /\ held \subseteq CellExtent
  /\ op \in [Thread -> OpType]

Releasing(p) == \E t \in Thread : At(t, "release") /\ op[t].page = p

Slabs(s) == { c \in chunks : region_size[c.base] = s /\ ~Releasing(c.base) }

\* The regions whose free is under way: no longer the caller's, not yet free.
Returning == { RegionAt(op[t].page, op[t].sind, op[t].index) :
                 t \in { u \in Thread : At(u, "free") } }

\* Each region of a slab is either free in the bitmap, or in the hands of one
\* caller, or being returned by one thread, and a slab on its way back to the
\* ChunkManager has none in use: whatever threads alloc and free, no region is
\* handed out twice, none is lost, none loses its slab.
RegionsPartition ==
  /\ TypeOK
  /\ \A s \in Sind : \A c \in Slabs(s) : \A i \in AllRegions(s) :
       i \in bitmap[c.base] <=> RegionAt(c.base, s, i) \notin held \cup Returning
  /\ \A e \in held \cup Returning : \E c \in chunks :
       /\ ~Releasing(c.base)
       /\ IF region_size[c.base] = NonSlab THEN e = LargeAt(c)
          ELSE \E i \in AllRegions(region_size[c.base]) :
                 e = RegionAt(c.base, region_size[c.base], i)
  /\ \A t, u \in Thread : t # u /\ At(t, "free") /\ At(u, "free") =>
       <<op[t].page, op[t].index>> # <<op[u].page, op[u].index>>

\* Each slab of a class is on exactly one of its two lists, once: the one that
\* tells whether the slab has a free region.  So the slab SmallAlloc takes
\* first has a region for it (its assertion -1 != index), and erase() is called
\* on the list the slab is on.
ListsExact ==
  \A s \in Sind :
    LET ne == nonempty_slab[s]
        em == empty_slab[s]
    IN  /\ Elements(ne) = { c.base : c \in { d \in Slabs(s) : bitmap[d.base] # {} } }
        /\ Elements(em) = { c.base : c \in { d \in Slabs(s) : bitmap[d.base] = {} } }
        /\ Cardinality(Elements(ne)) = Len(ne)
        /\ Cardinality(Elements(em)) = Len(em)

\* The statistics tell what is in use: request the regions callers hold, those
\* being returned included, hold the slabs, large_request the large chunks.
StatsExact ==
  LET inUse(s) == UNION { { RegionAt(c.base, s, i) : i \in AllRegions(s) \ bitmap[c.base] } :
                            c \in Slabs(s) }
      pages(C) == UNION { c.base..(c.base + c.size - 1) : c \in C }
  IN  /\ \A s \in Sind :
           /\ request[s] = Cardinality(inUse(s)) * RegionCells[s]
           /\ hold[s] = Cardinality(pages(Slabs(s)))
      /\ large_request =
           Cardinality(pages({ c \in chunks : region_size[c.base] = NonSlab }))

RegionHeap == INSTANCE ExtentHeap
  WITH Extent <- CellExtent,
       Span <- [e \in CellExtent |-> e.base..(e.base + e.size - 1)],
       live <- held

\* The regions and large chunks that callers hold never overlap, of whatever
\* classes and threads, and each allocation returns what nobody holds: on top
\* of the page heap, the arena is a heap of cells.
ImplementsRegionHeap ==
  /\ RegionHeap!Spec
  /\ [][\A t \in Thread : AllocFromSlab(t) \/ AllocFromNewSlab(t) =>
           \E e \in CellExtent : RegionHeap!Alloc(e)]_vars

\* Every call ends.
CallsEnd == \A t \in Thread : []<>At(t, "idle")
=============================================================================
