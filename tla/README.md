# A verification of ffmalloc

TLA+ models of the allocator in `src/src/`, the TLC runs that check them on small
instances, and TLAPS proofs for instances of any size: of the safety of each layer, from
links and words up to malloc and free, and of the heap that each layer implements.  `PROJECT.json` lists, for every definition, the lines of the source it
stands for, every run, every hazard, and for every property a *slip*: a plausible bug
(the operators commented `Slip:`) with which the property fails.

## 1. The system

ffmalloc is a malloc for many threads, built in layers. Each layer takes memory in
large units from the one below and hands it out in small ones.

```
 ff_malloc / ff_free / ff_realloc            (ffmalloc.cc)
        |
 ThreadAllocator, one per thread             (thread_alloc.h)     no lock
   CacheBin: a stack of regions per class
        |  SmallAlloc, SmallDalloc, LargeAlloc, LargeDalloc
 Arena, shared by some of the threads        (arena.cc)           slab_mutex_[], mutex_
   slabs: chunks cut into regions, a Bitmap each
        |  AllocChunk, DallocChunk                                under mutex_
 ChunkManager, one per arena                 (chunk.cc)
   chunks: runs of pages; split, merged, collected
        |  OSAllocMap, OSDallocMap, madvise          |  Insert, Delete, LookUp
 the OS (pages.cc)                           RadixTree: page -> Chunk, shared by all
```

Beside the layers: `Static` makes arenas and deals them out to new threads,
`BaseAllocator` and `RootAllocator` give ffmalloc the memory of its own objects,
`size.h` has the classes of sizes.

| Part | State | Operations | Meets others through | What is hard | What makes it correct |
|---|---|---|---|---|---|
| ChunkManager | Chunk objects, `dirty_chunk_`, `clean_chunk_` bins, `epoch_`, `event_tick_` | `AllocChunk`, `DallocChunk`, `TriggerGC`, `~ChunkManager` | the page map and the OS's address space, which all arenas share; `Arena::mutex_` above | splitting and merging keep chunks, bins and page map in step; an arena reads the map where another writes it; epochs of 8 bits wrap | chunks never overlap, tile what is mapped, are found by the right pages, are in the right bin; a chunk in use stays as it is; no arena touches another's |
| Arena | two slab lists and a mutex per class, slab bitmaps, statistics | `SmallAlloc`, `SmallDalloc`, `LargeAlloc`, `LargeDalloc`, `~Arena` | several threads at once; regions freed by any thread | state read before a lock and used after it; a slab due for both lists in one call; early returns | a region is free, held or on its way back; a slab is on one list; statistics add up; calls end |
| ThreadAllocator, CacheBin | a stack, `fill_count_`, `low_mark_` per class; `event_tick_`, `gc_index_` | `ThreadAlloc`, `ThreadDalloc`, `ThreadRealloc`, with `FillCaches`, `FlushCaches`, `GarbageCollect` | the arena; regions of other threads | batches that stop half-way; marks that must follow every pop; slots given back but not dropped yet | every block is in one place; batches fit; unused bins drain |
| RadixTree | three layers of nodes | `Insert`, `Delete`, `LookUp` | all threads, no lock | the race to add a node; lookups meanwhile | it is a map; no node is lost; a page that stays registered is found |
| Static | `arenas_`, `arena_index_`, `thread_alloc_` | a thread's first call; `Init` | all threads, no lock | the race to make an arena | no arena leaked, no thread on a deleted one |
| BaseAllocator | a free list per class; a header before each object | `New`, `Delete` | one mutex | headers and links lie next to objects in one memory, classes are no multiples of the alignment | nothing overlaps; a header always tells the object's class |
| Bitmap | `bits_`, `num_` | `init`, `set`, `any`, `all`, `ffs_and_reset` | under the arena's lock | the last word counts in part; a Chunk is a slab of many classes in turn | it is a set of indices |
| List | links in the elements, `size_` in the head | `push`, `pop`, `erase`, `first`, `empty` | under the lock of the list's owner | an element does not know its list; the collector erases from the list it walks | every list is a ring of just the elements that belong on it |
| Size classes | none: tables | `sz_to_ind`, `sz_to_cs`, `sz_to_pind`, `get_fit_pind`, ... | every layer | table and bit tricks must meet at each edge | least class that holds a size, greatest that a chunk can serve |
| C API, pages, logger, helpers, the table generator, tests | | | | | see section 7 |

## 2. The modules

| Module | Models | Composes |
|---|---|---|
| `ExtentHeap` | *abstract*: what each layer promises. `Alloc(e)` hands out an extent that overlaps nothing in use, `Free(e)` takes back one in use, and nothing else changes what is in use | |
| `PageMap` | *abstract*: a map in which `Insert` and `Delete` change one entry at once | |
| `ChunkManager` | `chunk.cc` for several arenas over one address space and page map | implements `ExtentHeap` over pages |
| `Arena` | `arena.cc`, threads over one arena | *uses* `ExtentHeap` over pages for its chunks; implements `ExtentHeap` over cells |
| `ArenaOnPages` | an arena with the locks and its own ChunkManager beneath | *composes* `Arena` and `ChunkManager`; implements `Arena` |
| `ThreadCache` | `thread_alloc.h`: malloc, free, realloc | *uses* `ExtentHeap` for the arenas; implements `ExtentHeap` over blocks |
| `RadixTree` | `radix_tree.h`, one access at a time | implements `PageMap` |
| `Static` | a thread's first call, `static.cc` | |
| `BaseAllocator` | `base_alloc.h`, word by word | implements `ExtentHeap` over words |
| `SizeClasses` | `size.h`, `size_classes.cc`, the real constants | |
| `List` | `list.h`: operators on the links | |
| `Bitmap` | `bitmap.h`: operators on the words | |
| `SlabBins` | the lists and bitmaps of an arena, through the lives of its Chunk objects | *composes* `List` and `Bitmap` |
| `MC...` | the values of constants, views and symmetries of the runs | |
| `ChunkManagerProofs`, `ArenaProofs`, `ArenaOnPagesProofs`, `ThreadCacheProofs`, `RadixTreeProofs`, `BaseAllocatorProofs`, `StaticProofs`, `SlabBinsProofs` | theorems about the module they are named for | |

So the stack is verified layer by layer, each step on small instances and by a proof:
`ChunkManager` is a heap of pages, which is all that `Arena` assumes of it; `Arena` is a heap of
regions, which is all that `ThreadCache` assumes; `ThreadCache` is a heap of blocks.  `ArenaOnPages`
is the seam between the first two, checked and proved, where
the layering itself could hide something: `Arena` takes an AllocChunkWrapper for one step, and
there it is the many steps of `ChunkManager`, a collection among them, under `mutex_`, met by
threads that hold a `slab_mutex_` and threads that hold none.  `SlabBins` is what both take
for granted below them, checked and proved: that links and words do what their sequences and sets
do. `ChunkManager` changes the page map in one step where
`RadixTree` shows that calls of several threads on a page map behave so, as long as no two
of them write one key, which is what `ChunkManager!PageMapExact` says of the keys.

### How state and actions correspond to the code

**ChunkManager.** Sizes and addresses count pages. A `Chunk` object is named by its first
page (a split leaves the object with the head, a merge keeps the head's), so `chunk[p]` is
the object at page `p`; `rtree[p]` is what `chunk_rtree()->LookUp(p)` returns. Calls hold
`Arena::mutex_` throughout, so one arena's steps are never interleaved with a second call on
it; they *are* interleaved with the other arenas'. A call is cut into steps where it meets
what arenas share and where it loops: `MapNew` and `RegisterNew` (`OSNewChunk`, then the map,
then `SplitChunk`), `DallocHuge` and `UnmapHuge` (off the map, then `munmap`), a step of
`TriggerGC` per chunk (`ReleaseStale`) and its end (`EndGC`), `DestroyNext` and `DestroyUnmap`.
`Event` is the last part of each call, never an action of its own. The order inside a bin is
abstracted: `pop` takes any chunk of the bin, a superset of what the code does. So is the order
in which the collector walks the bins. `mmap` finds room anywhere. A page map access is one step
(`RadixTree` opens it up), and so is the look at a neighbour before a merge (`chunk.cc:325-326`).
There the code reads fields of a Chunk that another arena may change, or delete, at that moment.
It acts on them only if the Chunk is its own arena's, which no other arena changes: that is the
property `ArenasApart`, which is proved. The memory of a deleted Chunk stays with the `base_alloc_`
of its arena, so it never comes to read as another's, and the two reads may count as one.

**Arena.** `SmallAlloc` is three or five steps: enter, then either `AllocFromSlab` in one
critical section, or `LockForSlab`, `NewSlab` (or `NoSlab`), `AllocFromNewSlab` with
`slab_mutex_` held over the call into the ChunkManager. `SmallDalloc` computes slab, class and
index before it locks (`Dalloc`), does its work in `ReturnRegion`, and gives a free slab to the
ChunkManager after it unlocked (`Release`). Lists are sequences in the code's order, a bitmap is
a set of indices (which `SlabBins` justifies). Region sizes are in cells, so that regions need
not divide a page. A large block that is freed keeps its pages until `Release`: its free and
the ChunkManager's call are two steps.

**ArenaOnPages.** Its variables are those of both modules; `chunks` of `Arena` is the set of chunks
in use of `ChunkManager`. A step is a step of `Arena` outside `mutex_` (`Enter`, `LockSlabs`,
`TakeFirst`), a step of both (a chunk is handed out or taken back), or a step of `ChunkManager` alone
by the thread that has `mutex_` (`Continue`: the OS, the page map, the collector). `Unlock` is the
`lock_guard`: `mutex_` is free again once the ChunkManager's call, and the collection behind it, is over.
A slab that takes the OS may be refused (`Arena!NoSlab`, with the lock that stays locked).
A thread that waits for `mutex_` with a large request has no state of its own: it is still outside.

**SlabBins.** The Chunk objects are linked, erased and linked again; what is scribbled over the links
of a chunk that the collector hands on is `Null`. A critical section of a list is one step; the walk of
`TriggerGC` goes on chunk by chunk while `SmallAlloc` and `SmallDalloc`, which need no `mutex_`, change
slabs and lists. The slabs have one size, so one dirty bin is enough; clean lists and merges are
`ChunkManager`'s affair. `AllocChunk` is what every other request does to that bin: it may take the first
chunk of it (to state `out`, where nothing is known of a chunk), and the tail of a split, of this bin or another, may
be pushed on it with the epoch of the whole. `epoch` and `epoch_` are the counters of the code, so
that each chunk is compared with its own epoch: a list has old chunks before young ones (tails),
young before old, and chunks of the last epoch before the wrap among them. `DirtyEpochs` are the epochs that
`ChunkManager!DirtyIsRecent` leaves to the chunks of other bins.

**ThreadCache.** A bin is a sequence with its top last. `op` keeps what the C++ stack keeps:
the turn a batch is at, the block that waits for a flush, realloc's old block. `FillOne` and
`FlushOne` are one turn of the loops, so that other threads act in between, and `Filled` may come
after any turn: the arena ran dry. The search of
`TriggerGC` for the next bin that exists is one step (`NextBin`); it ends because the thread has just used a bin. While a flush runs the regions it returned are still in `caches`,
as they are in the code.

**RadixTree.** `Descend`, `NewNode`, `Cas`, `ReturnNode`, `Write`, `Return` are one memory access
each, in program order. `seen` is a history variable for the property of lookups only.

**Static.** `Draw` (the atomic counter), `MakeArena`, `Cas`, `MakeAllocator`.

**BaseAllocator.** `header[p]` is the word before the object at `p`; `Nodes` is the arithmetic
of `AllocSmallNodes`.  Calls are one step: `Alloc` and `Dalloc` hold one mutex.

**SizeClasses** has no state but the size that the functions are asked about; **Bitmap** has
a word as the set of its bits that are 1, as the code does nothing to words but `&`, `|`, `~`,
`ffs` and shifts of a 1; **List** is the pointers of `list.h`.

## 3. The runs

All runs are exhaustive for their bounds. Deadlock is checked unless said otherwise.

| Run | Instance | Properties and what they show |
|---|---|---|
| `chunk_two_arenas` | 2 arenas, 4 pages, classes of 1 and 2 pages, huge ones of 3 | `ChunksDisjoint`, `MappedIsTiled`, `PageMapExact`, `BinsExact`, `LiveChunkStable`, `ArenasApart`, `ImplementsPageHeap`: arenas that take over the pages the other just unmapped, next to its chunks, never disturb each other |
| `chunk_one_arena` | 1 arena, 6 pages, classes of 1, 3 and 4 pages | `CleanCoalesced`, `DirtyIsRecent`, `CallsEnd`: chunks of sizes between two classes, epochs that wrap, the collector's loop comes to its end |
| `arena_three_threads` | 3 threads, 2 classes, 3 pages, the OS may refuse memory | `RegionsPartition`, `ListsExact`, `StatsExact`, `ImplementsRegionHeap`: regions are conserved while slabs change hands between the critical sections |
| `arena_on_pages` | 2 threads, 5 pages, slabs of 3 pages with 2 regions of 1 1/2 pages, slabs of a page, large and huge chunks | `LookUpFinds`, `ImplementsArena`, `CallsEnd`: the two layers together are what each takes the other for; free finds its chunk from an inner page; no deadlock, no starvation |
| `arena_out_of_memory` | as the first, `MemoryFails` | **expected to fail**: see the finding below |
| `cache_one_class` | 2 threads, 1 class of 5 regions, bins of 4, 1 large block | `BlocksAccounted`, `BatchesFit`, `LowMarkIsIdle`, `ImplementsMallocHeap`, `TypeOK` |
| `cache_progress` | 1 thread, 2 classes, bins of 3 | `CallsEnd`, `UnusedBinDrains` |
| `page_map_races` | 3 threads, 3 pages that share inner nodes | `NodesAccounted`, `LookUpSees`, `ImplementsPageMap` |
| `static_four_threads` | 4 threads, 3 arenas | `ArenasAccounted` |
| `base_two_classes` | classes of 80 and 96 bytes, large objects, 7 pages | `MemoryApart`, `ListsExact`, `MappedExact`, `ImplementsObjectHeap` |
| `sizes_all` | the real tables; all sizes to 21000, then every edge | `LeastClass`, `FitIsGreatest`, `PathsAgree`, `RoundingIsTight` |
| `slab_bins` | 3 chunks, 3 classes of 1, 2 and 3 regions, bitmaps of 3 words of 2 bits, 3 epochs | `RingsExact`, `AnyAndAllExact`, `StepsExact`, `WalkMeetsAll`: pointers and words do what sequences and sets do elsewhere; the collector goes through the list it takes apart chunk by chunk, and releases just the old ones |

### The bounds, and why they are enough

* **Chunks.** With two classes and four pages a chunk can be cut, be joined on the left, the
  right and both sides, be larger than every class after joining two mappings, and lie next to
  another arena's. `chunk_one_arena` adds what needs sizes between two classes. That nothing depends
  on these numbers is proved (section 5) for all but liveness. With `MaxEventTick = 1` every second call of an
  arena collects, so that chunks pile up between collections; with `EpochLimit = 3` epochs wrap
  after six calls. `VIEW View` in `chunk_two_arenas` leaves out the epoch of a chunk that
  is not dirty and the slab flag of one that is not in use: both are written before they are read
  again, so what is left out affects neither a later step nor a property. Arenas are symmetric.
* **Arena.** Three threads are as many as may be in the three places at once where a slab changes
  hands (taking from it, returning to it, releasing it). A slab with two regions is full, partly
  free and free; one with a single region is both at once, so a call moves it between two lists
  and off. `MaxHeld` bounds the blocks in use and under way.
* **ArenaOnPages.** Five pages are one standard chunk of 3 and another beside it, or one huge chunk
  of 4, so that slabs are cut from what was large and the reverse, chunks of 2 pages arise between
  the classes, and memory runs out. The second region of a wide slab begins on its inner page, which
  only `RegisterRtreeInterior` registers. Indices are divisions with a rest.
* **SlabBins.** With two bits to a word the classes have part of a word, a whole word, and a word and a
  part; there are words that never count. Three chunks are a first, a middle and a last on a ring,
  and old, young and old in this order. With `EpochLimit = 3` there is an epoch whose chunks become old, and
  the last, whose chunks never do. `VIEW View` leaves out what is written before it is read: the
  links of a chunk that is on no list, the epoch of one that is not dirty, class and bitmap of one that is no
  slab. Chunks are symmetric.
* **ThreadCache.** A bin of 4 is filled by 1, 2 and 3 regions, overflows with the fifth, and
  flushes 3 of them. `Region` bounds the arena, which so runs dry at any point. `MaxEventTick = 1` makes
  every second call collect.
* **RadixTree.** Two of the pages share both inner nodes and the third shares one: the race for a
  node occurs on each layer. Nodes and threads are symmetric. `Node` has as many as the tree and
  two losers need.
* **Sizes.** The functions are piecewise, with the pieces between the edges of classes; the run
  visits each edge and its neighbours up to 6 MB, and all sizes where the table is used.

`CHECK_DEADLOCK FALSE` is there where the system really may stop: every arena destroyed
(`chunk_*`), all threads started (`static_four_threads`), the last size visited (`sizes_all`),
and every thread waiting for the mutex that the finding leaves locked (`arena_three_threads`,
`arena_out_of_memory`, `arena_on_pages`). Callers are free to stop calling in all of them.

### Fairness

No fairness is assumed of callers: no one has to call, nor to free. A thread *inside* a call
keeps running (`WF` on the steps of a call): the calls never wait for another thread but at a
mutex. For a mutex, `Arena!FairSpec` assumes that a thread gets it if it is free again and
again (`SF_vars(Lock(t))`), which a `std::mutex` on a fair scheduler gives and without which no
code that locks ever ends for certain. `ArenaOnPages!FairSpec` assumes the same of both mutexes.
Its `CallsEnd` excepts the behaviours in which a refused slab has left a `slab_mutex_` locked, the
finding below; in all others `mutex_` inside `slab_mutex_`, with a collection under it, keeps nobody
out for ever. `UnusedBinDrains` speaks of a thread that goes on calling and
states that in its own premises. Liveness needs the loops to end: the collector's because each turn takes a
chunk off the dirty bins (in memory it goes from each chunk to the next of a list that only loses
chunks: `SlabBins!WalkMeetsAll`), the flush's by its count.

### The finding

`arena.cc:24` locks `slab_mutex_[sind]`, and line 31 returns `nullptr` without unlocking it when
AllocChunkWrapper has no memory for a slab. The caller counts on going on
(`thread_alloc.h:142-145` logs "fill caches failed" and returns nullptr). The run
`arena_out_of_memory` finds that the next malloc or free of that class in any thread of the arena
never ends, though memory be available again. Safety is not affected (`arena_three_threads`
checks it with `MemoryFails`), so the model keeps the code as it is.

## 4. Properties worth a remark

* `BinsExact` does not repeat `get_fit_pind`: it says that the bin is the one of the largest class
  the chunk is large enough for, by the sizes alone. `DallocChunk` uses `sz_to_pind` and the
  collector `get_fit_pind`; that both come to this bin is a part of the proof (`ClassPind`).
  With the real tables a chunk size is never one of the classes 5120, 6144, 7168, 10240 and
  14336, which are no whole pages; `SizeClasses!FitIsGreatest` covers them all the same.
  The bin with index `kNumGePageClasses` is never used, as no binned chunk is above its class.
* `DirtyIsRecent` has an exception that the code makes: `epoch_` goes back to 0 after 254, and a
  chunk dirtied in epoch 254 never has `epoch < epoch_`. It stays dirty until it is used or
  destroyed. It costs memory, nothing else.
* `LookUpSees` is linearizability of lookups: they return what their key was mapped to at some
  moment of the call, so `free` finds the chunk of any block in use, whatever else is inserted.
* `BlocksAccounted` counts slots above those a flush has given back; with the slots below, the same
  region may be in a bin and in use elsewhere, which is why nothing may pop until `memmove` is done.

## 5. What is proved

Each proof is of one shape. An invariant that the runs check is seldom inductive; the proof module
states one that is, `IInv`, proves that it holds of `Init` and is kept by every action
(`Inductive`), one lemma to an action, and derives the checked invariants, in the form in which
they are checked, and the action properties and refinements from it. No theorem has a
hypothesis beyond the `ASSUME`s of its module, which TLC evaluates in every run of that module.

### The page heap: `ChunkManagerProofs`

For any set of arenas, any number of pages, any table of classes that satisfies
`SizeAssumption` (strictly growing, beginning with one page; `SizeClasses` checks the real tables)
and any `MaxEventTick`, `EpochLimit` (`CounterAssumption`):

| Theorem | |
|---|---|
| `TypeCorrect` | `Spec => []TypeOK` |
| `ChunksAlwaysDisjoint` | `Spec => []ChunksDisjoint` |
| `MappedAlwaysTiled` | `Spec => []MappedIsTiled` |
| `PageMapAlwaysExact` | `Spec => []PageMapExact` |
| `BinsAlwaysExact` | `Spec => []BinsExact` |
| `ArenasAlwaysApart` | `Spec => ArenasApart` |
| `LiveChunksAlwaysStable` | `Spec => LiveChunkStable` |
| `PageHeapImplemented` | `Spec => ImplementsPageHeap`: the refinement of `ExtentHeap` |
| `CleanAlwaysCoalesced` | `Spec => []CleanCoalesced` |
| `DirtyAlwaysRecent` | `Spec => []DirtyIsRecent` |

They follow from one inductive invariant, `IInv` (`Inductive`). None of the invariants is inductive
alone. A merge trusts the page map, so it keeps chunks apart only because the map is exact.
Cutting and joining keep the map exact only because chunks are apart (an entry that one
call removes is no other chunk's). First fit finds a chunk that is large enough only because the
bins are exact. And a chunk off the map and in no bin must belong to the one call
that has it (`CallsOwnChunk`), or two arenas could unmap it. `IInv` states disjointness as
"every page is covered by at most one chunk", and the bins by `get_fit_pind` (`BinsMatch`), as these
are the forms the steps need; the theorems derive the forms that are checked.

The proof follows the code: lemmas on classes (`FitPind`, `ClassPind`, from `LeastElement` by
well-foundedness, as `CHOOSE` needs a least element to exist); lemmas on what cutting a chunk does to
layout, map and bins, used by the three paths of `AllocChunk`; one lemma an action; lemmas on
joining, used twice by `PushCleanChunk`, on the left and then on the right.

Three theorems are about steps, and share one lemma (`StepTouches`): a step of an arena
touches only free chunks of that arena and makes at most one of them a chunk in use, or it is
DallocChunk and touches the one it frees. It needs `IInv` throughout: that what was cut off had no
chunk in its place, that new memory is where no chunk is, that a neighbour taken from the map is
free and of this arena. That a chunk left alone is also *found* as before (`FoundAlike`) follows
from the map being exact before and after the step. For the refinement, the chunk handed out is
apart from those in use because chunks are apart in the state after.

The last two are about what the collector is for, and have an invariant of their own on top
(`CollectedIInv`). Clean chunks stay apart when one is cut because what is left of it has the
neighbour on the right that the whole had and the chunk handed out on the left; they stay apart when
one becomes clean because, the map being exact, the look at both sides finds every clean chunk of the
arena that touches it. Dirty chunks are recent because `EndGC`, the only step that changes the epoch,
is taken when no stale one is left. The induction needs that said of chunks a call has in hand as
well (`EveryDirtyIsRecent`).

### The arena: `ArenaProofs`

For any threads, any classes with any sizes of regions and slabs that satisfy `ArenaAssumption`, any
number of pages, with memory that may be refused: `TypeCorrect`, `RegionsAlwaysPartition`,
`ListsAlwaysExact`, `StatsAlwaysExact` and `RegionHeapImplemented` (the refinement of
`ExtentHeap` over cells). `IInv` has nine parts, each needed by another:

* a bitmap has just the regions that are neither in use nor being returned (`BitmapsExact`), so
  that the region `ffs` finds is nobody's;
* the slab lists are exact and have no slab twice (`ListsOK`), so that the first slab of the list
  has such a region, and erasing a slab takes it off for good;
* no two threads return one region or release one chunk (`Exclusive`), and what a thread
  computed before it locked still holds after (`CallsShaped`): that the slab is there, that the slab a
  thread made while it held `slab_mutex_` is on the list;
* whatever is in use lies in a chunk nobody releases (`HeldPlaced`): a slab is released when its
  bitmap is full, and a region in use or under way would be missing from it;
* chunks are apart (`ChunksApart`) and slabs have the size of their class (`SlabsFit`): the
  arithmetic by which two regions, of one slab or of two, share no cell, and by which `index` undoes
  the multiplication of `SmallAlloc`, though regions do not divide a page;
* the statistics are sums over finite sets (`StatsOK`), counted up and down with the sets.

### The arena on its page heap: `ArenaOnPagesProofs`

For any finite set of threads and any numbers of pages and classes that satisfy
`OnPagesAssumption` (the assumptions of the two levels, and that the sizes Arena asks for are
classes of the ChunkManager, or huge):

| Theorem | |
|---|---|
| `LookUpAlwaysFinds` | `Spec => []LookUpFinds` |
| `ArenaImplemented` | `Spec => ImplementsArena`: a refinement of `Arena`, and so of `ExtentHeap` over cells |

The proof uses the lemmas of `ChunkManagerProofs` and `ArenaProofs`, instantiated as the model
instantiates their modules, instead of going through the steps once more. The invariants of both levels
are kept together, as neither could be kept without the other. ChunkManager's needs Arena to give
back only chunks that are in use; Arena's needs the ChunkManager to leave those alone while it maps,
unmaps and collects between two steps of other threads. `EveryStep` says which it is: a step of the
whole is a step of both levels, or of one of them that leaves alone what the other has. What is new is
where the levels meet: a chunk in use is marked as a slab just when Arena has it as one
(`SlabsMarked`). `LookUpFinds` then follows from `PageMapExact` below (the ends of every chunk are
registered, and the inner pages of slabs) and `HeldPlaced` above (what is held lies in such a chunk: a
large one begins where its chunk does, a region may begin on any page of its slab).

### The thread caches: `ThreadCacheProofs`

For any threads, classes, blocks and capacity that satisfy the module's assumptions:
`TypeCorrect`, `BatchesAlwaysFit`, `BlocksAlwaysAccounted`, `LowMarkAlwaysIdle`,
`MallocHeapImplemented` (the refinement of `ExtentHeap` over blocks). `BlocksAccounted` counts;
the proof instead follows one block: `PlacedOnce(b)` says that `b` is in exactly one of the places
a block may be in if an arena has handed it out, and in none otherwise, and each step moves at most
two blocks between places. A place in a bin is a slot no flush has passed, so this needs
`BatchesFit`, that slots differ (`BinDistinct`), and what a call has in hand (`CallShape`).

### The page map: `RadixTreeProofs`

For any threads, nodes and keys: `NodesAlwaysAccounted`, `LookUpAlwaysSees` and
`PageMapImplemented` (the refinement of `PageMap`). What makes the writes without locks safe is
that the tree is a tree: a node is reached by one path (`Paths`), a node that a thread is about to
add is empty and in nobody else's hands (`FreshNode`), and every call is at the node its depth says,
on the path of its key (`Position`). So a compare-and-swap that succeeds changes the value of no key,
and a write that of its own.

### ffmalloc's own objects: `BaseAllocatorProofs`

For any cache line and page size, any table of classes that satisfies `BaseAssumption`:
`TypeCorrect`, `MemoryAlwaysApart`, `ListsAlwaysExact`, `MappedAlwaysExact`, `ObjectHeapImplemented`. The
invariant gives
every node the words it *owns* (`Owns`, `NodesOK`): a node of a slab its header and its class's
size less a cache line behind it, as rounding up may have moved it that far; a large object its
whole mapping. That the nodes of a slab own different words is arithmetic (`NodesApart`), that a
new mapping meets none is `Unmapped`, and headers, links and objects lie inside what their node owns.
`BaseAssumption` says what is used of the real table: a class above a cache line is above it by
at least two words, so that links fit beside what aligning may skip.  That is so for the classes of
`size_classes.cc` (64, then 80 bytes). What is unmapped by `Dalloc` is what the node owns, so no
other header is lost.

`MappedExact` counts: the words mapped are the sum, over the classes, of the words their headers stand
for. Every step leaves nodes and mappings alone, or brings nodes of one class and
just as many words, or takes such away (`StepCounts`): so one number of the sum changes, by as much as
`mapped` does. The sum is a recursive function of the number of classes; that the invariant's sums are
that function needs no induction schema, as two sums that differ do so at some least class
(`LeastElement`).

### Links and words: `SlabBinsProofs`

For any number of chunks, any classes, any size of words and any bitmap with room for the regions of
a slab (`SlabAssumption`):

| Theorem | |
|---|---|
| `RingsAlwaysExact` | `Spec => []RingsExact` |
| `AnyAndAllAlwaysExact` | `Spec => []AnyAndAllExact` |
| `StepsAlwaysExact` | `Spec => StepsExact`: what `Arena` says with sequences and sets |
| `WalkAlwaysMeetsAll` | `Spec => WalkMeetsAll` |

*Words.* A region is a word and a bit of it, and regions are in the order of these pairs (`Split`,
`Join`, `InOrder`), so that the first bit of the first word is the least free region. `all()` compares
words, and so is right only if the bits of the last word that do not count are 0 (`BitmapOK`). `init`
sees to that and `set` and `reset` keep it, as they are called for regions of the slab. `any()` needs
it too.

*Links.* `Rings(l, Q)` says that the links `l` are, for each list head `h`, a ring of the
sequence `Q[h]`, and that no chunk is in two places. Then `push` and `erase` do to the links what
they do to the sequences, and no other ring is touched (`Pushed`, `Erased`). `erase` needs the
chunk to be on *that* list, as it takes the size from there, and `push` needs it to be on none.
`Forgotten` lets the collector overwrite the links of a chunk it hands on. The lists that the
properties speak of are found by following `next`, a recursive function; that they are the sequences
of `Rings` goes by the least position at which they would differ (`NthIs`, `SeqIs`).

*Both.* `Home(c)` is the list a chunk belongs on, by its state, its class and its bitmap: the
invariant says that each chunk is there and nowhere else (`AtHome`). So neither half can be proved
alone: whether `erase` is called on the right list depends on the bits. A step changes what is known
of one chunk and moves that one to its new home (`Moved`, `Settled`); where AllocChunk cuts a
chunk, of a second, the tail (`Grown`, `HomeBut`).

*The walk.* `Walking` has the collector at a position of the dirty list with no old chunk before it;
nothing is said, or true, of the order of old and young.
It survives the step that erases the chunk at that position because the next one was read before,
and the steps of other threads because, while a collection runs, nothing is taken off or put
on the dirty list by anyone else.

### The start of a thread

`StaticProofs`, for any threads, arenas and counter limit (`StaticAssumption`): `TypeCorrect` and
`AccountedAlways` (`Spec => []ArenasAccounted`).

Several modules need a least element of a set of naturals, where the code takes the first of
something or a recursive function is followed. It is the lemma `LeastElement` of each, from the
well-foundedness of `<` on the naturals; an induction schema is not needed.

`TypeOK` is checked by a run in `ThreadCache` only; elsewhere the proof makes that superfluous.

### Only model-checked

* Liveness (`CallsEnd`, `UnusedBinDrains`) and everything that rests on fairness: out of the prover's reach.
* `SizeClasses` (`LeastClass`, `FitIsGreatest`, `PathsAgree`, `RoundingIsTight`): the tables have
  their real values and the only parameters are the bounds of the run. That sizes between the edges of
  classes behave as those at the edges, above `Dense`, is an argument from the form of the functions
  (section 3), not a theorem.

## 6. The plan

Order of work, the most important behaviour first:

1. *(done)* `ChunkManager`, its invariants, the abstract `ExtentHeap`, and the proofs of the invariants.
2. *(done)* `Arena`, `ThreadCache` on top of it; `RadixTree` beside it; `Static` with proofs;
   `BaseAllocator`, `SizeClasses`, `Bitmap`.
3. *(done)* The seams: `ArenaOnPages` over `Arena` and `ChunkManager`; `SlabBins` over `List` and
   `Bitmap`; what arenas keep apart; the refinement of `ExtentHeap` by `ChunkManager`, proved.
4. *(done)* Proofs of every safety property and refinement that the runs check of `ChunkManager`,
   `Arena`, `ArenaOnPages`, `ThreadCache`, `RadixTree`, `Static`, `BaseAllocator`, and of `SlabBins`
   over `List` and `Bitmap`.
   Next: shorter proofs where lemmas are alike in several modules; theorems on single steps that
   no run states, such as that a collection shrinks nothing but dirty chunks.
5. Models that may come: the statistics of `ChunkManager` and `ThreadAllocator`, `~Arena`.

## 7. Not modelled, and why

* **Failures the code does not survive**: `New<Chunk>` without memory (`chunk.cc:234`, read
  unchecked), `NewPermanent` without memory (`radix_tree.h:49`), `munmap` and `madvise` that fail
  (abort). What follows is undefined or the end. A failing `mmap` in AllocChunk changes nothing in
  the ChunkManager; its effect is modelled above, in `Arena` and `ThreadCache`.
* **Statistics** of ChunkManager and ThreadAllocator: only the helpers print them. The
  hazards list where they look wrong.
* **Weak memory**: accesses are in program order. The code publishes nodes and arenas with a
  compare-and-swap and reads them with plain loads.
* **`Init`, `~ThreadAllocator`, the end of a thread**: the first runs before there are threads, the
  second is called by nothing when a thread ends.
* **`~Arena`**: it runs for an arena that no thread has seen (the loser of `Static::next_arena`, all
  lists empty); the destructor below it, `~ChunkManager`, is modelled with chunks left.
* **calloc's** multiplication and memset, the malloc zone of macOS; `size_classes.py` (its tables
  are checked instead); the logger, `BaseStlAllocator`, the helpers, the tests.
