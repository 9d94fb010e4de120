---------------------------- MODULE ArenaOnPages ----------------------------
(***************************************************************************)
(* An Arena on top of its ChunkManager.  Arena.tla takes chunks from an    *)
(* abstract page heap, one step for each AllocChunkWrapper and             *)
(* DallocChunkWrapper; ChunkManager.tla splits those calls into the steps  *)
(* that the OS, the page map and the collector see.  Here both run         *)
(* together: threads meet at slab_mutex_[sind] and, inside its critical    *)
(* section or outside it, at mutex_, which is held until the call on the   *)
(* ChunkManager and the collection it may trigger are over.                *)
(*                                                                         *)
(* Left out: ~Arena and ~ChunkManager; other arenas (ChunkManager.tla has  *)
(* several).                                                               *)
(***************************************************************************)
EXTENDS Integers, FiniteSets, Sequences

CONSTANTS
  Thread, Nobody,                              \* see Arena
  Sind, NonSlab, RegionCells, SlabPages, LargePages, PageCells,
  NoArena, NumClasses, ClassSize, MaxEventTick, EpochLimit,  \* see ChunkManager
  NumPages,    \* bound: pages of address space
  MaxHeld,     \* bound: allocations in use or under way
  This         \* the arena

VARIABLES
  chunk, rtree, mapped, dirty, clean, epoch, tick,   \* see ChunkManager
  call,        \* op of ChunkManager: the call that mutex_ is held for
  region_size, bitmap, nonempty_slab, empty_slab,    \* see Arena
  slab_mutex, request, hold, large_request, held, op,
  mutex        \* mutex_: who holds it

pageVars == <<chunk, rtree, mapped, dirty, clean, epoch, tick, call>>
arenaVars == <<region_size, bitmap, nonempty_slab, empty_slab,
               slab_mutex, request, hold, large_request, held, op>>
vars == <<pageVars, arenaVars, mutex>>

C == INSTANCE ChunkManager
  WITH Arena <- {This},
       HugeSize <- { n \in LargePages : n > ClassSize[NumClasses - 1] },
       op <- call

A == INSTANCE Arena
  WITH MaxHeld <- MaxHeld + Cardinality(Thread), \* Room, below, is the bound
       MemoryFails <- TRUE,
       chunks <- C!Extents

\* Of finitely many threads; a slab is of a class of chunks (g_slab_sizes,
\* ge_page_classes), and so is what LargeAlloc asks for, rounded up by
\* sz_to_cs, unless it is above kStandardChunk.
ASSUME OnPagesAssumption ==
  /\ IsFiniteSet(Thread)
  /\ A!ArenaAssumption /\ C!SizeAssumption /\ C!CounterAssumption
  /\ \A s \in Sind : \E i \in C!Pind : SlabPages[s] = ClassSize[i]
  /\ \A n \in LargePages : n > C!StandardChunk \/ \E i \in C!Pind : n = ClassSize[i]

-----------------------------------------------------------------------------
(* Threads and mutex_ *)

InCall(t) == ~A!At(t, "idle") \/ mutex = t

Room == Cardinality(held) + Cardinality({ t \in Thread : InCall(t) }) < MaxHeld

\* Slip: the lock outlives a call that set off a collection.
UnlockKeptByGC(t) == mutex' = IF C!At(This, "idle")' /\ ~C!At(This, "gc") THEN Nobody ELSE t

\* lock_guard: mutex_ is released at the end of the wrapper, with all that the
\* ChunkManager does in the call behind it.
Unlock(t) == mutex' = IF C!At(This, "idle")' THEN Nobody ELSE t

\* The steps of Arena that stay outside the ChunkManager, by a thread that is
\* not in it.
Outside(t) == mutex # t /\ UNCHANGED <<pageVars, mutex>>

Enter(t) ==
  /\ Outside(t)
  /\ \/ Room /\ \E s \in Sind : A!SmallAlloc(t, s)
     \/ \E e \in held : A!Dalloc(t, e)

LockSlabs(t) == Outside(t) /\ A!Lock(t)

TakeFirst(t) == Outside(t) /\ A!AllocFromNewSlab(t)

-----------------------------------------------------------------------------
(* AllocChunkWrapper and DallocChunkWrapper *)

FromBins(n, slab) == C!AllocDirty(This, n, slab) \/ C!AllocClean(This, n, slab)

FromOS(t, n, slab) ==
  /\ C!MapNew(This, n, slab)
  /\ mutex' = t
  /\ UNCHANGED arenaVars

\* No free chunk serves n pages: it takes the OS, which may refuse.
OSMayRefuse(n) ==
  n <= C!StandardChunk =>
    \A bins \in {dirty[This], clean[This]} :
      C!FindSuitableChunk(bins, C!sz_to_pind(n)) = {}

\* SmallAlloc, slab_mutex_ locked, gets its slab; when there is none it returns.
NewSlab(t) ==
  LET n == SlabPages[op[t].sind]
  IN  /\ A!At(t, "slab") /\ mutex = Nobody
      /\ \/ FromBins(n, TRUE) /\ A!NewSlab(t) /\ Unlock(t)
         \/ FromOS(t, n, TRUE)
         \/ OSMayRefuse(n) /\ UNCHANGED <<pageVars, mutex>> /\ A!NoSlab(t)

LargeAlloc(t) ==
  /\ A!At(t, "idle") /\ mutex = Nobody /\ Room
  /\ \E n \in LargePages :
       \/ FromBins(n, FALSE) /\ A!LargeAlloc(t) /\ Unlock(t)
       \/ FromOS(t, n, FALSE)

Release(t) ==
  /\ A!At(t, "release") /\ mutex = Nobody
  /\ C!DallocToBin(This, op[t].page) \/ C!DallocHuge(This, op[t].page)
  /\ A!Release(t)
  /\ Unlock(t)

\* The holder of mutex_ goes on: its chunk is registered and given to Arena,
\* or unmapped; the collection runs.
Continue(t) ==
  /\ mutex = t
  /\ \/ /\ C!RegisterNew(This)
        /\ IF call[This].slab THEN A!NewSlab(t) ELSE A!LargeAlloc(t)
     \/ /\ C!UnmapHuge(This) \/ C!ReleaseStale(This) \/ C!EndGC(This)
        /\ UNCHANGED arenaVars
  /\ Unlock(t)

-----------------------------------------------------------------------------
(* Specification *)

Init == C!Init /\ A!Init /\ mutex = Nobody

Next == \E t \in Thread :
  \/ Enter(t) \/ LockSlabs(t) \/ TakeFirst(t)
  \/ NewSlab(t) \/ LargeAlloc(t) \/ Release(t) \/ Continue(t)

Spec == Init /\ [][Next]_vars

\* A thread that runs is scheduled; one that waits for a mutex gets it if the
\* mutex is released again and again.
FairSpec == Spec /\ \A t \in Thread :
  /\ WF_vars(TakeFirst(t) \/ Continue(t))
  /\ SF_vars(LockSlabs(t) \/ NewSlab(t) \/ Release(t))

-----------------------------------------------------------------------------
(* Properties *)

\* The chunk of a page, as free() gets it from the page map.
chunk_rtree(e) == rtree[((e.base - 1) \div PageCells) + 1]

\* Whatever was split, merged and made a slab of another class before, free()
\* of what a caller holds finds through the page map, by any page the pointer
\* may lie in, the chunk the memory is in, and is_slab() there tells whether
\* it is a region: what Arena!LookUp takes for granted.
LookUpFinds ==
  \A e \in held :
    LET c == A!LookUp(e)
    IN  /\ chunk_rtree(e) = c.base
        /\ chunk[c.base].slab <=> region_size[c.base] # NonSlab

\* The threads see an Arena on a page heap: what the ChunkManager does step by
\* step under mutex_ is, for slabs and large chunks, one step each.  So what the
\* callers hold, of slabs that span pages, too, is memory that nobody else has.
ImplementsArena == A!Spec /\ A!ImplementsRegionHeap

\* SmallAlloc has returned without a slab and left slab_mutex_ locked.
LeftLocked == \E s \in Sind, t \in Thread :
  slab_mutex[s] = t /\ ~(op[t].sind = s /\ op[t].step \in {"slab", "take"})

\* mutex_ is taken inside slab_mutex_ and never the other way round: unless a
\* refused slab leaves a slab_mutex_ locked, every call comes to an end, with
\* the collections it runs and those it waits for.
CallsEnd == <>LeftLocked \/ \A t \in Thread : []<>~InCall(t)
=============================================================================
