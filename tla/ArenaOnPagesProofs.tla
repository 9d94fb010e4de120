------------------------- MODULE ArenaOnPagesProofs -------------------------
(***************************************************************************)
(* Proofs about the arena on its ChunkManager, for any number of threads,  *)
(* pages and classes: that free() finds the chunk of what a caller holds,  *)
(* by whatever page the pointer is in, and that the two together implement *)
(* the arena of Arena.tla, and with it a heap of cells.                    *)
(*                                                                         *)
(* The two levels need each other: Arena hands the ChunkManager sizes that *)
(* are classes and chunks that are in use, and the ChunkManager moves no   *)
(* chunk that Arena has, while it maps, unmaps and collects.  So their     *)
(* invariants are kept together (IInv), each by the lemmas of its own      *)
(* module, once a step of the whole is shown to be a step of each or to    *)
(* leave it alone (EveryStep).  What is new is where they meet: a chunk in *)
(* use is marked as a slab just when Arena uses it as one (SlabsMarked).   *)
(***************************************************************************)
EXTENDS ArenaOnPages, FiniteSetTheorems, TLAPS

\* What is proved of the two levels, of this arena and of its chunks.
CP == INSTANCE ChunkManagerProofs
  WITH Arena <- {This},
       HugeSize <- { n \in LargePages : n > ClassSize[NumClasses - 1] },
       op <- call

AP == INSTANCE ArenaProofs
  WITH MaxHeld <- MaxHeld + Cardinality(Thread),
       MemoryFails <- TRUE,
       chunks <- C!Extents

-----------------------------------------------------------------------------
(* Numbers *)

\* Multiplying by a size that is a constant of the model: the provers need it
\* said of plain numbers.
LEMMA Scaled ==
  ASSUME NEW a \in Nat, NEW b \in Nat, NEW k \in Nat
  PROVE  /\ a * k \in Nat /\ (a + b) * k = a * k + b * k /\ (a + 1) * k = a * k + k
         /\ a <= b => a * k <= b * k
         /\ k > 0 => a <= a * k /\ (a * k) \div k = a
OBVIOUS

\* A number is its quotient and its rest.
LEMMA Divided ==
  ASSUME NEW n \in Nat, NEW k \in Nat \ {0}
  PROVE  /\ n \div k \in Nat /\ n % k \in Nat
         /\ n = (n \div k) * k + (n % k) /\ n % k < k
OBVIOUS

-----------------------------------------------------------------------------
(* C and CP, A and AP define the same: Arena and ChunkManager as the model      *)
(* instantiates them, and as the modules of their proofs do.                    *)

LEMMA PageAssumptions == CP!SizeAssumption /\ CP!CounterAssumption
<1>1. C!StandardChunk = CP!StandardChunk /\ C!Pind = CP!Pind
  BY DEF C!StandardChunk, CP!StandardChunk, C!Pind, CP!Pind
<1> QED BY <1>1, OnPagesAssumption
        DEF C!SizeAssumption, CP!SizeAssumption, C!CounterAssumption, CP!CounterAssumption

LEMMA ArenaAssumptions == AP!ArenaAssumption
<1>1. Cardinality(Thread) \in Nat BY OnPagesAssumption, FS_CardinalityType
<1>2. \A s \in Sind : A!SlabRegions(s) = AP!SlabRegions(s) BY DEF A!SlabRegions, AP!SlabRegions
<1> QED BY <1>1, <1>2, OnPagesAssumption DEF A!ArenaAssumption, AP!ArenaAssumption

LEMMA SameSets ==
  /\ C!Page = CP!Page /\ C!Pind = CP!Pind /\ C!Probe = CP!Probe /\ C!NoPage = CP!NoPage
  /\ C!StandardChunk = CP!StandardChunk /\ C!Extents = CP!Extents
  /\ A!Page = AP!Page /\ A!PageExtent = AP!PageExtent /\ A!CellExtent = AP!CellExtent
BY DEF C!Page, CP!Page, C!Pind, CP!Pind, C!Probe, CP!Probe, C!NoPage, CP!NoPage,
   C!StandardChunk, CP!StandardChunk, C!Extents, CP!Extents,
   A!Page, AP!Page, A!PageExtent, AP!PageExtent, A!CellExtent, AP!CellExtent,
   A!NumCells, AP!NumCells

LEMMA SamePageInit == C!Init => CP!Init
BY SameSets DEF C!Init, CP!Init, C!NoChunk, CP!NoChunk, C!NoBins, CP!NoBins, C!Idle, CP!Idle

LEMMA SamePageHelpers ==
  /\ \A n : C!sz_to_pind(n) = CP!sz_to_pind(n) /\ C!get_fit_pind(n) = CP!get_fit_pind(n)
  /\ \A bins, i : C!FindSuitableChunk(bins, i) = CP!FindSuitableChunk(bins, i)
  /\ \A bins, c, size, n : C!Rebin(bins, c, size, n) = CP!Rebin(bins, c, size, n)
  /\ \A rt, ps, c : C!Insert(rt, ps, c) = CP!Insert(rt, ps, c) /\ C!Delete(rt, ps) = CP!Delete(rt, ps)
  /\ \A c, n : C!Ends(c, n) = CP!Ends(c, n) /\ C!Interior(c, n) = CP!Interior(c, n)
<1> USE SameSets
<1>1. \A n : C!sz_to_pind(n) = CP!sz_to_pind(n) BY DEF C!sz_to_pind, CP!sz_to_pind
<1>2. \A n : C!get_fit_pind(n) = CP!get_fit_pind(n) BY <1>1 DEF C!get_fit_pind, CP!get_fit_pind
<1>3. \A bins, i : C!FindSuitableChunk(bins, i) = CP!FindSuitableChunk(bins, i)
  BY DEF C!FindSuitableChunk, CP!FindSuitableChunk
<1>4. \A bins, c, size, n : C!Rebin(bins, c, size, n) = CP!Rebin(bins, c, size, n)
  <2>1. \A bins, c : C!Pop(bins, c) = CP!Pop(bins, c) BY DEF C!Pop, CP!Pop
  <2>2. \A bins, i, c : C!Push(bins, i, c) = CP!Push(bins, i, c) BY DEF C!Push, CP!Push
  <2> QED BY <1>2, <2>1, <2>2 DEF C!Rebin, CP!Rebin
<1>5. \A rt, ps, c : C!Insert(rt, ps, c) = CP!Insert(rt, ps, c) BY DEF C!Insert, CP!Insert
<1>6. \A rt, ps : C!Delete(rt, ps) = CP!Delete(rt, ps) BY <1>5 DEF C!Delete, CP!Delete
<1>7. \A c, n : C!Ends(c, n) = CP!Ends(c, n) /\ C!Interior(c, n) = CP!Interior(c, n)
  BY DEF C!Ends, CP!Ends, C!Interior, CP!Interior
<1> QED BY <1>1, <1>2, <1>3, <1>4, <1>5, <1>6, <1>7

LEMMA SamePageParts ==
  /\ \A a, c, rt, n, slab : C!HandOut(a, c, rt, n, slab) => CP!HandOut(a, c, rt, n, slab)
  /\ \A a, step : C!At(a, step) <=> CP!At(a, step)
  /\ \A a : C!Event(a) => CP!Event(a)
  /\ \A a, step : C!Goto(a, step) => CP!Goto(a, step)
  /\ \A c : C!WithoutInterior(c) = CP!WithoutInterior(c)
<1> USE SameSets, SamePageHelpers
<1>1. \A rt, c, w, n : C!SplitRtree(rt, c, w, n) = CP!SplitRtree(rt, c, w, n)
  BY DEF C!SplitRtree, CP!SplitRtree
<1>2. \A a, c, rt, n, slab : C!HandOut(a, c, rt, n, slab) => CP!HandOut(a, c, rt, n, slab)
  BY <1>1 DEF C!HandOut, CP!HandOut
<1>3. \A a, step : C!At(a, step) <=> CP!At(a, step) BY DEF C!At, CP!At
<1>4. \A a, step : C!Goto(a, step) => CP!Goto(a, step)
  BY DEF C!Goto, CP!Goto, C!Idle, CP!Idle
<1>5. \A a : C!Event(a) => CP!Event(a) BY <1>4 DEF C!Event, CP!Event
<1>6. \A c : C!WithoutInterior(c) = CP!WithoutInterior(c)
  BY DEF C!WithoutInterior, CP!WithoutInterior
<1> QED BY <1>2, <1>3, <1>4, <1>5, <1>6

LEMMA SamePageCalls ==
  /\ \A n, slab : C!AllocDirty(This, n, slab) => CP!AllocDirty(This, n, slab)
  /\ \A n, slab : C!AllocClean(This, n, slab) => CP!AllocClean(This, n, slab)
  /\ \A n, slab : C!MapNew(This, n, slab) => CP!MapNew(This, n, slab)
  /\ \A c : C!DallocToBin(This, c) => CP!DallocToBin(This, c)
  /\ \A c : C!DallocHuge(This, c) => CP!DallocHuge(This, c)
<1> USE SameSets, SamePageHelpers, SamePageParts
<1>1. \A n, slab : C!AllocDirty(This, n, slab) => CP!AllocDirty(This, n, slab)
  BY DEF C!AllocDirty, CP!AllocDirty
<1>2. \A n, slab : C!AllocClean(This, n, slab) => CP!AllocClean(This, n, slab)
  BY DEF C!AllocClean, CP!AllocClean
<1>3. \A n, slab : C!MapNew(This, n, slab) => CP!MapNew(This, n, slab)
  BY DEF C!MapNew, CP!MapNew
<1>4. \A c : C!DallocToBin(This, c) => CP!DallocToBin(This, c)
  BY DEF C!DallocToBin, CP!DallocToBin, C!Push, CP!Push
<1>5. \A c : C!DallocHuge(This, c) => CP!DallocHuge(This, c)
  BY DEF C!DallocHuge, CP!DallocHuge, C!Idle, CP!Idle
<1> QED BY <1>1, <1>2, <1>3, <1>4, <1>5

LEMMA SamePageSteps ==
  /\ C!RegisterNew(This) => CP!RegisterNew(This)
  /\ C!UnmapHuge(This) => CP!UnmapHuge(This)
  /\ C!ReleaseStale(This) => CP!ReleaseStale(This)
  /\ C!EndGC(This) => CP!EndGC(This)
<1> USE SameSets, SamePageHelpers, SamePageParts
<1>1. C!RegisterNew(This) => CP!RegisterNew(This) BY DEF C!RegisterNew, CP!RegisterNew
<1>2. C!UnmapHuge(This) => CP!UnmapHuge(This)
  BY DEF C!UnmapHuge, CP!UnmapHuge, C!Unmap, CP!Unmap, C!Pages, CP!Pages, C!NoChunk, CP!NoChunk
<1>3. \A a, p : C!CleanAt(a, p) = CP!CleanAt(a, p) BY DEF C!CleanAt, CP!CleanAt
<1>4. \A a : C!Stale(a) = CP!Stale(a) BY DEF C!Stale, CP!Stale
<1>5. \A a, c, p, n : C!PushCleanChunk(a, c, p, n) => CP!PushCleanChunk(a, c, p, n)
  <2>1. \A rt, h, hn, t, tn : C!MergeRtree(rt, h, hn, t, tn) = CP!MergeRtree(rt, h, hn, t, tn)
    BY DEF C!MergeRtree, CP!MergeRtree
  <2>2. \A b, c : C!Pop(b, c) = CP!Pop(b, c) BY DEF C!Pop, CP!Pop
  <2>3. \A b, i, c : C!Push(b, i, c) = CP!Push(b, i, c) BY DEF C!Push, CP!Push
  <2>4. \A b, i, c : C!Erase(b, i, c) = CP!Erase(b, i, c) BY DEF C!Erase, CP!Erase
  <2>5. C!NoChunk = CP!NoChunk /\ C!NoPage = CP!NoPage /\ C!Page = CP!Page
    BY DEF C!NoChunk, CP!NoChunk
  <2>6. \A n : C!get_fit_pind(n) = CP!get_fit_pind(n) OBVIOUS
  <2> SUFFICES ASSUME NEW a, NEW c, NEW p, NEW n, C!PushCleanChunk(a, c, p, n)
               PROVE  CP!PushCleanChunk(a, c, p, n)
    OBVIOUS
  <2> QED BY ONLY C!PushCleanChunk(a, c, p, n), <2>1, <2>2, <2>3, <2>4, <2>5, <2>6
          DEF C!PushCleanChunk, CP!PushCleanChunk
<1>6. C!ReleaseStale(This) => CP!ReleaseStale(This)
  BY <1>3, <1>4, <1>5 DEF C!ReleaseStale, CP!ReleaseStale
<1>7. C!EndGC(This) => CP!EndGC(This) BY <1>4 DEF C!EndGC, CP!EndGC
<1> QED BY <1>1, <1>2, <1>6, <1>7

LEMMA SameArenaParts ==
  /\ A!Idle = AP!Idle /\ A!Room = AP!Room
  /\ \A t, step : A!At(t, step) <=> AP!At(t, step)
  /\ \A t, o : A!Goto(t, o) <=> AP!Goto(t, o)
  /\ \A p : A!FirstCell(p) = AP!FirstCell(p) /\ A!ChunkAt(p) = AP!ChunkAt(p)
  /\ \A e : A!LookUp(e) = AP!LookUp(e) /\ A!LargeAt(e) = AP!LargeAt(e)
  /\ \A p, s, i : A!RegionAt(p, s, i) = AP!RegionAt(p, s, i)
  /\ \A s : A!AllRegions(s) = AP!AllRegions(s)
  /\ \A bits, s : A!AllFree(bits, s) = AP!AllFree(bits, s)
  /\ \A list, p : A!Push(list, p) = AP!Push(list, p) /\ A!Erase(list, p) = AP!Erase(list, p)
  /\ \A c : A!PageHeap!Alloc(c) <=> AP!PageHeap!Alloc(c)
  /\ \A c : A!PageHeap!Free(c) <=> AP!PageHeap!Free(c)
<1> USE SameSets
<1>1. \A t, step : A!At(t, step) <=> AP!At(t, step) BY DEF A!At, AP!At
<1>2. A!Room = AP!Room
  BY <1>1 DEF A!Room, AP!Room, A!Busy, AP!Busy, A!Cardinality, AP!Cardinality
<1>3. A!Idle = AP!Idle BY DEF A!Idle, AP!Idle
<1>4. \A t, o : A!Goto(t, o) <=> AP!Goto(t, o) BY DEF A!Goto, AP!Goto
<1>5. \A p : A!FirstCell(p) = AP!FirstCell(p) BY DEF A!FirstCell, AP!FirstCell
<1>6. \A p : A!ChunkAt(p) = AP!ChunkAt(p) BY DEF A!ChunkAt, AP!ChunkAt
<1>7. \A e : A!LookUp(e) = AP!LookUp(e) BY <1>5 DEF A!LookUp, AP!LookUp
<1>8. \A e : A!LargeAt(e) = AP!LargeAt(e) BY <1>5 DEF A!LargeAt, AP!LargeAt
<1>9. \A p, s, i : A!RegionAt(p, s, i) = AP!RegionAt(p, s, i)
  BY <1>5 DEF A!RegionAt, AP!RegionAt
<1>10. \A s : A!AllRegions(s) = AP!AllRegions(s)
  BY DEF A!AllRegions, AP!AllRegions, A!SlabRegions, AP!SlabRegions
<1>11. \A bits, s : A!AllFree(bits, s) = AP!AllFree(bits, s) BY <1>10 DEF A!AllFree, AP!AllFree
<1>12. \A list, p : A!Push(list, p) = AP!Push(list, p) BY DEF A!Push, AP!Push
<1>13. \A list, p : A!Erase(list, p) = AP!Erase(list, p) BY DEF A!Erase, AP!Erase
<1>14. \A c : A!PageHeap!Alloc(c) <=> AP!PageHeap!Alloc(c)
  BY DEF A!PageHeap!Alloc, AP!PageHeap!Alloc, A!PageHeap!Apart, AP!PageHeap!Apart
<1>15. \A c : A!PageHeap!Free(c) <=> AP!PageHeap!Free(c)
  BY DEF A!PageHeap!Free, AP!PageHeap!Free
<1> QED BY <1>1, <1>2, <1>3, <1>4, <1>5, <1>6, <1>7, <1>8, <1>9, <1>10, <1>11, <1>12, <1>13,
           <1>14, <1>15

LEMMA SameArenaInit == A!Init => AP!Init
BY SameArenaParts, SameSets DEF A!Init, AP!Init

LEMMA SameArenaSteps ==
  ASSUME NEW t
  PROVE  /\ \A s : A!SmallAlloc(t, s) => AP!SmallAlloc(t, s)
         /\ A!AllocFromSlab(t) <=> AP!AllocFromSlab(t)
         /\ A!LockForSlab(t) => AP!LockForSlab(t)
         /\ A!NewSlab(t) => AP!NewSlab(t)
         /\ A!NoSlab(t) => AP!NoSlab(t)
         /\ A!AllocFromNewSlab(t) <=> AP!AllocFromNewSlab(t)
         /\ A!LargeAlloc(t) => AP!LargeAlloc(t)
         /\ \A e : A!Dalloc(t, e) => AP!Dalloc(t, e)
         /\ A!ReturnRegion(t) => AP!ReturnRegion(t)
         /\ A!Release(t) => AP!Release(t)
<1> USE SameSets, SameArenaParts DEF A!slabs, AP!slabs, A!stats, AP!stats
<1>1. \A s : A!SmallAlloc(t, s) => AP!SmallAlloc(t, s) BY DEF A!SmallAlloc, AP!SmallAlloc
<1>2. \A s : A!TakeRegion(t, s) <=> AP!TakeRegion(t, s)
  BY DEF A!TakeRegion, AP!TakeRegion, A!ffs, AP!ffs
<1>3. A!AllocFromSlab(t) <=> AP!AllocFromSlab(t) BY <1>2 DEF A!AllocFromSlab, AP!AllocFromSlab
<1>4. A!LockForSlab(t) => AP!LockForSlab(t) BY DEF A!LockForSlab, AP!LockForSlab
<1>5. A!NewSlab(t) => AP!NewSlab(t) BY DEF A!NewSlab, AP!NewSlab
<1>6. A!NoSlab(t) => AP!NoSlab(t) BY DEF A!NoSlab, AP!NoSlab
<1>7. A!AllocFromNewSlab(t) <=> AP!AllocFromNewSlab(t)
  BY <1>2 DEF A!AllocFromNewSlab, AP!AllocFromNewSlab
<1>8. A!LargeAlloc(t) => AP!LargeAlloc(t) BY DEF A!LargeAlloc, AP!LargeAlloc
<1>9. \A e : A!Dalloc(t, e) => AP!Dalloc(t, e) BY DEF A!Dalloc, AP!Dalloc
<1>10. A!ReturnRegion(t) => AP!ReturnRegion(t) BY DEF A!ReturnRegion, AP!ReturnRegion
<1>11. A!Release(t) => AP!Release(t) BY DEF A!Release, AP!Release
<1> QED BY <1>1, <1>3, <1>4, <1>5, <1>6, <1>7, <1>8, <1>9, <1>10, <1>11

\* What is proved of a step of AP is true of a step of A.
LEMMA SameArenaNext == [A!Next]_(A!vars) => [AP!Next]_(AP!vars)
<1>1. ASSUME NEW t \in Thread,
             \/ \E s \in Sind : A!SmallAlloc(t, s)
             \/ A!LargeAlloc(t)
             \/ \E e \in held : A!Dalloc(t, e)
             \/ A!Lock(t) \/ A!Run(t)
      PROVE  AP!Next
  BY <1>1, SameArenaSteps DEF AP!Next, A!Lock, AP!Lock, A!Run, AP!Run
<1>2. UNCHANGED A!vars => UNCHANGED AP!vars
  BY DEF A!vars, AP!vars, A!slabs, AP!slabs, A!stats, AP!stats
<1> QED BY <1>1, <1>2 DEF A!Next

-----------------------------------------------------------------------------
(* The invariant *)

\* slab() of a chunk in use tells whether Arena uses it as a slab.
SlabsMarked == \A p \in C!Page :
  chunk[p].state = "active" => (chunk[p].slab <=> region_size[p] # NonSlab)

IInv == CP!IInv /\ AP!IInv /\ SlabsMarked

\* What a step must be: one of the ChunkManager or none, and one of Arena or none.
StepOfBoth == [CP!Next]_(CP!vars) /\ [A!Next]_(A!vars)

LEMMA Unmoved == UNCHANGED pageVars => UNCHANGED CP!vars /\ UNCHANGED C!Extents
BY DEF pageVars, CP!vars, C!Extents

LEMMA ArenaUnmoved == UNCHANGED arenaVars /\ UNCHANGED C!Extents => UNCHANGED A!vars
BY DEF arenaVars, A!vars, A!slabs, A!stats

\* A chunk is asked for by the size of a class, or as a huge one.
LEMMA PageCall ==
  ASSUME NEW n, NEW slab \in BOOLEAN,
         \/ \E s \in Sind : n = SlabPages[s]
         \/ n \in LargePages /\ ~slab,
         C!AllocDirty(This, n, slab) \/ C!AllocClean(This, n, slab) \/ C!MapNew(This, n, slab)
  PROVE  CP!Next /\ n \in CP!Sizes
<1>1. (\E i \in CP!Pind : n = ClassSize[i]) \/ (n \in LargePages /\ n > CP!StandardChunk /\ ~slab)
  BY OnPagesAssumption, SameSets
<1>2. \/ CP!AllocDirty(This, n, slab) \/ CP!AllocClean(This, n, slab)
      \/ CP!MapNew(This, n, slab)
  BY SamePageCalls
<1>3. CASE \E i \in CP!Pind : n = ClassSize[i]
  BY <1>2, <1>3 DEF CP!Next, CP!AllocChunk, CP!Sizes
<1>4. CASE n \in LargePages /\ n > CP!StandardChunk /\ ~slab
  <2>1. n \in { m \in LargePages : m > ClassSize[NumClasses - 1] }
    BY <1>4 DEF CP!StandardChunk
  <2>2. n \in Nat /\ CP!StandardChunk \in Nat
    BY <1>4, OnPagesAssumption, PageAssumptions
       DEF A!ArenaAssumption, CP!SizeAssumption, CP!StandardChunk, CP!Pind
  <2>3. ~(n <= CP!StandardChunk) BY <1>4, <2>2
  <2>4. CP!MapNew(This, n, FALSE) BY <1>2, <1>4, <2>3 DEF CP!AllocDirty, CP!AllocClean
  <2> QED BY <2>1, <2>4 DEF CP!Next, CP!AllocChunk, CP!Sizes
<1> QED BY <1>1, <1>3, <1>4

-----------------------------------------------------------------------------
(* What a step does to the chunks in use, and to what they are marked as *)

LEMMA KeptMarks ==
  ASSUME SlabsMarked, UNCHANGED <<chunk, region_size>>
  PROVE  SlabsMarked'
BY DEF SlabsMarked

\* Mapping, unmapping and collecting are not seen by Arena.
LEMMA QuietStep ==
  ASSUME IInv, UNCHANGED arenaVars,
         \/ \E n \in CP!Sizes, slab \in BOOLEAN : CP!MapNew(This, n, slab)
         \/ CP!UnmapHuge(This) \/ CP!ReleaseStale(This) \/ CP!EndGC(This)
  PROVE  UNCHANGED A!vars /\ SlabsMarked'
<1>1. CP!TouchesFreeOnly(This) /\ CP!HandsOutOnly(CP!NoPage)
  <2>1. CASE \E n \in CP!Sizes, slab \in BOOLEAN : CP!MapNew(This, n, slab)
    BY <2>1, PageAssumptions, CP!MapNewTouches DEF IInv
  <2>2. CASE CP!UnmapHuge(This)
    <3>1. CP!Unmap(This) /\ call[This].step \in CP!HoldSteps
      BY <2>2 DEF CP!UnmapHuge, CP!At, CP!HoldSteps
    <3> QED BY <3>1, PageAssumptions, CP!UnmapTouches DEF IInv
  <2>3. CASE CP!ReleaseStale(This) BY <2>3, PageAssumptions, CP!ReleaseStaleTouches DEF IInv
  <2>4. CASE CP!EndGC(This) BY <2>4 DEF CP!EndGC, CP!TouchesFreeOnly, CP!HandsOutOnly
  <2> QED BY <2>1, <2>2, <2>3, <2>4
<1>2. \A p \in CP!Page : p # CP!NoPage
  BY PageAssumptions DEF CP!SizeAssumption, CP!Page, CP!NoPage
<1>3. \A p \in C!Page : /\ chunk'[p].state = "active" <=> chunk[p].state = "active"
                        /\ chunk[p].state = "active" => chunk'[p] = chunk[p]
  BY <1>1, <1>2, SameSets DEF CP!TouchesFreeOnly, CP!HandsOutOnly
<1>4. UNCHANGED C!Extents BY <1>3 DEF C!Extents
<1>5. SlabsMarked' BY <1>3 DEF IInv, SlabsMarked, arenaVars
<1> QED BY <1>4, <1>5, ArenaUnmoved

\* The chunk AllocChunk hands out is the one Arena gets, marked as what it was
\* asked for.
LEMMA NewMarks ==
  ASSUME IInv, CP!TouchesFreeOnly(This), NEW slab \in BOOLEAN, CP!HandsOutAs(slab),
         NEW c \in AP!PageExtent, AP!PageHeap!Alloc(c),
         NEW s \in Sind \cup {NonSlab}, slab <=> s # NonSlab,
         region_size' = [region_size EXCEPT ![c.base] = s]
  PROVE  SlabsMarked'
<1>1. AP!TypeOK BY DEF IInv, AP!IInv
<1>2. /\ C!Extents' = C!Extents \cup {c}
      /\ \A d \in C!Extents : AP!Before(c, d) \/ AP!Before(d, c)
  BY <1>1, ArenaAssumptions, AP!Fresh
<1>3. c.base \in C!Page /\ region_size \in [C!Page -> Sind \cup {NonSlab}]
  <2>1. C!Page = AP!Page BY DEF C!Page, AP!Page
  <2> QED BY <1>1, <2>1, ArenaAssumptions, AP!PageExtentFacts DEF AP!TypeOK
<1>4. \A d \in C!Extents : d.base # c.base
  <2>1. ASSUME NEW d \in C!Extents PROVE d.base # c.base
    <3>1. d \in AP!PageExtent BY <1>1 DEF AP!TypeOK
    <3>2. /\ d.base \in Nat /\ d.size \in Nat /\ d.size > 0
          /\ c.base \in Nat /\ c.size \in Nat /\ c.size > 0
      BY <3>1, ArenaAssumptions, AP!PageExtentFacts
    <3> QED BY <1>2, <3>2 DEF AP!Before
  <2> QED BY <2>1
<1>5. ASSUME NEW p \in C!Page, chunk'[p].state = "active"
      PROVE  chunk'[p].slab <=> region_size'[p] # NonSlab
  <2>1. CASE chunk[p].state = "active"
    <3>1. chunk'[p] = chunk[p] BY <2>1, SameSets DEF CP!TouchesFreeOnly
    <3>2. [base |-> p, size |-> chunk[p].size] \in C!Extents BY <2>1 DEF C!Extents
    <3>3. p # c.base BY <1>4, <3>2
    <3> QED BY <1>3, <2>1, <3>1, <3>3 DEF IInv, SlabsMarked
  <2>2. CASE chunk[p].state # "active"
    <3>1. chunk'[p].slab = slab BY <1>5, <2>2, SameSets DEF CP!HandsOutAs
    <3>2. [base |-> p, size |-> chunk'[p].size] \in C!Extents' BY <1>5 DEF C!Extents
    <3>3. [base |-> p, size |-> chunk'[p].size] \notin C!Extents BY <2>2 DEF C!Extents
    <3>4. c.base = p BY <1>2, <3>2, <3>3
    <3> QED BY <1>3, <3>1, <3>4
  <2> QED BY <2>1, <2>2
<1> QED BY <1>5 DEF SlabsMarked

\* AllocChunk marks the chunk as a slab when SmallAlloc asks for it, and only then.
LEMMA HandedOut ==
  ASSUME IInv, NEW t \in Thread, NEW slab \in BOOLEAN,
         CP!TouchesFreeOnly(This), CP!HandsOutAs(slab),
         IF slab THEN A!NewSlab(t) ELSE A!LargeAlloc(t)
  PROVE  SlabsMarked'
<1>1. CASE slab
  <2>1. AP!NewSlab(t) BY <1>1, SameArenaSteps
  <2>2. op[t].sind \in Sind /\ NonSlab \notin Sind
    BY <2>1, ArenaAssumptions
       DEF IInv, AP!IInv, AP!CallsShaped, AP!CallShape, AP!NewSlab, AP!At, AP!ArenaAssumption
  <2>3. PICK c \in AP!PageExtent :
          AP!PageHeap!Alloc(c) /\ region_size' = [region_size EXCEPT ![c.base] = op[t].sind]
    BY <2>1 DEF AP!NewSlab
  <2> QED BY <1>1, <2>2, <2>3, NewMarks
<1>2. CASE ~slab
  <2>1. AP!LargeAlloc(t) BY <1>2, SameArenaSteps
  <2>2. PICK c \in AP!PageExtent :
          AP!PageHeap!Alloc(c) /\ region_size' = [region_size EXCEPT ![c.base] = NonSlab]
    BY <2>1 DEF AP!LargeAlloc
  <2> QED BY <1>2, <2>2, NewMarks
<1> QED BY <1>1, <1>2

-----------------------------------------------------------------------------
(* Every step is one of Arena or none, and one of the ChunkManager or none *)

Good == StepOfBoth /\ SlabsMarked'

\* A step of Arena outside the ChunkManager.
LEMMA OutsideStep ==
  ASSUME IInv, UNCHANGED pageVars, A!Next, UNCHANGED region_size
  PROVE  Good
<1>1. UNCHANGED CP!vars BY Unmoved
<1>2. SlabsMarked' BY KeptMarks DEF IInv, pageVars
<1> QED BY <1>1, <1>2 DEF Good, StepOfBoth

LEMMA EnterStep ==
  ASSUME IInv, NEW t \in Thread, Enter(t) \/ LockSlabs(t) \/ TakeFirst(t)
  PROVE  Good
<1>1. UNCHANGED pageVars BY DEF Enter, LockSlabs, TakeFirst, Outside
<1>2. CASE \E s \in Sind : A!SmallAlloc(t, s)
  BY <1>1, <1>2, OutsideStep DEF A!Next, A!SmallAlloc, A!slabs
<1>3. CASE \E e \in held : A!Dalloc(t, e)
  BY <1>1, <1>3, OutsideStep DEF A!Next, A!Dalloc, A!slabs
<1>4. CASE A!Lock(t)
  <2>1. UNCHANGED region_size
    BY <1>4 DEF A!Lock, A!AllocFromSlab, A!TakeRegion, A!LockForSlab, A!ReturnRegion, A!slabs
  <2> QED BY <1>1, <1>4, <2>1, OutsideStep DEF A!Next
<1>5. CASE A!AllocFromNewSlab(t)
  BY <1>1, <1>5, OutsideStep DEF A!Next, A!Run, A!AllocFromNewSlab, A!TakeRegion
<1> QED BY <1>2, <1>3, <1>4, <1>5 DEF Enter, LockSlabs, TakeFirst

LEMMA FromBinsStep ==
  ASSUME IInv, NEW t \in Thread, NEW n, NEW slab \in BOOLEAN,
         \/ \E s \in Sind : n = SlabPages[s]
         \/ n \in LargePages /\ ~slab,
         FromBins(n, slab), IF slab THEN A!NewSlab(t) ELSE A!LargeAlloc(t)
  PROVE  Good
<1>1. C!AllocDirty(This, n, slab) \/ C!AllocClean(This, n, slab) BY DEF FromBins
<1>2. CP!Next /\ n \in CP!Sizes BY <1>1, PageCall
<1>3. CP!AllocDirty(This, n, slab) \/ CP!AllocClean(This, n, slab) BY <1>1, SamePageCalls
<1>4. CP!TouchesFreeOnly(This) /\ CP!HandsOutAs(slab)
  BY <1>2, <1>3, PageAssumptions, CP!AllocTouches DEF IInv
<1>5. SlabsMarked' BY <1>4, HandedOut
<1>6. A!Next BY DEF A!Next, A!Run
<1> QED BY <1>2, <1>5, <1>6 DEF Good, StepOfBoth

LEMMA FromOSStep ==
  ASSUME IInv, NEW t \in Thread, NEW n, NEW slab \in BOOLEAN,
         \/ \E s \in Sind : n = SlabPages[s]
         \/ n \in LargePages /\ ~slab,
         FromOS(t, n, slab)
  PROVE  Good
<1>1. C!MapNew(This, n, slab) /\ UNCHANGED arenaVars BY DEF FromOS
<1>2. CP!Next /\ n \in CP!Sizes BY <1>1, PageCall
<1>3. CP!MapNew(This, n, slab) BY <1>1, SamePageCalls
<1>4. UNCHANGED A!vars /\ SlabsMarked' BY <1>1, <1>2, <1>3, QuietStep
<1> QED BY <1>2, <1>4 DEF Good, StepOfBoth

LEMMA NewSlabStep ==
  ASSUME IInv, NEW t \in Thread, NewSlab(t)
  PROVE  Good
<1> DEFINE n == SlabPages[op[t].sind]
<1>1. op[t].sind \in Sind
  <2>1. op[t].step = "slab" BY DEF NewSlab, A!At
  <2> QED BY <2>1 DEF IInv, AP!IInv, AP!CallsShaped, AP!CallShape
<1>2. CASE FromBins(n, TRUE) /\ A!NewSlab(t) BY <1>1, <1>2, FromBinsStep
<1>3. CASE FromOS(t, n, TRUE) BY <1>1, <1>3, FromOSStep
<1>4. CASE UNCHANGED pageVars /\ A!NoSlab(t)
  BY <1>4, OutsideStep DEF A!Next, A!Run, A!NoSlab, A!slabs
<1> QED BY <1>2, <1>3, <1>4 DEF NewSlab

LEMMA LargeAllocStep ==
  ASSUME IInv, NEW t \in Thread, LargeAlloc(t)
  PROVE  Good
<1>1. PICK n \in LargePages : \/ FromBins(n, FALSE) /\ A!LargeAlloc(t)
                             \/ FromOS(t, n, FALSE)
  BY DEF LargeAlloc
<1>2. CASE FromBins(n, FALSE) /\ A!LargeAlloc(t) BY <1>2, FromBinsStep
<1>3. CASE FromOS(t, n, FALSE) BY <1>3, FromOSStep
<1> QED BY <1>1, <1>2, <1>3

LEMMA ReleaseStep ==
  ASSUME IInv, NEW t \in Thread, Release(t)
  PROVE  Good
<1> DEFINE p == op[t].page
<1>1. A!Release(t) /\ (C!DallocToBin(This, p) \/ C!DallocHuge(This, p)) BY DEF Release
<1>2. p \in CP!Page
  <2>1. AP!At(t, "release") BY <1>1, SameArenaParts DEF A!Release
  <2>2. PICK c \in C!Extents : c.base = p
    BY <2>1 DEF IInv, AP!IInv, AP!CallsShaped, AP!CallShape
  <2> QED BY <2>2, SameSets DEF C!Extents
<1>3. CP!DallocToBin(This, p) \/ CP!DallocHuge(This, p) BY <1>1, SamePageCalls
<1>4. CP!Next BY <1>2, <1>3 DEF CP!Next, CP!DallocChunk
<1>5. A!Next BY <1>1 DEF A!Next, A!Run
<1>6. /\ chunk' = [chunk EXCEPT ![p].state = "dirty", ![p].epoch = epoch[This]]
      /\ chunk[p].state = "active" /\ chunk[p].arena = This /\ mapped' = mapped
  BY <1>3 DEF CP!DallocToBin, CP!DallocHuge
<1>7. CP!OthersKept({p}) /\ chunk'[p].state = "dirty"
  BY <1>2, <1>6, PageAssumptions, CP!FreedChunk DEF IInv
<1>8. UNCHANGED region_size BY <1>1 DEF A!Release, A!slabs
<1>9. SlabsMarked' BY <1>7, <1>8, SameSets DEF IInv, SlabsMarked, CP!OthersKept
<1> QED BY <1>4, <1>5, <1>9 DEF Good, StepOfBoth

LEMMA ContinueStep ==
  ASSUME IInv, NEW t \in Thread, Continue(t)
  PROVE  Good
<1>1. CASE C!RegisterNew(This) /\ IF call[This].slab THEN A!NewSlab(t) ELSE A!LargeAlloc(t)
  <2>1. CP!RegisterNew(This) BY <1>1, SamePageSteps
  <2>2. CP!TouchesFreeOnly(This) /\ CP!HandsOutAs(call[This].slab)
    BY <2>1, PageAssumptions, CP!RegisterNewTouches DEF IInv
  <2>3. call[This].slab \in BOOLEAN
    BY DEF IInv, CP!IInv, CP!TypeOK
  <2>4. SlabsMarked' BY <1>1, <2>2, <2>3, HandedOut
  <2>5. CP!Next BY <2>1 DEF CP!Next, CP!Continue
  <2>6. A!Next BY <1>1 DEF A!Next, A!Run
  <2> QED BY <2>4, <2>5, <2>6 DEF Good, StepOfBoth
<1>2. CASE /\ C!UnmapHuge(This) \/ C!ReleaseStale(This) \/ C!EndGC(This)
           /\ UNCHANGED arenaVars
  <2>1. CP!UnmapHuge(This) \/ CP!ReleaseStale(This) \/ CP!EndGC(This) BY <1>2, SamePageSteps
  <2>2. CP!Next BY <2>1 DEF CP!Next, CP!Continue
  <2>3. UNCHANGED A!vars /\ SlabsMarked' BY <1>2, <2>1, QuietStep
  <2> QED BY <2>2, <2>3 DEF Good, StepOfBoth
<1> QED BY <1>1, <1>2 DEF Continue

\* Whoever runs, inside mutex_ or outside: a step of the whole is one of Arena,
\* one of the ChunkManager, or both.
LEMMA EveryStep ==
  ASSUME IInv, [Next]_vars
  PROVE  Good
<1>1. CASE UNCHANGED vars
  <2>1. UNCHANGED pageVars /\ UNCHANGED arenaVars BY <1>1 DEF vars
  <2>2. UNCHANGED CP!vars /\ UNCHANGED A!vars BY <2>1, Unmoved, ArenaUnmoved
  <2>3. SlabsMarked' BY <2>1, KeptMarks DEF IInv, pageVars, arenaVars
  <2> QED BY <2>2, <2>3 DEF Good, StepOfBoth
<1> QED BY <1>1, EnterStep, NewSlabStep, LargeAllocStep, ReleaseStep, ContinueStep DEF Next

LEMMA NextIInv ==
  ASSUME IInv, [Next]_vars
  PROVE  IInv'
<1>1. Good BY EveryStep
<1>2. CP!IInv' BY <1>1, PageAssumptions, CP!NextIInv DEF IInv, Good, StepOfBoth
<1>3. AP!IInv' BY <1>1, ArenaAssumptions, SameArenaNext, AP!NextIInv DEF IInv, Good, StepOfBoth
<1> QED BY <1>1, <1>2, <1>3 DEF IInv, Good

LEMMA InitIInv == Init => IInv
<1> SUFFICES ASSUME Init PROVE IInv OBVIOUS
<1>1. CP!IInv BY SamePageInit, PageAssumptions, CP!InitIInv DEF Init
<1>2. AP!IInv BY SameArenaInit, ArenaAssumptions, AP!Initially DEF Init
<1>3. \A p \in C!Page : chunk[p].state # "active" BY DEF Init, C!Init, C!NoChunk
<1> QED BY <1>1, <1>2, <1>3 DEF IInv, SlabsMarked

\* Both levels keep their invariants together, and agree which chunks are slabs.
THEOREM Inductive == Spec => []IInv
<1>1. IInv /\ [Next]_vars => IInv' BY NextIInv
<1> QED BY <1>1, InitIInv, PTL DEF Spec

-----------------------------------------------------------------------------
(* What free() finds *)

\* The page a cell is in, as the page map is asked for it.
LEMMA PageOfCell ==
  ASSUME NEW p \in Nat, p > 0, NEW n \in Nat, NEW b \in Nat,
         AP!FirstCell(p) <= b, b < AP!FirstCell(p + n)
  PROVE  /\ ((b - 1) \div PageCells) + 1 \in p..(p + n - 1)
         /\ b = AP!FirstCell(p) => ((b - 1) \div PageCells) + 1 = p
<1>1. PICK k \in Nat \ {0} : k = PageCells
  BY ArenaAssumptions DEF AP!ArenaAssumption
<1>2. PICK o \in Nat : p = o + 1
  <2>1. p - 1 \in Nat /\ p = (p - 1) + 1 OBVIOUS
  <2> QED BY <2>1
<1>3. AP!FirstCell(p) = o * k + 1 /\ AP!FirstCell(p + n) = (o + n) * k + 1
  BY <1>1, <1>2 DEF AP!FirstCell
<1>4. PICK x \in Nat, y \in Nat : x = o * k /\ y = (o + n) * k BY Scaled
<1>5. PICK m \in Nat : m = b - 1 /\ x <= m /\ m < y
  <2>1. b - 1 \in Nat /\ x <= b - 1 /\ b - 1 < y BY <1>3, <1>4
  <2> QED BY <2>1
<1>6. PICK q \in Nat : q = m \div k /\ q * k <= m /\ m < q * k + k
  <2>1. m \div k \in Nat /\ m % k \in Nat /\ m = (m \div k) * k + (m % k) /\ m % k < k
    BY Divided
  <2>2. PICK q \in Nat, r \in Nat : q = m \div k /\ r = m % k BY <2>1
  <2>3. PICK z \in Nat : z = q * k BY Scaled
  <2> QED BY <2>1, <2>2, <2>3
<1>7. PICK z \in Nat : z = q * k /\ z <= m /\ m < z + k BY <1>6, Scaled
<1>8. o <= q
  <2> SUFFICES ASSUME q < o PROVE FALSE OBVIOUS
  <2>1. q + 1 <= o OBVIOUS
  <2>2. (q + 1) * k <= o * k /\ (q + 1) * k = q * k + k BY <2>1, Scaled
  <2> QED BY <1>4, <1>5, <1>7, <2>2
<1>9. q < o + n
  <2> SUFFICES ASSUME o + n <= q PROVE FALSE OBVIOUS
  <2>1. (o + n) * k <= q * k BY Scaled
  <2> QED BY <1>4, <1>5, <1>7, <2>1
<1>10. ((b - 1) \div PageCells) + 1 = q + 1 BY <1>1, <1>5, <1>6
<1>11. b = AP!FirstCell(p) => q = o
  <2> SUFFICES ASSUME b = AP!FirstCell(p) PROVE q = o OBVIOUS
  <2>1. m = o * k BY <1>3, <1>4, <1>5
  <2> QED BY <1>6, <2>1, Scaled
<1> QED BY <1>2, <1>8, <1>9, <1>10, <1>11

\* The page of the pointer is an end of its chunk, or the chunk is a slab: on
\* the page map it is either way.
LEMMA FoundChunk ==
  ASSUME IInv, NEW e \in held
  PROVE  LET c == A!LookUp(e)
         IN  /\ chunk_rtree(e) = c.base
             /\ chunk[c.base].slab <=> region_size[c.base] # NonSlab
<1> USE PageAssumptions, ArenaAssumptions
<1>1. AP!ChunksOK /\ AP!HeldPlaced /\ CP!PageMapExact /\ CP!CallsOwnChunk
  BY DEF IInv, AP!IInv, AP!ChunksOK, CP!IInv
<1>2. PICK c \in C!Extents : AP!Piece(c, e) BY <1>1 DEF AP!HeldPlaced
<1>3. A!LookUp(e) = c BY <1>1, <1>2, AP!LookUpIs, SameArenaParts
<1>4. /\ c.base \in C!Page /\ chunk[c.base].state = "active"
      /\ c.size = chunk[c.base].size
  BY DEF C!Extents
<1>5. chunk[c.base].slab <=> region_size[c.base] # NonSlab BY <1>4 DEF IInv, SlabsMarked
<1>6. c \in AP!PageExtent /\ e \in AP!CellExtent /\ AP!Inside(c, e)
  BY <1>1, <1>2, AP!PieceFacts
<1>7. PICK p \in Nat, n \in Nat, b \in Nat :
        /\ p = c.base /\ n = c.size /\ b = e.base /\ p > 0 /\ n > 0
        /\ p + n <= NumPages + 1
        /\ AP!FirstCell(p) <= b /\ b < AP!FirstCell(p + n)
  <2>1. /\ c.base \in Nat /\ c.base > 0 /\ c.size \in Nat /\ c.size > 0
        /\ c.base + c.size <= NumPages + 1
        /\ AP!FirstCell(c.base + c.size) <= AP!NumCells + 1
    BY <1>6, AP!PageExtentFacts
  <2>2. e.base \in Nat /\ e.size \in Nat /\ e.size > 0
    BY <1>6, AP!ArenaNumbers DEF AP!CellExtent
  <2>3. AP!FirstCell(c.base + c.size) \in Nat
    <3>1. c.base + c.size \in Nat /\ c.base + c.size > 0 BY <2>1
    <3> QED BY <3>1, AP!FirstCells
  <2>4. AP!FirstCell(c.base) <= e.base /\ e.base < AP!FirstCell(c.base + c.size)
    BY <1>6, <2>2, <2>3 DEF AP!Inside
  <2> QED BY <2>1, <2>2, <2>4
<1>8. PICK q : q = ((b - 1) \div PageCells) + 1 OBVIOUS
<1>9. q \in p..(p + n - 1) /\ (b = AP!FirstCell(p) => q = p) BY <1>7, <1>8, PageOfCell
<1>10. p \in CP!Page /\ q \in CP!Probe
  <2>1. NumPages \in Nat BY DEF CP!SizeAssumption
  <2> QED BY <1>4, <1>7, <1>9, <2>1, SameSets DEF CP!Probe
<1>11. CP!Exists(p) /\ ~CP!Detached(p)
  BY <1>1, <1>4, <1>7
     DEF CP!Exists, CP!Detached, CP!Holds, CP!CallsOwnChunk, CP!CallOwns, CP!HoldSteps
<1>12. CP!FoundBy(p, q)
  <2>1. CASE region_size[p] = NonSlab
    <3>1. e = AP!LargeAt(c) BY <1>2, <1>7, <2>1 DEF AP!Piece
    <3>2. b = AP!FirstCell(p) BY <1>7, <3>1 DEF AP!LargeAt
    <3> QED BY <1>9, <3>2 DEF CP!FoundBy, CP!Ends
  <2>2. CASE region_size[p] # NonSlab
    <3>1. chunk[p].slab /\ chunk[p].size = n /\ chunk[p].state = "active"
      BY <1>4, <1>5, <1>7, <2>2
    <3>2. q = p \/ q = p + n - 1 \/ q \in (p + 1)..(p + n - 2) BY <1>9
    <3> QED BY <3>1, <3>2 DEF CP!FoundBy, CP!Ends, CP!Interior
  <2> QED BY <2>1, <2>2
<1>13. rtree[q] = p BY <1>1, <1>10, <1>11, <1>12 DEF CP!PageMapExact
<1> QED BY <1>3, <1>5, <1>7, <1>8, <1>13 DEF chunk_rtree

\* Whatever a caller holds, free() finds its chunk by the page its pointer is in,
\* and whether that is a slab: for any number of threads, classes and pages.
THEOREM LookUpAlwaysFinds == Spec => []LookUpFinds
<1>1. IInv => LookUpFinds BY FoundChunk DEF LookUpFinds
<1> QED BY <1>1, Inductive, PTL

\* The arena on its page heap behaves as the arena that takes chunks in one
\* step, and hands out memory that nobody else has.
THEOREM ArenaImplemented == Spec => ImplementsArena
<1>1. Spec => A!Spec
  <2>1. Init => A!Init BY DEF Init
  <2>2. IInv /\ [Next]_vars => [A!Next]_(A!vars) BY EveryStep DEF Good, StepOfBoth
  <2> QED BY <2>1, <2>2, Inductive, PTL DEF Spec, A!Spec
<1>2. A!Spec => AP!Spec
  BY SameArenaInit, SameArenaNext, PTL DEF A!Spec, AP!Spec
<1>3. AP!Spec => AP!ImplementsRegionHeap BY ArenaAssumptions, AP!RegionHeapImplemented
<1>4. AP!ImplementsRegionHeap => A!ImplementsRegionHeap
  <2> DEFINE TakesP == \A t \in Thread : AP!AllocFromSlab(t) \/ AP!AllocFromNewSlab(t) =>
                         \E e \in AP!CellExtent : AP!RegionHeap!Alloc(e)
             TakesA == \A t \in Thread : A!AllocFromSlab(t) \/ A!AllocFromNewSlab(t) =>
                         \E e \in A!CellExtent : A!RegionHeap!Alloc(e)
             HeapP == AP!RegionHeap!Next
             HeapA == A!RegionHeap!Next
  <2>1. \A e : AP!RegionHeap!Alloc(e) => A!RegionHeap!Alloc(e)
    BY SameSets DEF AP!RegionHeap!Alloc, A!RegionHeap!Alloc,
                    AP!RegionHeap!Apart, A!RegionHeap!Apart
  <2>2. HeapP => HeapA
    BY <2>1, SameSets DEF AP!RegionHeap!Next, A!RegionHeap!Next,
                          AP!RegionHeap!Free, A!RegionHeap!Free
  <2>3. TakesP => TakesA BY <2>1, SameSets, SameArenaSteps
  <2>4. UNCHANGED AP!vars => UNCHANGED A!vars
    BY DEF A!vars, AP!vars, A!slabs, AP!slabs, A!stats, AP!stats
  <2>5. AP!ImplementsRegionHeap <=> held = {} /\ [][HeapP]_held /\ [][TakesP]_(AP!vars)
    BY DEF AP!ImplementsRegionHeap, AP!RegionHeap!Spec, AP!RegionHeap!Init
  <2>6. A!ImplementsRegionHeap <=> held = {} /\ [][HeapA]_held /\ [][TakesA]_(A!vars)
    BY DEF A!ImplementsRegionHeap, A!RegionHeap!Spec, A!RegionHeap!Init
  <2> HIDE DEF TakesP, TakesA, HeapP, HeapA
  <2>7. [HeapP]_held => [HeapA]_held BY <2>2
  <2>8. [TakesP]_(AP!vars) => [TakesA]_(A!vars) BY <2>3, <2>4
  <2> QED BY <2>5, <2>6, <2>7, <2>8, PTL
<1> QED BY <1>1, <1>2, <1>3, <1>4 DEF ImplementsArena
=============================================================================
