------------------------- MODULE ChunkManagerProofs -------------------------
(***************************************************************************)
(* Proofs about the page heap of ChunkManager, for any number of arenas,   *)
(* pages and size classes: its type, and four safety invariants, that      *)
(* chunks are disjoint, that they tile what is mapped, that the page map   *)
(* is exact and that the bins are; what a step leaves alone, and the heap  *)
(* of pages that follows; and what the collector is for, that clean chunks *)
(* never touch and dirty ones are recent.                                  *)
(*                                                                         *)
(* None of the four is inductive by itself.  A merge follows the page map, *)
(* so it keeps chunks disjoint only because the map is exact; cutting and  *)
(* joining keep the map exact only because chunks are disjoint; first fit  *)
(* finds a chunk that is large enough only because the bins are exact; and *)
(* all of it needs that a chunk taken off the map by one arena's call is   *)
(* touched by no other (CallsOwnChunk).  IInv is their conjunction.        *)
(*                                                                         *)
(* The lemmas follow the code: the size classes, then what cutting a chunk *)
(* does to the layout, the map and the bins (SplitChunk), then an action   *)
(* at a time, then joining (MergeChunk), and the theorems at the end.      *)
(***************************************************************************)
EXTENDS ChunkManager, FiniteSetTheorems, WellFoundedInduction, TLAPS

-----------------------------------------------------------------------------
(* Numbers *)

\* A nonempty set of numbers has a least element.
LEMMA LeastElement ==
  ASSUME NEW S \in SUBSET Nat, S # {}
  PROVE  \E i \in S : \A j \in S : i <= j
<1> DEFINE less == { p \in Nat \X Nat : p[1] < p[2] }
<1>1. IsWellFoundedOn(less, Nat) BY NatLessThanWellFounded DEF OpToRel
<1>2. PICK i \in S : \A j \in S : <<j, i>> \notin less
  <2> HIDE DEF less
  <2> QED BY <1>1, WFMin
<1>3. \A j \in S : ~(j < i) BY <1>2
<1> QED BY <1>3

-----------------------------------------------------------------------------
(* Size classes *)

\* sz_to_pind finds the least class that holds n pages.
LEMMA PindLeast ==
  ASSUME NEW n \in Nat, n <= StandardChunk
  PROVE  /\ sz_to_pind(n) \in Pind
         /\ n <= ClassSize[sz_to_pind(n)]
         /\ \A j \in Pind : n <= ClassSize[j] => sz_to_pind(n) <= j
<1> DEFINE fits == { i \in Pind : n <= ClassSize[i] }
<1>1. NumClasses - 1 \in fits BY SizeAssumption DEF Pind, StandardChunk
<1>2. PICK i \in fits : \A j \in fits : i <= j
  <2>1. fits \in SUBSET Nat BY DEF Pind
  <2> HIDE DEF fits
  <2> QED BY <1>1, <2>1, LeastElement
<1>3. StandardChunk \in Nat BY SizeAssumption DEF Pind, StandardChunk
<1> QED BY <1>2, <1>3 DEF sz_to_pind

\* get_fit_pind finds the greatest class that n pages can serve, and for the
\* size of a class that class.
LEMMA FitPind ==
  ASSUME NEW n \in Nat \ {0}
  PROVE  /\ get_fit_pind(n) \in Pind
         /\ ClassSize[get_fit_pind(n)] <= n
         /\ \A i \in Pind : ClassSize[i] <= n => i <= get_fit_pind(n)
<1> USE SizeAssumption DEF Pind
<1>0. StandardChunk \in Nat \ {0} BY DEF StandardChunk
<1>1. CASE n + 1 <= StandardChunk
  <2> DEFINE k == sz_to_pind(n + 1)
  <2>1. /\ k \in Pind /\ n + 1 <= ClassSize[k]
        /\ \A j \in Pind : n + 1 <= ClassSize[j] => k <= j
    BY <1>1, PindLeast
  <2>2. get_fit_pind(n) = k - 1 BY DEF get_fit_pind
  <2> HIDE DEF k
  <2>3. k # 0 BY <2>1
  <2>4. k - 1 \in Pind BY <2>1, <2>3
  <2>5. ClassSize[k - 1] <= n BY <2>1, <2>4
  <2>6. ASSUME NEW i \in Pind, ClassSize[i] <= n PROVE i <= k - 1
    <3>1. i < k
      <4>1. i = k => FALSE BY <2>1, <2>6
      <4>2. k < i => ClassSize[k] < ClassSize[i] BY <2>1
      <4> QED BY <2>1, <2>6, <4>1, <4>2
    <3> QED BY <3>1, <2>1
  <2> QED BY <2>2, <2>4, <2>5, <2>6
<1>2. CASE n + 1 > StandardChunk
  <2>1. get_fit_pind(n) = NumClasses - 1 BY <1>0, <1>2 DEF get_fit_pind, sz_to_pind
  <2> QED BY <1>0, <1>2, <2>1 DEF StandardChunk
<1> QED BY <1>0, <1>1, <1>2

\* A chunk with the size of a class is put into the bin of that class both by
\* sz_to_pind (DallocChunk) and by get_fit_pind (the collector).
LEMMA ClassPind ==
  ASSUME NEW i \in Pind
  PROVE  sz_to_pind(ClassSize[i]) = i /\ get_fit_pind(ClassSize[i]) = i
<1> USE SizeAssumption DEF Pind
<1>1. ClassSize[i] \in Nat \ {0} OBVIOUS
<1>2. ClassSize[i] <= StandardChunk BY DEF StandardChunk
<1>3. sz_to_pind(ClassSize[i]) = i
  <2>1. /\ sz_to_pind(ClassSize[i]) \in Pind
        /\ ClassSize[i] <= ClassSize[sz_to_pind(ClassSize[i])]
        /\ sz_to_pind(ClassSize[i]) <= i
    BY <1>1, <1>2, PindLeast
  <2> QED BY <2>1
<1>4. get_fit_pind(ClassSize[i]) = i
  <2>1. /\ get_fit_pind(ClassSize[i]) \in Pind
        /\ ClassSize[get_fit_pind(ClassSize[i])] <= ClassSize[i]
        /\ i <= get_fit_pind(ClassSize[i])
    BY <1>1, FitPind
  <2> QED BY <2>1
<1> QED BY <1>3, <1>4

-----------------------------------------------------------------------------
(* The inductive invariant *)

\* The bins as the code computes them: by get_fit_pind of a chunk's size.
BelongsFit(c, a, i) ==
  chunk[c].arena = a /\ i = get_fit_pind(chunk[c].size) /\ ~Detached(c)

BinsMatch ==
  \A a \in Arena, i \in Pind, c \in Page :
    /\ c \in dirty[a][i] <=> chunk[c].state = "dirty" /\ BelongsFit(c, a, i)
    /\ c \in clean[a][i] <=> chunk[c].state = "clean" /\ BelongsFit(c, a, i)

\* Every chunk lies in the address space and belongs to an arena.
ChunksInRange ==
  \A c \in Page : Exists(c) =>
    /\ chunk[c].size \in Nat \ {0}
    /\ c + chunk[c].size - 1 \in Page
    /\ chunk[c].arena \in Arena

\* ChunksDisjoint, said with the order of addresses.
ChunksInOrder ==
  \A c, d \in Page : Exists(c) /\ Exists(d) /\ c < d => c + chunk[c].size <= d

Covers(c, p) == Exists(c) /\ c <= p /\ p < c + chunk[c].size

\* MappedIsTiled, page by page.
MappedIsCovered == \A p \in Page : p \in mapped <=> \E c \in Page : Covers(c, p)

\* The sizes a chunk in use may have: the assertion of AllocChunk and of
\* DallocChunk that chunk->size() == sz_to_cs(chunk->size()).
Sizes == { ClassSize[i] : i \in Pind } \cup HugeSize

ActiveFits == \A c \in Page : chunk[c].state = "active" => chunk[c].size \in Sizes

\* The steps between which a call has a chunk to itself.
HoldSteps == {"register", "unmap", "destroyUnmap"}

\* The chunk a call has to itself is the arena's own, is not in use, and if it
\* is yet to be cut it is as large as what will be cut from it.
CallOwns(a) ==
  op[a].step \in HoldSteps =>
    /\ op[a].base \in Page
    /\ chunk[op[a].base].state \in {"dirty", "clean"}
    /\ chunk[op[a].base].arena = a
    /\ At(a, "register") => /\ chunk[op[a].base].state = "dirty"
                            /\ op[a].need \in Sizes
                            /\ op[a].need <= chunk[op[a].base].size

CallsOwnChunk == \A a \in Arena : CallOwns(a)

Layout == ChunksInRange /\ ChunksInOrder /\ ActiveFits

IInv ==
  /\ TypeOK
  /\ Layout
  /\ MappedIsCovered
  /\ CallsOwnChunk
  /\ PageMapExact
  /\ BinsMatch

-----------------------------------------------------------------------------
(* Chunks and the pages they are found by *)

LEMMA SizesArePositive == Sizes \subseteq Nat \ {0}
BY SizeAssumption DEF Sizes, Pind, StandardChunk

LEMMA ChunkFacts ==
  ASSUME TypeOK, Layout, NEW c \in Page
  PROVE  /\ chunk[c] \in Chunk
         /\ Exists(c) => /\ chunk[c].state \in {"active", "dirty", "clean"}
                         /\ chunk[c].size \in Nat \ {0}
                         /\ c + chunk[c].size - 1 \in Page
                         /\ chunk[c].arena \in Arena
<1>1. chunk[c] \in Chunk BY DEF TypeOK
<1>2. chunk[c].state \in {"none", "active", "dirty", "clean"} BY <1>1 DEF Chunk
<1> QED BY <1>1, <1>2 DEF Layout, ChunksInRange, Exists

\* A page is one chunk's.
LEMMA CoveredOnce ==
  ASSUME Layout, NEW c \in Page, NEW d \in Page, NEW p \in Int, Covers(c, p), Covers(d, p)
  PROVE  c = d
<1>1. c \in Int /\ d \in Int BY SizeAssumption DEF Page
<1>2. chunk[c].size \in Nat /\ chunk[d].size \in Nat BY DEF Covers, Layout, ChunksInRange
<1>3. c < d => FALSE BY <1>1, <1>2 DEF Covers, Layout, ChunksInOrder
<1>4. d < c => FALSE BY <1>1, <1>2 DEF Covers, Layout, ChunksInOrder
<1> QED BY <1>1, <1>3, <1>4

\* A chunk is found by pages of its own.
LEMMA FoundIsCovered ==
  ASSUME Layout, NEW c \in Page, Exists(c), NEW p \in Probe, FoundBy(c, p)
  PROVE  Covers(c, p)
<1>1. c \in Int /\ p \in Int BY SizeAssumption DEF Page, Probe
<1>2. chunk[c].size \in Nat \ {0} BY DEF Layout, ChunksInRange
<1> QED BY <1>1, <1>2 DEF FoundBy, Ends, Interior, Covers

LEMMA FoundApart ==
  ASSUME Layout, NEW c \in Page, Exists(c), NEW d \in Page, Exists(d), c # d,
         NEW p \in Probe, FoundBy(d, p)
  PROVE  p < c \/ c + chunk[c].size <= p
<1>1. c \in Int /\ p \in Int BY SizeAssumption DEF Page, Probe
<1>2. chunk[c].size \in Nat \ {0} BY DEF Layout, ChunksInRange
<1>3. Covers(d, p) BY FoundIsCovered
<1>4. ~Covers(c, p) BY <1>1, <1>3, CoveredOnce
<1> QED BY <1>1, <1>2, <1>4 DEF Covers

-----------------------------------------------------------------------------
(* Handing out: a free chunk is cut and its front put to use *)

\* What chunk'[p] is, as far as the layout depends on it.
Becomes(p, state, size, arena, slab) ==
  /\ chunk'[p].state = state
  /\ chunk'[p].size = size
  /\ chunk'[p].arena = arena
  /\ chunk'[p].slab = slab

OthersKept(S) == \A p \in Page \ S : chunk'[p] = chunk[p]

CutTo(c, n, slab) ==
  LET old == chunk[c]
  IN  /\ Becomes(c, "active", n, old.arena, slab)
      /\ n = old.size => OthersKept({c})
      /\ n < old.size => /\ OthersKept({c, c + n})
                         /\ Becomes(c + n, old.state, old.size - n, old.arena, FALSE)

LEMMA HandOutCuts ==
  ASSUME TypeOK, Layout,
         NEW a \in Arena, NEW c \in Page, NEW rt, NEW n \in Nat \ {0}, NEW slab \in BOOLEAN,
         Exists(c), n <= chunk[c].size, HandOut(a, c, rt, n, slab)
  PROVE  chunk' \in [Page -> Chunk] /\ CutTo(c, n, slab)
<1> DEFINE old == chunk[c]
<1>f. PICK front :
        front = [old EXCEPT !.state = "active", !.size = n, !.epoch = epoch[a], !.slab = slab]
  OBVIOUS
<1>r. PICK rest : rest = [old EXCEPT !.size = old.size - n, !.slab = FALSE]
  OBVIOUS
<1>1. /\ old \in Chunk /\ old.size \in Nat \ {0} /\ old.size <= NumPages
      /\ c \in Int /\ NumPages \in Nat /\ c + old.size - 1 \in Page
  BY SizeAssumption, ChunkFacts DEF Page
<1>2. front \in Chunk /\ front.state = "active" /\ front.size = n
      /\ front.arena = old.arena /\ front.slab = slab
  <2>1. epoch[a] \in 0..(EpochLimit - 1) BY DEF TypeOK
  <2>2. n \in 0..NumPages BY <1>1
  <2> QED BY <1>f, <1>1, <2>1, <2>2 DEF Chunk
<1>3. n < old.size => rest \in Chunk /\ rest.state = old.state /\ rest.size = old.size - n
                      /\ rest.arena = old.arena /\ rest.slab = FALSE
  <2>1. n < old.size => old.size - n \in 0..NumPages BY <1>1
  <2> QED BY <1>r, <1>1, <2>1 DEF Chunk
<1>4. n < old.size => c + n \in Page /\ c + n # c BY <1>1 DEF Page
<1>5. chunk' = [p \in Page |->
        IF p = c THEN front ELSE IF n < old.size /\ p = c + n THEN rest ELSE chunk[p]]
  BY <1>f, <1>r DEF HandOut
<1>6. \A p \in Page : chunk[p] \in Chunk BY DEF TypeOK
<1>7. chunk' \in [Page -> Chunk] BY <1>2, <1>3, <1>5, <1>6
<1>8. Becomes(c, "active", n, old.arena, slab) BY <1>2, <1>5 DEF Becomes
<1>9. n = old.size => OthersKept({c}) BY <1>1, <1>5 DEF OthersKept
<1>10. n < old.size => OthersKept({c, c + n}) BY <1>5 DEF OthersKept
<1>11. n < old.size => Becomes(c + n, old.state, old.size - n, old.arena, FALSE)
  BY <1>3, <1>4, <1>5 DEF Becomes
<1> QED BY <1>7, <1>8, <1>9, <1>10, <1>11 DEF CutTo

\* Cutting keeps chunks apart and in range.
LEMMA CutLayout ==
  ASSUME TypeOK, Layout, NEW c \in Page, NEW n \in Sizes, NEW slab \in BOOLEAN,
         chunk[c].state \in {"dirty", "clean"}, n <= chunk[c].size, CutTo(c, n, slab)
  PROVE  Layout' /\ (n < chunk[c].size => c + n \in Page /\ ~Exists(c + n))
<1> DEFINE old == chunk[c]
           tail == c + n
<1>1. n \in Nat \ {0} BY SizesArePositive
<1>2. /\ Exists(c) /\ old.size \in Nat \ {0} /\ c + old.size - 1 \in Page
      /\ old.arena \in Arena /\ NumPages \in Nat
  BY SizeAssumption, ChunkFacts DEF Exists
<1>3. CASE n = old.size
  <2>1. Becomes(c, "active", n, old.arena, slab) /\ OthersKept({c}) BY <1>3 DEF CutTo
  <2>2. ChunksInRange'
    BY <1>1, <1>2, <1>3, <2>1 DEF Layout, ChunksInRange, Exists, Becomes, OthersKept
  <2>3. ChunksInOrder'
    BY <1>1, <1>2, <1>3, <2>1 DEF Layout, ChunksInOrder, Exists, Becomes, OthersKept
  <2>4. ActiveFits' BY <2>1 DEF Layout, ActiveFits, Sizes, Becomes, OthersKept
  <2> QED BY <1>3, <1>1, <2>2, <2>3, <2>4 DEF Layout
<1>4. CASE n < old.size
  <2>1. /\ Becomes(c, "active", n, old.arena, slab)
        /\ Becomes(tail, old.state, old.size - n, old.arena, FALSE)
        /\ OthersKept({c, tail})
    BY <1>4 DEF CutTo
  <2>2. tail \in Page /\ tail # c BY <1>1, <1>2, <1>4 DEF Page
  <2>3. \A d \in Page : Exists(d) /\ c < d => c + old.size <= d
    BY <1>2 DEF Layout, ChunksInOrder
  <2>4. \A d \in Page : Exists(d) /\ d < c => d + chunk[d].size <= c
    BY <1>2 DEF Layout, ChunksInOrder
  <2>5. ~Exists(tail) BY <1>1, <1>2, <1>4, <2>2, <2>3 DEF Page
  <2>6. tail + (old.size - n) = c + old.size BY <1>1, <1>2 DEF Page
  <2>7. ChunksInRange'
    <3>1. tail + (old.size - n) - 1 \in Page BY <1>1, <1>2, <2>6 DEF Page
    <3>2. c + n - 1 \in Page BY <1>1, <1>2, <1>4 DEF Page
    <3>3. old.size - n \in Nat \ {0} BY <1>1, <1>2, <1>4
    <3> QED BY <1>1, <1>2, <2>1, <3>1, <3>2, <3>3
            DEF Layout, ChunksInRange, Exists, Becomes, OthersKept
  <2>8. ChunksInOrder'
    <3> SUFFICES ASSUME NEW d \in Page, NEW e \in Page, Exists(d)', Exists(e)', d < e
                 PROVE  d + chunk'[d].size <= e
      BY DEF ChunksInOrder
    <3> USE DEF Becomes, OthersKept
    <3>1. \A p \in Page \ {c, tail} : Exists(p)' <=> Exists(p) BY <2>1 DEF Exists
    <3>2. c \in Int /\ d \in Int /\ e \in Int BY DEF Page
    <3>3. CASE d = c
      <4>1. d + chunk'[d].size = tail BY <2>1, <3>3
      <4>2. CASE e = tail BY <4>1, <4>2, <1>1, <3>2
      <4>3. CASE e # tail
        <5>1. c + old.size <= e BY <2>3, <3>1, <3>2, <3>3, <4>3
        <5> QED BY <1>1, <1>2, <1>4, <3>2, <4>1, <5>1
      <4> QED BY <4>2, <4>3
    <3>4. CASE d = tail
      <4>1. d + chunk'[d].size = c + old.size BY <2>1, <2>6, <3>4
      <4>2. e # c /\ e # tail /\ c < e BY <1>1, <3>2, <3>4
      <4> QED BY <2>3, <3>1, <4>1, <4>2
    <3>5. CASE d # c /\ d # tail
      <4>1. chunk'[d] = chunk[d] /\ Exists(d) BY <2>1, <3>1, <3>5
      <4>2. CASE e = c BY <2>4, <3>5, <4>1, <4>2
      <4>3. CASE e = tail
        <5>1. d < c BY <1>1, <1>2, <1>4, <2>3, <3>2, <3>5, <4>1, <4>3
        <5>2. d + chunk[d].size <= c BY <2>4, <4>1, <5>1
        <5>3. chunk[d].size \in Nat BY <4>1, ChunkFacts
        <5> QED BY <1>1, <3>2, <4>1, <4>3, <5>2, <5>3
      <4>4. CASE e # c /\ e # tail BY <3>1, <4>1, <4>4 DEF Layout, ChunksInOrder
      <4> QED BY <4>2, <4>3, <4>4
    <3> QED BY <3>3, <3>4, <3>5
  <2>9. ActiveFits' BY <2>1 DEF Layout, ActiveFits, Becomes, OthersKept
  <2> QED BY <1>4, <2>2, <2>5, <2>7, <2>8, <2>9 DEF Layout
<1> QED BY <1>1, <1>2, <1>3, <1>4

\* What a page map should be when c is registered and, of the others, those
\* that are not detached.
MapExactBut(rt, c) ==
  \A p \in Probe, d \in Page :
    rt[p] = d <=> Exists(d) /\ (~Detached(d) \/ d = c) /\ FoundBy(d, p)

\* Cutting re-registers what was cut; c, had a call detached it, is detached
\* no longer.
LEMMA CutMap ==
  ASSUME TypeOK, Layout,
         NEW a \in Arena, NEW c \in Page, NEW rt \in [Probe -> 0..NumPages],
         NEW n \in Sizes, NEW slab \in BOOLEAN,
         chunk[c].state \in {"dirty", "clean"}, n <= chunk[c].size,
         HandOut(a, c, rt, n, slab), CutTo(c, n, slab), MapExactBut(rt, c),
         \A d \in Page : Detached(d) => Exists(d),
         \A d \in Page : Detached(d)' <=> Detached(d) /\ d # c
  PROVE  rtree' \in [Probe -> 0..NumPages] /\ PageMapExact'
<1> DEFINE w == chunk[c].size
           tail == c + n
<1>1. /\ Exists(c) /\ w \in Nat \ {0} /\ n \in Nat \ {0} /\ c \in Int
      /\ c \in 0..NumPages /\ c # NoPage /\ c + w - 1 \in Page
  BY SizeAssumption, ChunkFacts, SizesArePositive DEF Exists, Page, NoPage
<1>2. \A d \in Page, p \in Probe : d # c /\ Exists(d) /\ FoundBy(d, p) => p < c \/ c + w <= p
  BY <1>1, FoundApart
<1>3. \A p \in Probe : rt[p] = c <=> p \in {c, c + w - 1}
  BY <1>1 DEF MapExactBut, FoundBy, Ends
<1>4. \A d \in Page : OthersKept({c}) /\ d # c =>
        /\ Exists(d)' <=> Exists(d)
        /\ \A p \in Probe : FoundBy(d, p)' <=> FoundBy(d, p)
  BY DEF OthersKept, Exists, FoundBy
<1>5. \A d \in Page : OthersKept({c, tail}) /\ d # c /\ d # tail =>
        /\ Exists(d)' <=> Exists(d)
        /\ \A p \in Probe : FoundBy(d, p)' <=> FoundBy(d, p)
  BY DEF OthersKept, Exists, FoundBy
<1>6. /\ Exists(c)'
      /\ \A p \in Probe : FoundBy(c, p)' <=> \/ p \in {c, c + n - 1}
                                             \/ slab /\ p \in (c + 1)..(c + n - 2)
  BY DEF CutTo, Becomes, Exists, FoundBy, Ends, Interior
<1>7. ~Detached(c)' BY DEF CutTo
<1>8. CASE n = w
  <2>1. \A p \in Probe : rtree'[p] =
          IF slab /\ p \in (c + 1)..(c + n - 2) THEN c ELSE rt[p]
    BY <1>1, <1>8 DEF HandOut, Insert, Interior
  <2>2. rtree' \in [Probe -> 0..NumPages] BY <1>1, <1>8 DEF HandOut, Insert
  <2>3. OthersKept({c}) BY <1>8 DEF CutTo
  <2>4. ASSUME NEW p \in Probe PROVE rtree'[p] = c <=> FoundBy(c, p)'
    BY <1>3, <1>6, <1>8, <2>1
  <2>5. ASSUME NEW p \in Probe, NEW d \in Page, d # c
        PROVE  rtree'[p] = d <=> Exists(d) /\ ~Detached(d) /\ FoundBy(d, p)
    <3>1. rt[p] = d <=> Exists(d) /\ ~Detached(d) /\ FoundBy(d, p)
      BY <2>5 DEF MapExactBut
    <3>2. CASE slab /\ p \in (c + 1)..(c + n - 2)
      <4>1. p \in Int BY SizeAssumption DEF Probe
      <4>2. ~(Exists(d) /\ FoundBy(d, p)) BY <1>1, <1>2, <1>8, <2>5, <3>2, <4>1
      <4> QED BY <2>1, <2>5, <3>2, <4>2
    <3>3. CASE ~(slab /\ p \in (c + 1)..(c + n - 2)) BY <2>1, <3>1, <3>3
    <3> QED BY <3>2, <3>3
  <2>6. PageMapExact' BY <1>4, <1>6, <1>7, <2>3, <2>4, <2>5 DEF PageMapExact
  <2> QED BY <2>2, <2>6
<1>9. CASE n < w
  <2>1. tail \in Page /\ ~Exists(tail) /\ tail # c /\ tail \in 0..NumPages
    BY <1>1, <1>9, CutLayout DEF Page
  <2>2. /\ OthersKept({c, tail})
        /\ Becomes(tail, chunk[c].state, w - n, chunk[c].arena, FALSE)
    BY <1>9 DEF CutTo
  <2>3. \A p \in Probe : rtree'[p] =
          IF slab /\ p \in (c + 1)..(c + n - 2) THEN c
          ELSE IF p \in {tail, c + w - 1} THEN tail
          ELSE IF p \in {c, c + n - 1} THEN c
          ELSE IF p \in {c, c + w - 1} THEN NoPage
          ELSE rt[p]
    <3>1. tail + (w - n) - 1 = c + w - 1 BY <1>1
    <3> QED BY <1>1, <1>9, <3>1 DEF HandOut, SplitRtree, Insert, Delete, Interior, Ends
  <2>4. rtree' \in [Probe -> 0..NumPages]
    <3>1. NoPage \in 0..NumPages BY SizeAssumption DEF NoPage
    <3> QED BY <1>1, <1>9, <2>1, <3>1 DEF HandOut, SplitRtree, Insert, Delete
  <2>5. /\ Exists(tail)' /\ ~Detached(tail)'
        /\ \A p \in Probe : FoundBy(tail, p)' <=> p \in {tail, c + w - 1}
    <3>1. tail + (w - n) - 1 = c + w - 1 BY <1>1
    <3>2. ~Detached(tail)' BY <2>1
    <3> QED BY <2>2, <3>1, <3>2 DEF Becomes, Exists, FoundBy, Ends
  <2>6. ASSUME NEW p \in Probe PROVE rtree'[p] = c <=> FoundBy(c, p)'
    <3>1. p \in Int BY SizeAssumption DEF Probe
    <3> QED BY <1>1, <1>3, <1>6, <1>9, <2>3, <3>1 DEF NoPage
  <2>7. ASSUME NEW p \in Probe PROVE rtree'[p] = tail <=> FoundBy(tail, p)'
    <3>1. p \in Int BY SizeAssumption DEF Probe
    <3>2. rt[p] # tail BY <2>1 DEF MapExactBut
    <3>3. tail # NoPage BY <1>1 DEF NoPage, Page
    <3> QED BY <1>1, <1>9, <2>1, <2>3, <2>5, <3>1, <3>2, <3>3
  <2>8. ASSUME NEW p \in Probe, NEW d \in Page, d # c, d # tail
        PROVE  rtree'[p] = d <=> Exists(d) /\ ~Detached(d) /\ FoundBy(d, p)
    <3>1. rt[p] = d <=> Exists(d) /\ ~Detached(d) /\ FoundBy(d, p)
      BY <2>8 DEF MapExactBut
    <3>2. p \in Int /\ d # NoPage BY SizeAssumption DEF Probe, Page, NoPage
    <3>3. CASE c <= p /\ p < c + w
      <4>1. ~(Exists(d) /\ FoundBy(d, p)) BY <1>1, <1>2, <2>8, <3>2, <3>3
      <4> QED BY <2>3, <2>8, <3>1, <3>2, <4>1
    <3>4. CASE p < c \/ c + w <= p
      <4>1. rtree'[p] = rt[p] BY <1>1, <1>9, <2>3, <3>2, <3>4
      <4> QED BY <3>1, <4>1
    <3> QED BY <1>1, <3>2, <3>3, <3>4
  <2>9. PageMapExact'
    <3> SUFFICES ASSUME NEW p \in Probe, NEW d \in Page
                 PROVE  rtree'[p] = d <=> Exists(d)' /\ ~Detached(d)' /\ FoundBy(d, p)'
      BY DEF PageMapExact
    <3>1. CASE d = c BY <1>6, <1>7, <2>6, <3>1
    <3>2. CASE d = tail BY <2>5, <2>7, <3>2
    <3>3. CASE d # c /\ d # tail BY <1>5, <2>2, <2>8, <3>3
    <3> QED BY <3>1, <3>2, <3>3
  <2> QED BY <2>4, <2>9
<1> QED BY <1>1, <1>8, <1>9

LEMMA CutCovered ==
  ASSUME TypeOK, Layout, NEW c \in Page, NEW n \in Sizes, NEW slab \in BOOLEAN,
         chunk[c].state \in {"dirty", "clean"}, n <= chunk[c].size, CutTo(c, n, slab),
         MappedIsCovered, mapped' = mapped
  PROVE  MappedIsCovered'
<1> DEFINE w == chunk[c].size
           tail == c + n
<1>1. /\ Exists(c) /\ w \in Nat \ {0} /\ n \in Nat \ {0} /\ c \in Int
  BY SizeAssumption, ChunkFacts, SizesArePositive DEF Exists, Page
<1>2. \A p \in Page : p \in Int BY SizeAssumption DEF Page
<1>3. \A p \in Int : Covers(c, p)' <=> c <= p /\ p < c + n
  BY DEF CutTo, Becomes, Covers, Exists
<1>4. \A p \in Int : Covers(c, p) <=> c <= p /\ p < c + w BY <1>1 DEF Covers
<1> SUFFICES ASSUME NEW p \in Page
             PROVE  (\E d \in Page : Covers(d, p)') <=> (\E d \in Page : Covers(d, p))
  BY DEF MappedIsCovered
<1>5. CASE n = w
  <2>1. \A d \in Page : d # c => (Covers(d, p)' <=> Covers(d, p))
    BY <1>5 DEF CutTo, OthersKept, Covers, Exists
  <2>2. Covers(c, p)' <=> Covers(c, p) BY <1>2, <1>3, <1>4, <1>5
  <2> QED BY <2>1, <2>2
<1>6. CASE n < w
  <2>1. tail \in Page /\ ~Exists(tail) /\ tail # c BY <1>1, <1>6, CutLayout
  <2>2. \A d \in Page : d # c /\ d # tail => (Covers(d, p)' <=> Covers(d, p))
    BY <1>6 DEF CutTo, OthersKept, Covers, Exists
  <2>3. Covers(tail, p)' <=> tail <= p /\ p < c + w
    <3>1. tail + (w - n) = c + w BY <1>1
    <3> QED BY <1>6, <3>1 DEF CutTo, Becomes, Covers, Exists
  <2>4. Covers(c, p)' \/ Covers(tail, p)' <=> Covers(c, p)
    BY <1>1, <1>2, <1>3, <1>4, <1>6, <2>3
  <2>5. ~Covers(tail, p) BY <2>1 DEF Covers
  <2> QED BY <2>1, <2>2, <2>4, <2>5
<1>7. n = w \/ n < w BY <1>1
<1> QED BY <1>5, <1>6, <1>7

BinsAreSets == [Arena -> [Pind -> SUBSET Page]]

\* One half of BinsMatch, and the same of the bins after a step.
Exact(bins, state) ==
  \A a \in Arena, i \in Pind, c \in Page :
    c \in bins[a][i] <=> chunk[c].state = state /\ BelongsFit(c, a, i)

ExactNext(bins, state) ==
  \A a \in Arena, i \in Pind, c \in Page :
    c \in bins[a][i] <=> chunk'[c].state = state /\ BelongsFit(c, a, i)'

LEMMA BinsExactly ==
  /\ BinsMatch <=> Exact(dirty, "dirty") /\ Exact(clean, "clean")
  /\ BinsMatch' <=> ExactNext(dirty', "dirty") /\ ExactNext(clean', "clean")
BY DEF BinsMatch, Exact, ExactNext

\* What is cut leaves its bin, had it one, and the rest goes to the bin of its
\* size: bins of the state the chunk had ...
LEMMA CutBins ==
  ASSUME TypeOK, Layout,
         NEW a \in Arena, NEW c \in Page, NEW n \in Sizes, NEW slab \in BOOLEAN,
         NEW state \in {"dirty", "clean"}, chunk[c].state = state,
         chunk[c].arena = a, n <= chunk[c].size, CutTo(c, n, slab),
         NEW bins \in BinsAreSets, Exact(bins, state),
         NEW after, after = [bins EXCEPT ![a] = Rebin(bins[a], c, chunk[c].size, n)],
         \A d \in Page : Detached(d) => Exists(d),
         \A d \in Page : Detached(d)' <=> Detached(d) /\ d # c
  PROVE  after \in BinsAreSets /\ ExactNext(after, state)
<1> DEFINE w == chunk[c].size
           tail == c + n
<1>1. /\ Exists(c) /\ w \in Nat \ {0} /\ n \in Nat \ {0} /\ c \in Int
      /\ n < w => tail \in Page /\ ~Exists(tail) /\ tail # c
  BY SizeAssumption, ChunkFacts, SizesArePositive, CutLayout DEF Exists, Page
<1>2. bins[a] \in [Pind -> SUBSET Page] BY DEF BinsAreSets
<1>3. \A b \in Arena, i \in Pind, d \in Page :
        d \in after[b][i] <=> \/ d \in bins[b][i] /\ ~(b = a /\ d = c)
                              \/ b = a /\ n < w /\ i = get_fit_pind(w - n) /\ d = tail
  <2>1. n < w => w - n \in Nat \ {0} BY <1>1
  <2>2. n < w => get_fit_pind(w - n) \in Pind BY <2>1, FitPind
  <2>3. \A i \in Pind, d \in Page :
          d \in Rebin(bins[a], c, w, n)[i] <=>
            \/ d \in bins[a][i] /\ d # c
            \/ n < w /\ i = get_fit_pind(w - n) /\ d = tail
    BY <1>1, <1>2, <2>2 DEF Rebin, Push, Pop
  <2>4. /\ after[a] = Rebin(bins[a], c, w, n)
        /\ \A b \in Arena : b # a => after[b] = bins[b]
    BY DEF BinsAreSets
  <2> QED BY <2>3, <2>4
<1>4. after \in BinsAreSets
  <2>1. n < w => w - n \in Nat \ {0} BY <1>1
  <2>2. n < w => get_fit_pind(w - n) \in Pind BY <2>1, FitPind
  <2>3. Rebin(bins[a], c, w, n) \in [Pind -> SUBSET Page]
    BY <1>1, <1>2, <2>2 DEF Rebin, Push, Pop
  <2> QED BY <2>3 DEF BinsAreSets
<1>5. \A b \in Arena, i \in Pind : b # a => c \notin bins[b][i] BY DEF Exact, BelongsFit
<1>6. n < w => \A b \in Arena, i \in Pind : tail \notin bins[b][i]
  BY <1>1 DEF Exact, Exists
<1>7. /\ chunk'[c].state = "active"
      /\ n = w => OthersKept({c})
      /\ n < w => /\ OthersKept({c, tail})
                  /\ chunk'[tail].state = state /\ chunk'[tail].size = w - n
                  /\ chunk'[tail].arena = a
  BY DEF CutTo, Becomes
<1>8. n < w => ~Detached(tail)' BY <1>1
<1>9. ASSUME NEW b \in Arena, NEW i \in Pind, NEW d \in Page
      PROVE  d \in after[b][i] <=> chunk'[d].state = state /\ BelongsFit(d, b, i)'
  <2>1. CASE d = c
    <3>1. c \notin after[b][i] BY <1>1, <1>3, <1>5
    <3> QED BY <1>7, <2>1, <3>1
  <2>2. CASE n < w /\ d = tail
    <3>1. BelongsFit(tail, b, i)' <=> b = a /\ i = get_fit_pind(w - n)
      BY <1>7, <1>8, <2>2 DEF BelongsFit
    <3>2. tail \in after[b][i] <=> b = a /\ i = get_fit_pind(w - n)
      BY <1>1, <1>3, <1>6, <2>2
    <3> QED BY <1>7, <2>2, <3>1, <3>2
  <2>3. CASE d # c /\ (n < w => d # tail)
    <3>1. n = w \/ n < w BY <1>1
    <3>2. chunk'[d] = chunk[d] BY <1>7, <2>3, <3>1 DEF OthersKept
    <3>3. Detached(d)' <=> Detached(d) BY <2>3
    <3>4. BelongsFit(d, b, i)' <=> BelongsFit(d, b, i) BY <3>2, <3>3 DEF BelongsFit
    <3>5. d \in after[b][i] <=> d \in bins[b][i] BY <1>3, <2>3
    <3> QED BY <3>2, <3>4, <3>5 DEF Exact
  <2> QED BY <2>1, <2>2, <2>3
<1> QED BY <1>4, <1>9 DEF ExactNext

\* ... and of the other.
LEMMA CutOtherBins ==
  ASSUME TypeOK, Layout,
         NEW c \in Page, NEW n \in Sizes, NEW slab \in BOOLEAN,
         NEW state \in {"dirty", "clean"},
         chunk[c].state \in {"dirty", "clean"}, chunk[c].state # state,
         n <= chunk[c].size, CutTo(c, n, slab),
         NEW bins \in BinsAreSets, Exact(bins, state),
         \A d \in Page : Detached(d) => Exists(d),
         \A d \in Page : Detached(d)' <=> Detached(d) /\ d # c
  PROVE  ExactNext(bins, state)
<1> DEFINE w == chunk[c].size
           tail == c + n
<1>1. /\ Exists(c) /\ w \in Nat \ {0} /\ n \in Nat \ {0}
      /\ n < w => tail \in Page /\ ~Exists(tail)
  BY SizeAssumption, ChunkFacts, SizesArePositive, CutLayout DEF Exists
<1>2. /\ chunk'[c].state # state
      /\ n = w => OthersKept({c})
      /\ n < w => OthersKept({c, tail}) /\ chunk'[tail].state # state
  BY DEF CutTo, Becomes
<1>3. ASSUME NEW b \in Arena, NEW i \in Pind, NEW d \in Page
      PROVE  d \in bins[b][i] <=> chunk'[d].state = state /\ BelongsFit(d, b, i)'
  <2>1. CASE d = c BY <1>2, <2>1 DEF Exact
  <2>2. CASE n < w /\ d = tail BY <1>1, <1>2, <2>2 DEF Exact, Exists
  <2>3. CASE d # c /\ (n < w => d # tail)
    <3>1. n = w \/ n < w BY <1>1
    <3>2. chunk'[d] = chunk[d] BY <1>2, <2>3, <3>1 DEF OthersKept
    <3>3. Detached(d)' <=> Detached(d) BY <2>3
    <3>4. BelongsFit(d, b, i)' <=> BelongsFit(d, b, i) BY <3>2, <3>3 DEF BelongsFit
    <3> QED BY <3>2, <3>4 DEF Exact
  <2> QED BY <2>1, <2>2, <2>3
<1> QED BY <1>3 DEF ExactNext

-----------------------------------------------------------------------------
(* Calls and what they hold *)

Call == [step : Steps, base : 0..NumPages, need : 0..NumPages, slab : BOOLEAN]

OthersWait(a) == \A b \in Arena : b # a => op'[b] = op[b]

LEMMA GotoEffect ==
  ASSUME TypeOK, NEW a \in Arena, NEW step \in Steps, Goto(a, step)
  PROVE  op' \in [Arena -> Call] /\ op'[a].step = step /\ OthersWait(a)
<1>1. op \in [Arena -> Call] BY DEF TypeOK, Call
<1>2. /\ [Idle EXCEPT !.step = step] \in Call
      /\ [Idle EXCEPT !.step = step].step = step
  <2>1. 0 \in 0..NumPages BY SizeAssumption
  <2>2. Idle \in Call BY <2>1 DEF Idle, Call, NoPage, Steps
  <2> QED BY <2>1, <2>2 DEF Call
<1> QED BY <1>1, <1>2 DEF Goto, OthersWait

LEMMA EventEffect ==
  ASSUME TypeOK, NEW a \in Arena, Event(a)
  PROVE  /\ op' \in [Arena -> Call] /\ op'[a].step \notin HoldSteps /\ OthersWait(a)
         /\ tick' \in [Arena -> 0..MaxEventTick]
<1>1. tick \in [Arena -> 0..MaxEventTick] BY DEF TypeOK
<1>2. CASE tick[a] + 1 > MaxEventTick
  <2>1. Goto(a, "gc") /\ tick' = [tick EXCEPT ![a] = 0] BY <1>2 DEF Event
  <2>2. tick' \in [Arena -> 0..MaxEventTick] BY <1>1, <2>1, CounterAssumption
  <2>3. "gc" \in Steps /\ "gc" \notin HoldSteps BY DEF Steps, HoldSteps
  <2> QED BY <2>1, <2>2, <2>3, GotoEffect
<1>3. CASE ~(tick[a] + 1 > MaxEventTick)
  <2>1. Goto(a, "idle") /\ tick' = [tick EXCEPT ![a] = tick[a] + 1] BY <1>3 DEF Event
  <2>2. tick' \in [Arena -> 0..MaxEventTick] BY <1>1, <1>3, <2>1, CounterAssumption
  <2>3. "idle" \in Steps /\ "idle" \notin HoldSteps BY DEF Steps, HoldSteps
  <2> QED BY <2>1, <2>2, <2>3, GotoEffect
<1> QED BY <1>2, <1>3

\* A chunk one call has is in no other's hands.
LEMMA HeldOnce ==
  ASSUME CallsOwnChunk, NEW c \in Page, NEW a \in Arena, Holds(a, c)
  PROVE  /\ chunk[c].state \in {"dirty", "clean"} /\ chunk[c].arena = a
         /\ \A b \in Arena : Holds(b, c) => b = a
BY DEF CallsOwnChunk, CallOwns, Holds, HoldSteps

LEMMA DetachedExists ==
  ASSUME CallsOwnChunk, NEW c \in Page, Detached(c)
  PROVE  Exists(c) /\ chunk[c].state # "active"
BY HeldOnce DEF Detached, Exists

\* What the others hold is not touched: it stays theirs.
LEMMA OthersOwn ==
  ASSUME CallsOwnChunk, NEW a \in Arena, OthersWait(a),
         \A b \in Arena, c \in Page : b # a /\ Holds(b, c) => chunk'[c] = chunk[c]
  PROVE  \A b \in Arena : b # a => CallOwns(b)'
<1> SUFFICES ASSUME NEW b \in Arena, b # a PROVE CallOwns(b)' OBVIOUS
<1>1. op'[b] = op[b] /\ CallOwns(b) BY DEF OthersWait, CallsOwnChunk
<1>2. op[b].step \in HoldSteps => chunk'[op[b].base] = chunk[op[b].base]
  BY <1>1 DEF CallOwns, Holds, HoldSteps
<1> QED BY <1>1, <1>2 DEF CallOwns, At

\* The call of a holds nothing any more.
LEMMA NoLongerDetached ==
  ASSUME CallsOwnChunk, NEW a \in Arena, OthersWait(a), op'[a].step \notin HoldSteps
  PROVE  \A c \in Page : Detached(c)' <=> Detached(c) /\ ~Holds(a, c)
<1> SUFFICES ASSUME NEW c \in Page
             PROVE  Detached(c)' <=> Detached(c) /\ ~Holds(a, c)
  OBVIOUS
<1>1. ~Holds(a, c)' BY DEF Holds, HoldSteps
<1>2. \A b \in Arena : b # a => (Holds(b, c)' <=> Holds(b, c)) BY DEF OthersWait, Holds
<1>3. Holds(a, c) => \A b \in Arena : Holds(b, c) => b = a BY HeldOnce
<1> QED BY <1>1, <1>2, <1>3 DEF Detached

-----------------------------------------------------------------------------
(* The actions of AllocChunk *)

LEMMA HandOutIInv ==
  ASSUME IInv,
         NEW a \in Arena, NEW c \in Page, NEW rt \in [Probe -> 0..NumPages],
         NEW n \in Sizes, NEW slab \in BOOLEAN,
         chunk[c].state \in {"dirty", "clean"}, chunk[c].arena = a, n <= chunk[c].size,
         op[a].step \in HoldSteps => op[a].base = c,
         Detached(c) => Holds(a, c),
         MapExactBut(rt, c), HandOut(a, c, rt, n, slab), Event(a),
         chunk[c].state = "dirty" =>
           dirty' = [dirty EXCEPT ![a] = Rebin(@, c, chunk[c].size, n)] /\ clean' = clean,
         chunk[c].state = "clean" =>
           clean' = [clean EXCEPT ![a] = Rebin(@, c, chunk[c].size, n)] /\ dirty' = dirty,
         UNCHANGED <<mapped, epoch>>
  PROVE  IInv'
<1> USE DEF IInv
<1>1. n \in Nat \ {0} /\ Exists(c) BY SizesArePositive DEF Exists
<1>2. chunk' \in [Page -> Chunk] /\ CutTo(c, n, slab) BY <1>1, HandOutCuts
<1>3. Layout' /\ (n < chunk[c].size => c + n \in Page /\ ~Exists(c + n)) BY <1>2, CutLayout
<1>4. MappedIsCovered' BY <1>2, CutCovered
<1>5. /\ op' \in [Arena -> Call] /\ op'[a].step \notin HoldSteps /\ OthersWait(a)
      /\ tick' \in [Arena -> 0..MaxEventTick]
  BY EventEffect
<1>6. \A d \in Page : Detached(d) => Exists(d) BY DetachedExists
<1>7. \A d \in Page : Detached(d)' <=> Detached(d) /\ d # c
  <2>1. \A d \in Page : Detached(d)' <=> Detached(d) /\ ~Holds(a, d)
    BY <1>5, NoLongerDetached
  <2>2. \A d \in Page : Holds(a, d) => d = c BY DEF Holds, HoldSteps
  <2> QED BY <2>1, <2>2
<1>8. CallsOwnChunk'
  <2>1. ASSUME NEW b \in Arena, NEW d \in Page, b # a, Holds(b, d) PROVE chunk'[d] = chunk[d]
    <3>1. d # c BY <2>1, HeldOnce
    <3>2. n < chunk[c].size => d # c + n BY <1>3, <1>6, <2>1 DEF Detached
    <3>3. n = chunk[c].size \/ n < chunk[c].size BY <1>1, ChunkFacts
    <3> QED BY <1>2, <3>1, <3>2, <3>3 DEF CutTo, OthersKept
  <2>2. \A b \in Arena : b # a => CallOwns(b)' BY <1>5, <2>1, OthersOwn
  <2>3. CallOwns(a)' BY <1>5 DEF CallOwns
  <2> QED BY <2>2, <2>3 DEF CallsOwnChunk
<1>9. rtree' \in [Probe -> 0..NumPages] /\ PageMapExact' BY <1>2, <1>6, <1>7, CutMap
<1>10. dirty' \in BinsAreSets /\ clean' \in BinsAreSets /\ BinsMatch'
  <2>1. /\ dirty \in BinsAreSets /\ clean \in BinsAreSets
        /\ Exact(dirty, "dirty") /\ Exact(clean, "clean")
    BY BinsExactly DEF TypeOK, BinsAreSets
  <2>2. CASE chunk[c].state = "dirty"
    <3>1. dirty' \in BinsAreSets /\ ExactNext(dirty', "dirty")
      BY <1>2, <1>6, <1>7, <2>1, <2>2, CutBins
    <3>2. ExactNext(clean, "clean") BY <1>2, <1>6, <1>7, <2>1, <2>2, CutOtherBins
    <3> QED BY <2>1, <2>2, <3>1, <3>2, BinsExactly
  <2>3. CASE chunk[c].state = "clean"
    <3>1. clean' \in BinsAreSets /\ ExactNext(clean', "clean")
      BY <1>2, <1>6, <1>7, <2>1, <2>3, CutBins
    <3>2. ExactNext(dirty, "dirty") BY <1>2, <1>6, <1>7, <2>1, <2>3, CutOtherBins
    <3> QED BY <2>1, <2>3, <3>1, <3>2, BinsExactly
  <2> QED BY <2>2, <2>3
<1>11. TypeOK' BY <1>2, <1>5, <1>9, <1>10 DEF TypeOK, Call, BinsAreSets
<1> QED BY <1>3, <1>4, <1>8, <1>9, <1>10, <1>11

\* First fit finds free chunks of the arena that are large enough.
LEMMA FirstFit ==
  ASSUME TypeOK, Layout, NEW a \in Arena, NEW n \in Sizes, n <= StandardChunk,
         NEW state \in {"dirty", "clean"}, NEW bins \in BinsAreSets, Exact(bins, state),
         NEW c \in FindSuitableChunk(bins[a], sz_to_pind(n))
  PROVE  /\ c \in Page
         /\ chunk[c].state = state /\ chunk[c].arena = a /\ n <= chunk[c].size
         /\ ~Detached(c)
<1>1. PICK i \in Pind : sz_to_pind(n) <= i /\ c \in bins[a][i] BY DEF FindSuitableChunk
<1>2. c \in Page BY <1>1 DEF BinsAreSets
<1>3. /\ chunk[c].state = state /\ chunk[c].arena = a /\ ~Detached(c)
      /\ i = get_fit_pind(chunk[c].size)
  BY <1>1, <1>2 DEF Exact, BelongsFit
<1>4. n \in Nat \ {0} /\ chunk[c].size \in Nat \ {0}
  BY <1>2, <1>3, SizesArePositive, ChunkFacts DEF Exists
<1>5. sz_to_pind(n) \in Pind /\ n <= ClassSize[sz_to_pind(n)] BY <1>4, PindLeast
<1>6. ClassSize[i] <= chunk[c].size BY <1>3, <1>4, FitPind
<1>7. ClassSize[sz_to_pind(n)] <= ClassSize[i]
  BY <1>1, <1>5, SizeAssumption DEF Pind
<1>8. ClassSize[i] \in Nat /\ ClassSize[sz_to_pind(n)] \in Nat BY <1>5, SizeAssumption
<1>9. n <= chunk[c].size BY <1>4, <1>5, <1>6, <1>7, <1>8
<1> QED BY <1>2, <1>3, <1>9

LEMMA BinnedMap ==
  ASSUME PageMapExact, NEW c \in Page, ~Detached(c)
  PROVE  MapExactBut(rtree, c)
BY DEF PageMapExact, MapExactBut

LEMMA AllocDirtyIInv ==
  ASSUME IInv, NEW a \in Arena, NEW n \in Sizes, NEW slab \in BOOLEAN, AllocDirty(a, n, slab)
  PROVE  IInv'
<1> USE DEF IInv
<1>1. dirty \in BinsAreSets /\ Exact(dirty, "dirty") BY BinsExactly DEF TypeOK, BinsAreSets
<1>2. PICK c \in FindSuitableChunk(dirty[a], sz_to_pind(n)) :
        /\ HandOut(a, c, rtree, n, slab)
        /\ dirty' = [dirty EXCEPT ![a] = Rebin(@, c, chunk[c].size, n)]
  BY DEF AllocDirty
<1>3. /\ c \in Page /\ ~Detached(c)
      /\ chunk[c].state = "dirty" /\ chunk[c].arena = a /\ n <= chunk[c].size
  BY <1>1, FirstFit DEF AllocDirty
<1>4. MapExactBut(rtree, c) /\ rtree \in [Probe -> 0..NumPages]
  BY <1>3, BinnedMap DEF TypeOK
<1>5. op[a].step \notin HoldSteps BY DEF AllocDirty, At, HoldSteps
<1> QED BY <1>2, <1>3, <1>4, <1>5, HandOutIInv DEF AllocDirty

LEMMA AllocCleanIInv ==
  ASSUME IInv, NEW a \in Arena, NEW n \in Sizes, NEW slab \in BOOLEAN, AllocClean(a, n, slab)
  PROVE  IInv'
<1> USE DEF IInv
<1>1. clean \in BinsAreSets /\ Exact(clean, "clean") BY BinsExactly DEF TypeOK, BinsAreSets
<1>2. PICK c \in FindSuitableChunk(clean[a], sz_to_pind(n)) :
        /\ HandOut(a, c, rtree, n, slab)
        /\ clean' = [clean EXCEPT ![a] = Rebin(@, c, chunk[c].size, n)]
  BY DEF AllocClean
<1>3. /\ c \in Page /\ ~Detached(c)
      /\ chunk[c].state = "clean" /\ chunk[c].arena = a /\ n <= chunk[c].size
  BY <1>1, FirstFit DEF AllocClean
<1>4. MapExactBut(rtree, c) /\ rtree \in [Probe -> 0..NumPages]
  BY <1>3, BinnedMap DEF TypeOK
<1>5. op[a].step \notin HoldSteps BY DEF AllocClean, At, HoldSteps
<1> QED BY <1>2, <1>3, <1>4, <1>5, HandOutIInv DEF AllocClean

LEMMA RegisterNewIInv ==
  ASSUME IInv, NEW a \in Arena, RegisterNew(a)
  PROVE  IInv'
<1> DEFINE c == op[a].base
           n == op[a].need
           w == chunk[c].size
           rt == Insert(rtree, Ends(c, w), c)
<1> USE DEF IInv
<1>1. /\ op[a].step \in HoldSteps /\ c \in Page /\ Holds(a, c)
      /\ chunk[c].state = "dirty" /\ chunk[c].arena = a
      /\ n \in Sizes /\ n <= w /\ op[a].slab \in BOOLEAN
  <2>1. CallOwns(a) /\ At(a, "register") BY DEF CallsOwnChunk, RegisterNew
  <2>2. op[a].step = "register" BY <2>1 DEF At
  <2>3. op[a] \in Call BY DEF TypeOK, Call
  <2> QED BY <2>1, <2>2, <2>3 DEF CallOwns, HoldSteps, Holds, Call
<1>2. c \in 0..NumPages /\ Exists(c) BY <1>1, SizeAssumption DEF Page, Exists
<1>3. rt \in [Probe -> 0..NumPages] BY <1>2 DEF TypeOK, Insert
<1>4. MapExactBut(rt, c)
  <2> SUFFICES ASSUME NEW p \in Probe, NEW d \in Page
               PROVE  rt[p] = d <=> Exists(d) /\ (~Detached(d) \/ d = c) /\ FoundBy(d, p)
    BY DEF MapExactBut
  <2>1. rt[p] = IF p \in Ends(c, w) THEN c ELSE rtree[p] BY DEF Insert
  <2>2. rtree[p] = d <=> Exists(d) /\ ~Detached(d) /\ FoundBy(d, p) BY DEF PageMapExact
  <2>3. Detached(c) BY <1>1 DEF Detached
  <2>4. FoundBy(c, p) <=> p \in Ends(c, w) BY <1>1 DEF FoundBy
  <2>5. CASE d = c BY <1>2, <2>1, <2>2, <2>3, <2>4, <2>5
  <2>6. CASE d # c /\ p \in Ends(c, w)
    <3>1. ~(Exists(d) /\ FoundBy(d, p))
      <4>1. Covers(c, p) BY <1>1, <1>2, <2>4, <2>6, FoundIsCovered
      <4>2. p \in Int BY SizeAssumption DEF Probe
      <4> QED BY <1>1, <2>6, <4>1, <4>2, FoundIsCovered, CoveredOnce
    <3> QED BY <2>1, <2>6, <3>1
  <2>7. CASE d # c /\ p \notin Ends(c, w) BY <2>1, <2>2, <2>7
  <2> QED BY <2>5, <2>6, <2>7
<1>5. /\ HandOut(a, c, rt, n, op[a].slab)
      /\ dirty' = [dirty EXCEPT ![a] = Rebin(@, c, w, n)]
      /\ Event(a) /\ UNCHANGED <<mapped, clean, epoch>>
  BY DEF RegisterNew
<1> HIDE DEF c, n, rt, w
<1> QED BY <1>1, <1>3, <1>4, <1>5, HandOutIInv DEF c, w

\* The call of a, which held nothing, takes chunk c for itself.
LEMMA NowDetached ==
  ASSUME NEW a \in Arena, OthersWait(a), op[a].step \notin HoldSteps,
         NEW c \in Page, op'[a].step \in HoldSteps, op'[a].base = c
  PROVE  \A d \in Page : Detached(d)' <=> Detached(d) \/ d = c
<1> SUFFICES ASSUME NEW d \in Page
             PROVE  Detached(d)' <=> Detached(d) \/ d = c
  OBVIOUS
<1>1. Holds(a, d)' <=> d = c BY DEF Holds, HoldSteps
<1>2. ~Holds(a, d) BY DEF Holds, HoldSteps
<1>3. \A b \in Arena : b # a => (Holds(b, d)' <=> Holds(b, d)) BY DEF OthersWait, Holds
<1> QED BY <1>1, <1>2, <1>3 DEF Detached

LEMMA KeptAlike ==
  ASSUME NEW S, OthersKept(S), NEW d \in Page \ S
  PROVE  /\ chunk'[d] = chunk[d]
         /\ Exists(d)' <=> Exists(d)
         /\ \A p \in Probe : FoundBy(d, p)' <=> FoundBy(d, p)
         /\ \A p \in Int : Covers(d, p)' <=> Covers(d, p)
         /\ (Detached(d)' <=> Detached(d)) =>
              \A a \in Arena, i \in Pind : BelongsFit(d, a, i)' <=> BelongsFit(d, a, i)
BY DEF OthersKept, Exists, FoundBy, Covers, BelongsFit

\* New memory is put where nothing is mapped, so no chunk is in its way.
LEMMA MapNewIInv ==
  ASSUME IInv, NEW a \in Arena, NEW n \in Sizes, NEW slab \in BOOLEAN, MapNew(a, n, slab)
  PROVE  IInv'
<1> DEFINE whole == IF n > StandardChunk THEN n ELSE StandardChunk
<1> USE DEF IInv
<1>1. n \in Nat \ {0} /\ whole \in Nat \ {0} /\ n <= whole /\ NumPages \in Nat
  BY SizesArePositive, SizeAssumption DEF StandardChunk, Pind
<1>2. PICK base \in Page :
        /\ base..(base + whole - 1) \subseteq Page \ mapped
        /\ mapped' = mapped \cup base..(base + whole - 1)
        /\ chunk' = [chunk EXCEPT ![base] =
                       [state |-> "dirty", size |-> whole, arena |-> a,
                        epoch |-> epoch[a], slab |-> FALSE]]
        /\ op' = [op EXCEPT ![a] =
                     [step |-> "register", base |-> base, need |-> n, slab |-> slab]]
  BY DEF MapNew
<1>3. op[a].step \notin HoldSteps /\ UNCHANGED <<rtree, dirty, clean, epoch, tick>>
  BY DEF MapNew, At, HoldSteps
<1> HIDE DEF whole
<1>4. base \in Int /\ base + whole - 1 \in Page /\ whole \in 0..NumPages /\ n \in 0..NumPages
  <2>1. base \in Int BY <1>1, <1>2 DEF Page
  <2>2. base + whole - 1 \in base..(base + whole - 1) BY <1>1, <2>1
  <2>3. base + whole - 1 \in Page BY <1>2, <2>2
  <2> QED BY <1>1, <1>2, <2>1, <2>3 DEF Page
<1>5. ASSUME NEW d \in Page, NEW p \in Page, base <= p, p < base + whole
      PROVE  ~Covers(d, p)
  <2>1. p \in base..(base + whole - 1) BY <1>1, <1>4, <1>5 DEF Page
  <2>2. p \notin mapped BY <1>2, <2>1
  <2> QED BY <2>2 DEF MappedIsCovered
<1>6. \A d \in Page : d \in Int /\ (Exists(d) => chunk[d].size \in Nat \ {0})
  BY <1>1, ChunkFacts DEF Page
<1>7. ~Exists(base) BY <1>1, <1>4, <1>5, <1>6 DEF Covers
<1>8. /\ chunk' \in [Page -> Chunk] /\ OthersKept({base})
      /\ chunk'[base].state = "dirty" /\ chunk'[base].size = whole /\ chunk'[base].arena = a
  <2>1. chunk \in [Page -> Chunk] /\ epoch[a] \in 0..(EpochLimit - 1) BY DEF TypeOK
  <2>2. [state |-> "dirty", size |-> whole, arena |-> a, epoch |-> epoch[a], slab |-> FALSE]
          \in Chunk
    BY <1>4, <2>1 DEF Chunk
  <2> QED BY <1>2, <2>1, <2>2 DEF OthersKept
<1>9. Layout'
  <2>1. ChunksInRange'
    BY <1>1, <1>4, <1>8 DEF Layout, ChunksInRange, Exists, OthersKept
  <2>2. ChunksInOrder'
    <3> SUFFICES ASSUME NEW d \in Page, NEW e \in Page, Exists(d)', Exists(e)', d < e
                 PROVE  d + chunk'[d].size <= e
      BY DEF ChunksInOrder
    <3>1. CASE d = base
      <4>1. e # base /\ Exists(e) /\ e \in Int BY <1>4, <1>6, <1>8, <3>1, KeptAlike
      <4>2. Covers(e, e) BY <1>6, <4>1 DEF Covers
      <4>3. ~(base <= e /\ e < base + whole) BY <1>5, <4>2
      <4> QED BY <1>1, <1>4, <1>8, <3>1, <4>1, <4>3
    <3>2. CASE e = base
      <4>1. d # base /\ d \in Int BY <1>4, <1>6, <3>2
      <4>2. Exists(d) /\ chunk'[d] = chunk[d] BY <1>8, <4>1, KeptAlike
      <4>3. ~Covers(d, base) BY <1>1, <1>2, <1>4, <1>5
      <4> QED BY <1>4, <1>6, <3>2, <4>1, <4>2, <4>3 DEF Covers
    <3>3. CASE d # base /\ e # base
      BY <1>8, <3>3, KeptAlike DEF Layout, ChunksInOrder
    <3> QED BY <3>1, <3>2, <3>3
  <2>3. ActiveFits' BY <1>8 DEF Layout, ActiveFits, OthersKept
  <2> QED BY <2>1, <2>2, <2>3 DEF Layout
<1>10. MappedIsCovered'
  <2> SUFFICES ASSUME NEW p \in Page
               PROVE  p \in mapped' <=> \E d \in Page : Covers(d, p)'
    BY DEF MappedIsCovered
  <2>1. p \in Int BY <1>6
  <2>2. Covers(base, p)' <=> base <= p /\ p < base + whole BY <1>8 DEF Covers, Exists
  <2>3. p \in mapped' <=> p \in mapped \/ Covers(base, p)' BY <1>1, <1>2, <1>4, <2>1, <2>2
  <2>4. ~Covers(base, p) BY <1>7 DEF Covers
  <2>5. \A d \in Page : d # base => (Covers(d, p)' <=> Covers(d, p)) BY <1>8, <2>1, KeptAlike
  <2> QED BY <2>3, <2>4, <2>5 DEF MappedIsCovered
<1>11. /\ op' \in [Arena -> Call] /\ OthersWait(a)
       /\ op'[a].step = "register" /\ op'[a].base = base /\ op'[a].need = n
  <2>1. op \in [Arena -> Call] BY DEF TypeOK, Call
  <2>2. base \in 0..NumPages BY <1>1, <1>2 DEF Page
  <2>3. [step |-> "register", base |-> base, need |-> n, slab |-> slab] \in Call
    BY <1>4, <2>2 DEF Call, Steps
  <2> QED BY <1>2, <2>1, <2>3 DEF OthersWait
<1>12. \A d \in Page : Detached(d)' <=> Detached(d) \/ d = base
  BY <1>3, <1>11, NowDetached DEF HoldSteps
<1>13. CallsOwnChunk'
  <2>1. CallOwns(a)' BY <1>1, <1>8, <1>11 DEF CallOwns
  <2>2. \A b \in Arena, d \in Page : b # a /\ Holds(b, d) => chunk'[d] = chunk[d]
    BY <1>7, <1>8, DetachedExists, KeptAlike DEF Detached
  <2>3. \A b \in Arena : b # a => CallOwns(b)' BY <1>11, <2>2, OthersOwn
  <2> QED BY <2>1, <2>3 DEF CallsOwnChunk
<1>14. PageMapExact'
  <2> SUFFICES ASSUME NEW p \in Probe, NEW d \in Page
               PROVE  rtree[p] = d <=> Exists(d)' /\ ~Detached(d)' /\ FoundBy(d, p)'
    BY <1>3 DEF PageMapExact
  <2>1. CASE d = base BY <1>7, <1>12, <2>1 DEF PageMapExact
  <2>2. CASE d # base BY <1>8, <1>12, <2>2, KeptAlike DEF PageMapExact
  <2> QED BY <2>1, <2>2
<1>15. BinsMatch'
  <2> SUFFICES ASSUME NEW b \in Arena, NEW i \in Pind, NEW d \in Page
               PROVE  /\ d \in dirty[b][i] <=> chunk'[d].state = "dirty" /\ BelongsFit(d, b, i)'
                      /\ d \in clean[b][i] <=> chunk'[d].state = "clean" /\ BelongsFit(d, b, i)'
    BY <1>3 DEF BinsMatch
  <2>1. CASE d = base BY <1>7, <1>12, <2>1 DEF BinsMatch, BelongsFit, Exists
  <2>2. CASE d # base BY <1>8, <1>12, <2>2, KeptAlike DEF BinsMatch
  <2> QED BY <2>1, <2>2
<1>16. TypeOK'
  <2>1. mapped' \subseteq Page BY <1>2 DEF TypeOK
  <2> QED BY <1>3, <1>8, <1>11, <2>1 DEF TypeOK, Call
<1> QED BY <1>9, <1>10, <1>13, <1>14, <1>15, <1>16

-----------------------------------------------------------------------------
(* The actions of DallocChunk *)

\* What becomes of a chunk in use that is freed, before it goes anywhere.
LEMMA FreedChunk ==
  ASSUME IInv, NEW a \in Arena, NEW c \in Page,
         chunk[c].state = "active", chunk[c].arena = a,
         chunk' = [chunk EXCEPT ![c].state = "dirty", ![c].epoch = epoch[a]],
         mapped' = mapped
  PROVE  /\ chunk' \in [Page -> Chunk] /\ OthersKept({c})
         /\ chunk'[c].state = "dirty" /\ chunk'[c].size = chunk[c].size
         /\ chunk'[c].arena = a
         /\ Layout' /\ MappedIsCovered'
         /\ Exists(c) /\ ~Detached(c)
<1> USE DEF IInv
<1>1. chunk[c] \in Chunk /\ epoch[a] \in 0..(EpochLimit - 1) BY DEF TypeOK
<1>2. PICK new : new = [chunk[c] EXCEPT !.state = "dirty", !.epoch = epoch[a]] OBVIOUS
<1>3. /\ new \in Chunk /\ new.state = "dirty" /\ new.size = chunk[c].size
      /\ new.arena = chunk[c].arena
  BY <1>1, <1>2 DEF Chunk
<1>4. chunk' = [chunk EXCEPT ![c] = new] BY <1>2
<1>5. chunk \in [Page -> Chunk] BY DEF TypeOK
<1>6. /\ chunk' \in [Page -> Chunk] /\ OthersKept({c})
      /\ chunk'[c].state = "dirty" /\ chunk'[c].size = chunk[c].size /\ chunk'[c].arena = a
  BY <1>3, <1>4, <1>5 DEF OthersKept
<1>7. Exists(c) /\ ~Detached(c) BY DetachedExists DEF Exists
<1>8. \A d \in Page : chunk'[d].size = chunk[d].size /\ chunk'[d].arena = chunk[d].arena
                      /\ (Exists(d)' <=> Exists(d))
  BY <1>6, <1>7 DEF OthersKept, Exists
<1>9. Layout'
  <2>1. ChunksInRange' BY <1>8 DEF Layout, ChunksInRange
  <2>2. ChunksInOrder' BY <1>8 DEF Layout, ChunksInOrder
  <2>3. ActiveFits' BY <1>6 DEF Layout, ActiveFits, OthersKept
  <2> QED BY <2>1, <2>2, <2>3 DEF Layout
<1>10. \A d \in Page, p \in Page : Covers(d, p)' <=> Covers(d, p) BY <1>8 DEF Covers
<1>11. MappedIsCovered' BY <1>10 DEF MappedIsCovered
<1> QED BY <1>6, <1>7, <1>9, <1>11

LEMMA WithoutInteriorEffect ==
  ASSUME IInv, NEW c \in Page
  PROVE  /\ WithoutInterior(c) \in [Probe -> 0..NumPages]
         /\ \A p \in Probe : WithoutInterior(c)[p] =
              IF chunk[c].slab /\ p \in Interior(c, chunk[c].size) THEN NoPage ELSE rtree[p]
<1>1. rtree \in [Probe -> 0..NumPages] BY DEF IInv, TypeOK
<1>2. NoPage \in 0..NumPages BY SizeAssumption DEF NoPage
<1> QED BY <1>1, <1>2 DEF WithoutInterior, Delete, Insert

LEMMA DallocToBinIInv ==
  ASSUME IInv, NEW a \in Arena, NEW c \in Page, DallocToBin(a, c)
  PROVE  IInv'
<1> DEFINE w == chunk[c].size
<1> USE DEF IInv
<1>1. /\ op[a].step \notin HoldSteps
      /\ chunk[c].state = "active" /\ chunk[c].arena = a /\ w <= StandardChunk
      /\ chunk' = [chunk EXCEPT ![c].state = "dirty", ![c].epoch = epoch[a]]
      /\ rtree' = WithoutInterior(c)
      /\ dirty' = [dirty EXCEPT ![a] = Push(@, sz_to_pind(w), c)]
      /\ Event(a) /\ UNCHANGED <<mapped, clean, epoch>>
  BY DEF DallocToBin, At, HoldSteps
<1>2. /\ chunk' \in [Page -> Chunk] /\ OthersKept({c})
      /\ chunk'[c].state = "dirty" /\ chunk'[c].size = w /\ chunk'[c].arena = a
      /\ Layout' /\ MappedIsCovered' /\ Exists(c) /\ ~Detached(c)
  BY <1>1, FreedChunk
<1>3. /\ op' \in [Arena -> Call] /\ op'[a].step \notin HoldSteps /\ OthersWait(a)
      /\ tick' \in [Arena -> 0..MaxEventTick]
  BY <1>1, EventEffect
<1>4. \A d \in Page : Detached(d)' <=> Detached(d)
  BY <1>1, <1>3, NoLongerDetached DEF Holds, HoldSteps
<1>5. CallsOwnChunk'
  <2>1. \A b \in Arena, d \in Page : b # a /\ Holds(b, d) => chunk'[d] = chunk[d]
    BY <1>2, KeptAlike DEF Detached
  <2>2. \A b \in Arena : b # a => CallOwns(b)' BY <1>3, <2>1, OthersOwn
  <2> QED BY <1>3, <2>2 DEF CallsOwnChunk, CallOwns
<1>6. w \in Nat \ {0} /\ c \in Int /\ c # NoPage
  BY <1>2, ChunkFacts, SizeAssumption DEF Page, NoPage
<1>7. PageMapExact'
  <2> SUFFICES ASSUME NEW p \in Probe, NEW d \in Page
               PROVE  rtree'[p] = d <=> Exists(d)' /\ ~Detached(d)' /\ FoundBy(d, p)'
    BY DEF PageMapExact
  <2>1. rtree'[p] = IF chunk[c].slab /\ p \in Interior(c, w) THEN NoPage ELSE rtree[p]
    BY <1>1, WithoutInteriorEffect
  <2>2. rtree[p] = d <=> Exists(d) /\ ~Detached(d) /\ FoundBy(d, p) BY DEF PageMapExact
  <2>3. p \in Int /\ d # NoPage BY SizeAssumption DEF Probe, Page, NoPage
  <2>4. FoundBy(c, p) <=> p \in Ends(c, w) \/ (chunk[c].slab /\ p \in Interior(c, w))
    BY <1>1 DEF FoundBy
  <2>5. CASE d = c
    <3>1. FoundBy(c, p)' <=> p \in Ends(c, w) BY <1>2 DEF FoundBy
    <3>2. Exists(c)' BY <1>2 DEF Exists
    <3>3. p \in Ends(c, w) => p \notin Interior(c, w) BY <1>6, <2>3 DEF Ends, Interior
    <3> QED BY <1>2, <1>4, <1>6, <2>1, <2>2, <2>4, <2>5, <3>1, <3>2, <3>3
  <2>6. CASE d # c
    <3>1. chunk[c].slab /\ p \in Interior(c, w) => rtree[p] = c
      BY <1>2, <2>4 DEF PageMapExact
    <3>2. rtree'[p] = d <=> rtree[p] = d BY <2>1, <2>3, <2>6, <3>1
    <3> QED BY <1>2, <1>4, <2>2, <2>6, <3>2, KeptAlike
  <2> QED BY <2>5, <2>6
<1>8. sz_to_pind(w) \in Pind /\ sz_to_pind(w) = get_fit_pind(w)
  <2>1. w \in Sizes BY <1>1 DEF Layout, ActiveFits
  <2>2. PICK i \in Pind : w = ClassSize[i]
    <3>1. \A m \in HugeSize : ~(m <= StandardChunk)
      BY SizeAssumption DEF StandardChunk, Pind
    <3> QED BY <1>1, <2>1, <3>1 DEF Sizes
  <2> QED BY <2>2, ClassPind
<1>9. dirty' \in BinsAreSets /\ \A b \in Arena, i \in Pind, d \in Page :
        d \in dirty'[b][i] <=> d \in dirty[b][i] \/ (b = a /\ i = get_fit_pind(w) /\ d = c)
  <2>1. dirty \in BinsAreSets BY DEF TypeOK, BinsAreSets
  <2> QED BY <1>1, <1>8, <2>1 DEF BinsAreSets, Push
<1>10. BinsMatch'
  <2> SUFFICES ASSUME NEW b \in Arena, NEW i \in Pind, NEW d \in Page
               PROVE  /\ d \in dirty'[b][i] <=> chunk'[d].state = "dirty" /\ BelongsFit(d, b, i)'
                      /\ d \in clean[b][i] <=> chunk'[d].state = "clean" /\ BelongsFit(d, b, i)'
    BY <1>1 DEF BinsMatch
  <2>1. CASE d = c
    <3>1. c \notin dirty[b][i] /\ c \notin clean[b][i] BY <1>1 DEF BinsMatch
    <3>2. BelongsFit(c, b, i)' <=> b = a /\ i = get_fit_pind(w) BY <1>2, <1>4 DEF BelongsFit
    <3> QED BY <1>2, <1>9, <2>1, <3>1, <3>2
  <2>2. CASE d # c BY <1>2, <1>4, <1>9, <2>2, KeptAlike DEF BinsMatch
  <2> QED BY <2>1, <2>2
<1>11. TypeOK'
  BY <1>1, <1>2, <1>3, <1>9, WithoutInteriorEffect DEF TypeOK, Call, BinsAreSets
<1> QED BY <1>2, <1>5, <1>7, <1>10, <1>11

\* A call that held nothing takes a chunk off the page map for itself.
LEMMA HoldEffect ==
  ASSUME TypeOK, NEW a \in Arena, op[a].step \notin HoldSteps, NEW c \in Page,
         NEW step \in {"unmap", "destroyUnmap"},
         op' = [op EXCEPT ![a] = [Idle EXCEPT !.step = step, !.base = c]]
  PROVE  /\ op' \in [Arena -> Call] /\ OthersWait(a)
         /\ op'[a].step = step /\ op'[a].base = c
         /\ \A d \in Page : Detached(d)' <=> Detached(d) \/ d = c
<1>1. op \in [Arena -> Call] BY DEF TypeOK, Call
<1>2. 0 \in 0..NumPages /\ c \in 0..NumPages BY SizeAssumption DEF Page
<1>3. Idle \in Call BY <1>2 DEF Idle, Call, NoPage, Steps
<1>4. PICK new : new = [Idle EXCEPT !.step = step, !.base = c] OBVIOUS
<1>5. new \in Call /\ new.step = step /\ new.base = c
  BY <1>2, <1>3, <1>4 DEF Call, Steps
<1>6. op' \in [Arena -> Call] /\ OthersWait(a) /\ op'[a] = new
  BY <1>1, <1>4, <1>5 DEF OthersWait
<1>7. \A d \in Page : Detached(d)' <=> Detached(d) \/ d = c
  BY <1>5, <1>6, NowDetached DEF HoldSteps
<1> QED BY <1>5, <1>6, <1>7

LEMMA DeleteEndsEffect ==
  ASSUME NEW rt \in [Probe -> 0..NumPages], NEW c \in Page
  PROVE  /\ Delete(rt, Ends(c, chunk[c].size)) \in [Probe -> 0..NumPages]
         /\ \A p \in Probe : Delete(rt, Ends(c, chunk[c].size))[p] =
              IF p \in Ends(c, chunk[c].size) THEN NoPage ELSE rt[p]
<1>1. NoPage \in 0..NumPages BY SizeAssumption DEF NoPage
<1> QED BY <1>1 DEF Delete, Insert

LEMMA DallocHugeIInv ==
  ASSUME IInv, NEW a \in Arena, NEW c \in Page, DallocHuge(a, c)
  PROVE  IInv'
<1> DEFINE w == chunk[c].size
           rt == WithoutInterior(c)
<1> USE DEF IInv
<1>1. /\ op[a].step \notin HoldSteps
      /\ chunk[c].state = "active" /\ chunk[c].arena = a
      /\ chunk' = [chunk EXCEPT ![c].state = "dirty", ![c].epoch = epoch[a]]
      /\ rtree' = Delete(rt, Ends(c, w))
      /\ op' = [op EXCEPT ![a] = [Idle EXCEPT !.step = "unmap", !.base = c]]
      /\ UNCHANGED <<mapped, dirty, clean, epoch, tick>>
  BY DEF DallocHuge, At, HoldSteps
<1>2. /\ chunk' \in [Page -> Chunk] /\ OthersKept({c})
      /\ chunk'[c].state = "dirty" /\ chunk'[c].size = w /\ chunk'[c].arena = a
      /\ Layout' /\ MappedIsCovered' /\ Exists(c) /\ ~Detached(c)
  BY <1>1, FreedChunk
<1>3. /\ op' \in [Arena -> Call] /\ OthersWait(a)
      /\ op'[a].step = "unmap" /\ op'[a].base = c
      /\ \A d \in Page : Detached(d)' <=> Detached(d) \/ d = c
  BY <1>1, HoldEffect
<1>4. CallsOwnChunk'
  <2>1. \A b \in Arena, d \in Page : b # a /\ Holds(b, d) => chunk'[d] = chunk[d]
    BY <1>2, KeptAlike DEF Detached
  <2>2. \A b \in Arena : b # a => CallOwns(b)' BY <1>3, <2>1, OthersOwn
  <2>3. CallOwns(a)' BY <1>2, <1>3 DEF CallOwns, At
  <2> QED BY <2>2, <2>3 DEF CallsOwnChunk
<1>5. /\ rtree' \in [Probe -> 0..NumPages]
      /\ \A p \in Probe : rtree'[p] =
           IF p \in Ends(c, w) \/ (chunk[c].slab /\ p \in Interior(c, w))
           THEN NoPage ELSE rtree[p]
  BY <1>1, WithoutInteriorEffect, DeleteEndsEffect
<1>6. PageMapExact'
  <2> SUFFICES ASSUME NEW p \in Probe, NEW d \in Page
               PROVE  rtree'[p] = d <=> Exists(d)' /\ ~Detached(d)' /\ FoundBy(d, p)'
    BY DEF PageMapExact
  <2>1. rtree[p] = d <=> Exists(d) /\ ~Detached(d) /\ FoundBy(d, p) BY DEF PageMapExact
  <2>2. d # NoPage BY SizeAssumption DEF Page, NoPage
  <2>3. p \in Ends(c, w) \/ (chunk[c].slab /\ p \in Interior(c, w)) <=> rtree[p] = c
    BY <1>1, <1>2 DEF PageMapExact, FoundBy
  <2>4. CASE d = c BY <1>3, <1>5, <2>2, <2>3, <2>4
  <2>5. CASE d # c
    <3>1. rtree'[p] = d <=> rtree[p] = d BY <1>5, <2>2, <2>3, <2>5
    <3> QED BY <1>2, <1>3, <2>1, <2>5, <3>1, KeptAlike
  <2> QED BY <2>4, <2>5
<1>7. BinsMatch'
  <2> SUFFICES ASSUME NEW b \in Arena, NEW i \in Pind, NEW d \in Page
               PROVE  /\ d \in dirty[b][i] <=> chunk'[d].state = "dirty" /\ BelongsFit(d, b, i)'
                      /\ d \in clean[b][i] <=> chunk'[d].state = "clean" /\ BelongsFit(d, b, i)'
    BY <1>1 DEF BinsMatch
  <2>1. CASE d = c BY <1>1, <1>3, <2>1 DEF BinsMatch, BelongsFit
  <2>2. CASE d # c BY <1>2, <1>3, <2>2, KeptAlike DEF BinsMatch
  <2> QED BY <2>1, <2>2
<1>8. TypeOK' BY <1>1, <1>2, <1>3, <1>5 DEF TypeOK, Call
<1> QED BY <1>2, <1>4, <1>6, <1>7, <1>8

-----------------------------------------------------------------------------
(* Giving a chunk back to the OS *)

LEMMA UnmapIInv ==
  ASSUME IInv, NEW a \in Arena, op[a].step \in HoldSteps, Unmap(a),
         op' \in [Arena -> Call], op'[a].step \notin HoldSteps, OthersWait(a),
         tick' \in [Arena -> 0..MaxEventTick]
  PROVE  IInv'
<1>0. PICK c : c = op[a].base OBVIOUS
<1> DEFINE w == chunk[c].size
<1> USE DEF IInv
<1>1. /\ c \in Page /\ chunk[c].state \in {"dirty", "clean"} /\ chunk[c].arena = a
      /\ Holds(a, c) /\ \A d \in Page : Holds(a, d) <=> d = c
  BY <1>0 DEF CallsOwnChunk, CallOwns, Holds, HoldSteps
<1>2. /\ chunk' = [chunk EXCEPT ![c] = NoChunk]
      /\ mapped' = mapped \ Pages(c)
      /\ UNCHANGED <<rtree, dirty, clean, epoch>>
  BY <1>0 DEF Unmap
<1>3. Exists(c) /\ w \in Nat \ {0} /\ c \in Int
  BY <1>1, ChunkFacts, SizeAssumption DEF Exists, Page
<1>4. chunk' \in [Page -> Chunk] /\ OthersKept({c}) /\ ~Exists(c)'
  <2>1. NoChunk \in Chunk
    <3>1. 0 \in 0..NumPages /\ 0 \in 0..(EpochLimit - 1)
      BY SizeAssumption, CounterAssumption
    <3> QED BY <3>1 DEF NoChunk, Chunk
  <2>2. NoChunk.state = "none" BY DEF NoChunk
  <2> QED BY <1>1, <1>2, <2>1, <2>2 DEF TypeOK, OthersKept, Exists
<1>5. \A d \in Page : d # c => chunk'[d] = chunk[d] /\ (Exists(d)' <=> Exists(d))
  BY <1>4, KeptAlike
<1>6. Layout'
  <2>1. ChunksInRange' BY <1>4, <1>5 DEF Layout, ChunksInRange
  <2>2. ChunksInOrder' BY <1>4, <1>5 DEF Layout, ChunksInOrder
  <2>3. ActiveFits' BY <1>4, <1>5 DEF Layout, ActiveFits, Exists
  <2> QED BY <2>1, <2>2, <2>3 DEF Layout
<1>7. MappedIsCovered'
  <2> SUFFICES ASSUME NEW p \in Page
               PROVE  p \in mapped' <=> \E d \in Page : Covers(d, p)'
    BY DEF MappedIsCovered
  <2>1. p \in Int BY SizeAssumption DEF Page
  <2>2. p \in mapped' <=> p \in mapped /\ ~Covers(c, p)
    BY <1>2, <1>3, <2>1 DEF Pages, Covers
  <2>3. ~Covers(c, p)' BY <1>4 DEF Covers
  <2>4. \A d \in Page : d # c => (Covers(d, p)' <=> Covers(d, p)) BY <1>5 DEF Covers
  <2>5. \A d \in Page : d # c /\ Covers(d, p) => ~Covers(c, p) BY <1>1, <2>1, CoveredOnce
  <2> QED BY <1>1, <2>2, <2>3, <2>4, <2>5 DEF MappedIsCovered
<1>8. \A d \in Page : Detached(d)' <=> Detached(d) /\ d # c BY <1>1, NoLongerDetached
<1>9. Detached(c) BY <1>1 DEF Detached
<1>10. CallsOwnChunk'
  <2>1. \A b \in Arena, d \in Page : b # a /\ Holds(b, d) => chunk'[d] = chunk[d]
    BY <1>1, <1>5, HeldOnce
  <2>2. \A b \in Arena : b # a => CallOwns(b)' BY <2>1, OthersOwn
  <2> QED BY <2>2 DEF CallsOwnChunk, CallOwns
<1>11. PageMapExact'
  <2> SUFFICES ASSUME NEW p \in Probe, NEW d \in Page
               PROVE  rtree[p] = d <=> Exists(d)' /\ ~Detached(d)' /\ FoundBy(d, p)'
    BY <1>2 DEF PageMapExact
  <2>1. CASE d = c BY <1>4, <1>9, <2>1 DEF PageMapExact
  <2>2. CASE d # c BY <1>4, <1>8, <2>2, KeptAlike DEF PageMapExact
  <2> QED BY <2>1, <2>2
<1>12. BinsMatch'
  <2> SUFFICES ASSUME NEW b \in Arena, NEW i \in Pind, NEW d \in Page
               PROVE  /\ d \in dirty[b][i] <=> chunk'[d].state = "dirty" /\ BelongsFit(d, b, i)'
                      /\ d \in clean[b][i] <=> chunk'[d].state = "clean" /\ BelongsFit(d, b, i)'
    BY <1>2 DEF BinsMatch
  <2>1. CASE d = c BY <1>4, <1>9, <2>1 DEF BinsMatch, BelongsFit, Exists
  <2>2. CASE d # c BY <1>4, <1>8, <2>2, KeptAlike DEF BinsMatch
  <2> QED BY <2>1, <2>2
<1>13. TypeOK' BY <1>2, <1>4 DEF TypeOK, Call
<1> QED BY <1>6, <1>7, <1>10, <1>11, <1>12, <1>13

LEMMA UnmapHugeIInv ==
  ASSUME IInv, NEW a \in Arena, UnmapHuge(a)
  PROVE  IInv'
<1>1. TypeOK /\ op[a].step \in HoldSteps /\ Unmap(a) /\ Event(a)
  BY DEF IInv, UnmapHuge, At, HoldSteps
<1> QED BY <1>1, EventEffect, UnmapIInv

LEMMA DestroyUnmapIInv ==
  ASSUME IInv, NEW a \in Arena, DestroyUnmap(a)
  PROVE  IInv'
<1>1. /\ op[a].step \in HoldSteps /\ Unmap(a) /\ Goto(a, "destroy")
      /\ "destroy" \in Steps \ HoldSteps
  BY DEF DestroyUnmap, At, HoldSteps, Steps
<1>2. TypeOK /\ tick' \in [Arena -> 0..MaxEventTick] BY DEF IInv, TypeOK, DestroyUnmap
<1>3. op' \in [Arena -> Call] /\ op'[a].step \notin HoldSteps /\ OthersWait(a)
  BY <1>1, <1>2, GotoEffect
<1> QED BY <1>1, <1>2, <1>3, UnmapIInv

LEMMA DestroyNextIInv ==
  ASSUME IInv, NEW a \in Arena, DestroyNext(a)
  PROVE  IInv'
<1> USE DEF IInv
<1>1. PICK c \in Binned(a) :
        /\ dirty' = [dirty EXCEPT ![a] = Pop(@, c)]
        /\ clean' = [clean EXCEPT ![a] = Pop(@, c)]
        /\ rtree' = Delete(rtree, Ends(c, chunk[c].size))
        /\ op' = [op EXCEPT ![a] = [Idle EXCEPT !.step = "destroyUnmap", !.base = c]]
  BY DEF DestroyNext
<1>2. op[a].step \notin HoldSteps /\ UNCHANGED <<chunk, mapped, epoch, tick>>
  BY DEF DestroyNext, At, HoldSteps
<1>3. dirty \in BinsAreSets /\ clean \in BinsAreSets /\ rtree \in [Probe -> 0..NumPages]
  BY DEF TypeOK, BinsAreSets
<1>4. PICK k \in Pind : c \in dirty[a][k] \/ c \in clean[a][k] BY <1>1 DEF Binned
<1>5. c \in Page BY <1>3, <1>4 DEF BinsAreSets
<1>6. /\ chunk[c].state \in {"dirty", "clean"} /\ chunk[c].arena = a
      /\ Exists(c) /\ ~Detached(c)
  BY <1>4, <1>5 DEF BinsMatch, BelongsFit, Exists
<1>7. /\ op' \in [Arena -> Call] /\ OthersWait(a)
      /\ op'[a].step = "destroyUnmap" /\ op'[a].base = c
      /\ \A d \in Page : Detached(d)' <=> Detached(d) \/ d = c
  BY <1>1, <1>2, <1>5, HoldEffect
<1>8. Layout' /\ MappedIsCovered'
  BY <1>2 DEF Layout, ChunksInRange, ChunksInOrder, ActiveFits, MappedIsCovered, Covers, Exists
<1>9. CallsOwnChunk'
  <2>1. \A b \in Arena : b # a => CallOwns(b)' BY <1>2, <1>7, OthersOwn
  <2>2. CallOwns(a)' BY <1>2, <1>5, <1>6, <1>7 DEF CallOwns, At
  <2> QED BY <2>1, <2>2 DEF CallsOwnChunk
<1>10. /\ rtree' \in [Probe -> 0..NumPages]
       /\ \A p \in Probe : rtree'[p] =
            IF p \in Ends(c, chunk[c].size) THEN NoPage ELSE rtree[p]
  BY <1>1, <1>3, <1>5, DeleteEndsEffect
<1>11. PageMapExact'
  <2> SUFFICES ASSUME NEW p \in Probe, NEW d \in Page
               PROVE  rtree'[p] = d <=> Exists(d)' /\ ~Detached(d)' /\ FoundBy(d, p)'
    BY DEF PageMapExact
  <2>1. rtree[p] = d <=> Exists(d) /\ ~Detached(d) /\ FoundBy(d, p) BY DEF PageMapExact
  <2>2. d # NoPage BY SizeAssumption DEF Page, NoPage
  <2>3. p \in Ends(c, chunk[c].size) <=> rtree[p] = c
    BY <1>5, <1>6 DEF PageMapExact, FoundBy
  <2>4. (Exists(d)' <=> Exists(d)) /\ (FoundBy(d, p)' <=> FoundBy(d, p))
    BY <1>2 DEF Exists, FoundBy
  <2> QED BY <1>7, <1>10, <2>1, <2>2, <2>3, <2>4
<1>12. /\ dirty' \in BinsAreSets /\ clean' \in BinsAreSets
       /\ \A b \in Arena, i \in Pind, d \in Page :
            /\ d \in dirty'[b][i] <=> d \in dirty[b][i] /\ ~(b = a /\ d = c)
            /\ d \in clean'[b][i] <=> d \in clean[b][i] /\ ~(b = a /\ d = c)
  BY <1>1, <1>3 DEF BinsAreSets, Pop
<1>13. BinsMatch'
  <2> SUFFICES ASSUME NEW b \in Arena, NEW i \in Pind, NEW d \in Page
               PROVE  /\ d \in dirty'[b][i] <=> chunk'[d].state = "dirty" /\ BelongsFit(d, b, i)'
                      /\ d \in clean'[b][i] <=> chunk'[d].state = "clean" /\ BelongsFit(d, b, i)'
    BY DEF BinsMatch
  <2>1. CASE d = c
    <3>1. ~BelongsFit(c, b, i)' BY <1>5, <1>7 DEF BelongsFit
    <3>2. b # a => c \notin dirty[b][i] /\ c \notin clean[b][i]
      BY <1>5, <1>6 DEF BinsMatch, BelongsFit
    <3> QED BY <1>5, <1>12, <2>1, <3>1, <3>2
  <2>2. CASE d # c
    <3>1. BelongsFit(d, b, i)' <=> BelongsFit(d, b, i) BY <1>2, <1>7, <2>2 DEF BelongsFit
    <3> QED BY <1>2, <1>12, <2>2, <3>1 DEF BinsMatch
  <2> QED BY <2>1, <2>2
<1>14. TypeOK' BY <1>2, <1>7, <1>10, <1>12 DEF TypeOK, Call, BinsAreSets
<1> QED BY <1>8, <1>9, <1>11, <1>13, <1>14

\* Steps that move a call from one step to another and touch no chunk.
LEMMA QuietIInv ==
  ASSUME IInv, NEW a \in Arena, op[a].step \notin HoldSteps,
         NEW step \in Steps \ HoldSteps, Goto(a, step),
         epoch' \in [Arena -> 0..(EpochLimit - 1)],
         UNCHANGED <<chunk, rtree, mapped, dirty, clean, tick>>
  PROVE  IInv'
<1> USE DEF IInv
<1>1. op' \in [Arena -> Call] /\ op'[a].step \notin HoldSteps /\ OthersWait(a)
  BY GotoEffect
<1>2. \A d \in Page : Detached(d)' <=> Detached(d)
  BY <1>1, NoLongerDetached DEF Holds, HoldSteps
<1>3. \A d \in Page : Exists(d)' <=> Exists(d) BY DEF Exists
<1>4. Layout' /\ MappedIsCovered'
  BY DEF Layout, ChunksInRange, ChunksInOrder, ActiveFits, MappedIsCovered, Covers, Exists
<1>5. CallsOwnChunk'
  <2>1. \A b \in Arena : b # a => CallOwns(b)' BY <1>1, OthersOwn
  <2> QED BY <1>1, <2>1 DEF CallsOwnChunk, CallOwns
<1>6. PageMapExact'
  <2>1. \A d \in Page, p \in Probe : FoundBy(d, p)' <=> FoundBy(d, p) BY DEF FoundBy
  <2> QED BY <1>2, <1>3, <2>1 DEF PageMapExact
<1>7. BinsMatch'
  <2>1. \A d \in Page, b \in Arena, i \in Pind : BelongsFit(d, b, i)' <=> BelongsFit(d, b, i)
    BY <1>2 DEF BelongsFit
  <2> QED BY <2>1 DEF BinsMatch
<1>8. TypeOK' BY <1>1 DEF TypeOK, Call
<1> QED BY <1>4, <1>5, <1>6, <1>7, <1>8

LEMMA EndGCIInv ==
  ASSUME IInv, NEW a \in Arena, EndGC(a)
  PROVE  IInv'
<1>1. epoch \in [Arena -> 0..(EpochLimit - 1)] BY DEF IInv, TypeOK
<1>2. (IF epoch[a] + 1 = EpochLimit THEN 0 ELSE epoch[a] + 1) \in 0..(EpochLimit - 1)
  BY <1>1, CounterAssumption
<1>3. epoch' \in [Arena -> 0..(EpochLimit - 1)] BY <1>1, <1>2 DEF EndGC
<1>4. "idle" \in Steps \ HoldSteps /\ op[a].step \notin HoldSteps
  BY DEF EndGC, At, Steps, HoldSteps
<1> QED BY <1>3, <1>4, QuietIInv DEF EndGC

LEMMA BeginDestroyIInv ==
  ASSUME IInv, NEW a \in Arena, BeginDestroy(a)
  PROVE  IInv'
<1>1. "destroy" \in Steps \ HoldSteps /\ op[a].step \notin HoldSteps
  BY DEF BeginDestroy, At, Steps, HoldSteps
<1>2. epoch' \in [Arena -> 0..(EpochLimit - 1)] BY DEF IInv, TypeOK, BeginDestroy
<1> QED BY <1>1, <1>2, QuietIInv DEF BeginDestroy

LEMMA EndDestroyIInv ==
  ASSUME IInv, NEW a \in Arena, EndDestroy(a)
  PROVE  IInv'
<1>1. "gone" \in Steps \ HoldSteps /\ op[a].step \notin HoldSteps
  BY DEF EndDestroy, At, Steps, HoldSteps
<1>2. epoch' \in [Arena -> 0..(EpochLimit - 1)] BY DEF IInv, TypeOK, EndDestroy
<1> QED BY <1>1, <1>2, QuietIInv DEF EndDestroy

-----------------------------------------------------------------------------
(* The collection *)

\* A chunk of the arena that is free and in its bin.
Free(a, c, state) ==
  c \in Page /\ chunk[c].state = state /\ chunk[c].arena = a /\ ~Detached(c)

\* What the page map has for the page before a dirty chunk, if it is clean, is
\* the chunk that ends there ...
LEMMA CleanBefore ==
  ASSUME IInv, NEW a \in Arena, NEW c, Free(a, c, "dirty"), CleanAt(a, c - 1) # NoPage
  PROVE  LET prev == CleanAt(a, c - 1)
         IN  Free(a, prev, "clean") /\ prev + chunk[prev].size = c
<1> USE DEF IInv
<1>1. c \in Page /\ Exists(c) BY DEF Free, Exists
<1>2. c \in Int /\ c - 1 \in Probe /\ c - 1 \in Int
  BY <1>1, SizeAssumption DEF Page, Probe
<1>3. PICK prev : prev = rtree[c - 1] OBVIOUS
<1>4. /\ CleanAt(a, c - 1) = prev /\ prev # NoPage
      /\ chunk[prev].arena = a /\ chunk[prev].state = "clean"
  BY <1>3 DEF CleanAt
<1>5. prev \in Page
  <2>1. prev \in 0..NumPages BY <1>2, <1>3 DEF TypeOK
  <2> QED BY <1>4, <2>1, SizeAssumption DEF Page, NoPage
<1>6. Exists(prev) /\ ~Detached(prev) /\ FoundBy(prev, c - 1)
  BY <1>2, <1>3, <1>5 DEF PageMapExact
<1>7. Free(a, prev, "clean") BY <1>4, <1>5, <1>6 DEF Free
<1>8. prev # c BY <1>4 DEF Free
<1>9. Covers(prev, c - 1) BY <1>2, <1>5, <1>6, FoundIsCovered
<1>10. prev \in Int /\ chunk[prev].size \in Nat \ {0}
  BY <1>5, <1>6, ChunkFacts, SizeAssumption DEF Page
<1>11. prev < c BY <1>2, <1>9, <1>10 DEF Covers
<1>12. prev + chunk[prev].size <= c
  BY <1>1, <1>5, <1>6, <1>11 DEF Layout, ChunksInOrder
<1>13. prev + chunk[prev].size = c BY <1>2, <1>9, <1>10, <1>12 DEF Covers
<1> QED BY <1>4, <1>7, <1>13

\* ... and for the page after it the chunk that begins there.
LEMMA CleanAfter ==
  ASSUME IInv, NEW a \in Arena, NEW c, Free(a, c, "dirty"),
         CleanAt(a, c + chunk[c].size) # NoPage
  PROVE  LET next == CleanAt(a, c + chunk[c].size)
         IN  Free(a, next, "clean") /\ next = c + chunk[c].size
<1> DEFINE w == chunk[c].size
<1> USE DEF IInv
<1>1. c \in Page /\ Exists(c) BY DEF Free, Exists
<1>2. w \in Nat \ {0} /\ c \in Int /\ c + w \in Probe /\ c + w \in Int
  <2>1. w \in Nat \ {0} /\ c + w - 1 \in Page BY <1>1, ChunkFacts
  <2> QED BY <1>1, <2>1, SizeAssumption DEF Page, Probe
<1>3. PICK next : next = rtree[c + w] OBVIOUS
<1>4. /\ CleanAt(a, c + w) = next /\ next # NoPage
      /\ chunk[next].arena = a /\ chunk[next].state = "clean"
  BY <1>3 DEF CleanAt
<1>5. next \in Page
  <2>1. next \in 0..NumPages BY <1>2, <1>3 DEF TypeOK
  <2> QED BY <1>4, <2>1, SizeAssumption DEF Page, NoPage
<1>6. Exists(next) /\ ~Detached(next) /\ FoundBy(next, c + w)
  BY <1>2, <1>3, <1>5 DEF PageMapExact
<1>7. Free(a, next, "clean") BY <1>4, <1>5, <1>6 DEF Free
<1>8. next # c BY <1>4 DEF Free
<1>9. Covers(next, c + w) BY <1>2, <1>5, <1>6, FoundIsCovered
<1>10. next \in Int /\ chunk[next].size \in Nat \ {0}
  BY <1>5, <1>6, ChunkFacts, SizeAssumption DEF Page
<1>11. ~(next < c)
  <2>1. next < c => next + chunk[next].size <= c
    BY <1>1, <1>5, <1>6 DEF Layout, ChunksInOrder
  <2> QED BY <1>2, <1>9, <1>10, <2>1 DEF Covers
<1>12. c < next BY <1>2, <1>8, <1>10, <1>11
<1>13. c + w <= next BY <1>1, <1>5, <1>6, <1>12 DEF Layout, ChunksInOrder
<1>14. next = c + w BY <1>2, <1>9, <1>10, <1>13 DEF Covers
<1> QED BY <1>4, <1>7, <1>14

\* A dirty chunk c of arena a, and the clean chunks before and after it that
\* it is to be merged with, NoPage where there is none.
Neighbours(a, c, prev, next) ==
  /\ Free(a, c, "dirty")
  /\ prev # NoPage => Free(a, prev, "clean") /\ prev + chunk[prev].size = c
  /\ next # NoPage => Free(a, next, "clean") /\ next = c + chunk[c].size

SizeOf(c) == IF c = NoPage THEN 0 ELSE chunk[c].size
Head(c, prev) == IF prev = NoPage THEN c ELSE prev
Total(c, prev, next) == SizeOf(prev) + chunk[c].size + SizeOf(next)
Joined(c, prev, next) == {c, prev, next} \ {NoPage}

\* The joined chunks make up one run of pages, and no other is in it.
LEMMA JoinedExtent ==
  ASSUME IInv, NEW a \in Arena, NEW c, NEW prev, NEW next, Neighbours(a, c, prev, next),
         NEW lo, lo = Head(c, prev), NEW t, t = Total(c, prev, next)
  PROVE  /\ lo \in Joined(c, prev, next) /\ lo \in Page /\ lo \in Int
         /\ t \in Nat \ {0} /\ lo + t - 1 \in Page
         /\ \A d \in Joined(c, prev, next) :
              /\ d \in Page /\ d \in Int /\ Exists(d) /\ ~Detached(d) /\ chunk[d].arena = a
              /\ chunk[d].state \in {"dirty", "clean"}
              /\ chunk[d].size \in Nat \ {0} /\ lo <= d /\ d + chunk[d].size <= lo + t
         /\ \A p \in Int : lo <= p /\ p < lo + t <=>
              \E d \in Joined(c, prev, next) : Covers(d, p)
         /\ \A d \in Page : d \notin Joined(c, prev, next) /\ Exists(d) =>
              d + chunk[d].size <= lo \/ lo + t <= d
<1> USE DEF IInv
<1> DEFINE J == Joined(c, prev, next)
<1>1. \A d \in J : /\ d \in Page /\ Exists(d) /\ ~Detached(d) /\ chunk[d].arena = a
                   /\ chunk[d].state \in {"dirty", "clean"}
  BY DEF Neighbours, Free, Joined, Exists
<1>2. \A d \in J : /\ d \in Int /\ chunk[d].size \in Nat \ {0}
                   /\ d + chunk[d].size - 1 \in Page
  BY <1>1, ChunkFacts, SizeAssumption DEF Page
<1>3. /\ c \in J /\ c # NoPage
      /\ prev # NoPage => prev \in J /\ prev + chunk[prev].size = c
      /\ next # NoPage => next \in J /\ next = c + chunk[c].size
  BY SizeAssumption DEF Neighbours, Free, Joined, Page, NoPage
<1>4. \A d \in J : d \in {c, prev, next} /\ d # NoPage BY DEF Joined
<1>5. \A d \in Page : d \in Int /\ (Exists(d) => chunk[d].size \in Nat \ {0})
  BY ChunkFacts, SizeAssumption DEF Page
<1>6. \A d, e \in Page : Exists(d) /\ Exists(e) /\ d < e => d + chunk[d].size <= e
  BY DEF Layout, ChunksInOrder
<1>7. \A d \in J, p \in Int : Covers(d, p) <=> d <= p /\ p < d + chunk[d].size
  BY <1>1 DEF Covers
<1> HIDE DEF J
<1>8. ASSUME NEW d \in Page, d \notin J, Exists(d), NEW e \in J
      PROVE  d + chunk[d].size <= e \/ e + chunk[e].size <= d
  <2>1. d < e \/ e < d BY <1>2, <1>5, <1>8
  <2> QED BY <1>1, <1>6, <1>8, <2>1
<1>9. CASE prev = NoPage /\ next = NoPage
  <2>1. lo = c /\ t = chunk[c].size /\ \A d \in J : d = c
    BY <1>2, <1>3, <1>4, <1>9 DEF Head, Total, SizeOf
  <2> QED BY <1>1, <1>2, <1>3, <1>7, <1>8, <2>1 DEF J
<1>10. CASE prev # NoPage /\ next = NoPage
  <2>1. lo = prev /\ t = chunk[prev].size + chunk[c].size /\ \A d \in J : d \in {prev, c}
    BY <1>2, <1>3, <1>4, <1>10 DEF Head, Total, SizeOf
  <2>2. lo + t = c + chunk[c].size BY <1>2, <1>3, <1>10, <2>1
  <2>3. \A p \in Int : lo <= p /\ p < lo + t <=> \E d \in J : Covers(d, p)
    BY <1>2, <1>3, <1>7, <1>10, <2>1, <2>2
  <2>4. \A d \in Page : d \notin J /\ Exists(d) => d + chunk[d].size <= lo \/ lo + t <= d
    BY <1>2, <1>3, <1>5, <1>8, <1>10, <2>1, <2>2
  <2> QED BY <1>1, <1>2, <1>3, <1>10, <2>1, <2>2, <2>3, <2>4 DEF J
<1>11. CASE prev = NoPage /\ next # NoPage
  <2>1. lo = c /\ t = chunk[c].size + chunk[next].size /\ \A d \in J : d \in {c, next}
    BY <1>2, <1>3, <1>4, <1>11 DEF Head, Total, SizeOf
  <2>2. lo + t = next + chunk[next].size BY <1>2, <1>3, <1>11, <2>1
  <2>3. \A p \in Int : lo <= p /\ p < lo + t <=> \E d \in J : Covers(d, p)
    BY <1>2, <1>3, <1>7, <1>11, <2>1, <2>2
  <2>4. \A d \in Page : d \notin J /\ Exists(d) => d + chunk[d].size <= lo \/ lo + t <= d
    BY <1>2, <1>3, <1>5, <1>8, <1>11, <2>1, <2>2
  <2> QED BY <1>1, <1>2, <1>3, <1>11, <2>1, <2>2, <2>3, <2>4 DEF J
<1>12. CASE prev # NoPage /\ next # NoPage
  <2>1. /\ lo = prev /\ t = chunk[prev].size + chunk[c].size + chunk[next].size
        /\ \A d \in J : d \in {prev, c, next}
    BY <1>2, <1>3, <1>4, <1>12 DEF Head, Total, SizeOf
  <2>2. lo + t = next + chunk[next].size BY <1>2, <1>3, <1>12, <2>1
  <2>3. \A p \in Int : lo <= p /\ p < lo + t <=> \E d \in J : Covers(d, p)
    BY <1>2, <1>3, <1>7, <1>12, <2>1, <2>2
  <2>4. \A d \in Page : d \notin J /\ Exists(d) => d + chunk[d].size <= lo \/ lo + t <= d
    BY <1>2, <1>3, <1>5, <1>8, <1>12, <2>1, <2>2
  <2> QED BY <1>1, <1>2, <1>3, <1>12, <2>1, <2>2, <2>3, <2>4 DEF J
<1> QED BY <1>9, <1>10, <1>11, <1>12

LEMMA JoinedChunks ==
  ASSUME IInv, NEW a \in Arena, NEW c, NEW prev, NEW next, Neighbours(a, c, prev, next),
         PushCleanChunk(a, c, prev, next),
         NEW lo, lo = Head(c, prev), NEW t, t = Total(c, prev, next)
  PROVE  /\ chunk' \in [Page -> Chunk] /\ OthersKept(Joined(c, prev, next))
         /\ chunk'[lo].state = "clean" /\ chunk'[lo].size = t /\ chunk'[lo].arena = a
         /\ \A d \in Joined(c, prev, next) : d # lo => ~Exists(d)'
<1> DEFINE J == Joined(c, prev, next)
<1>1. /\ lo \in J /\ lo \in Page /\ t \in Nat \ {0} /\ lo + t - 1 \in Page /\ lo \in Int
      /\ \A d \in J : d \in Page /\ chunk[d].arena = a
  BY JoinedExtent
<1>2. t \in 0..NumPages BY <1>1, SizeAssumption DEF Page
<1>3. chunk \in [Page -> Chunk] BY DEF IInv, TypeOK
<1>4. PICK new : new = [chunk[lo] EXCEPT !.state = "clean", !.size = t] OBVIOUS
<1>5. new \in Chunk /\ new.state = "clean" /\ new.size = t /\ new.arena = chunk[lo].arena
  <2>1. chunk[lo] \in Chunk BY <1>1, <1>3
  <2> QED BY <1>2, <1>4, <2>1 DEF Chunk
<1>6. chunk' = [p \in Page |->
        IF p = lo THEN new ELSE IF p \in {c, next} THEN NoChunk ELSE chunk[p]]
  BY <1>4 DEF PushCleanChunk, Head, Total, SizeOf
<1>7. NoChunk \in Chunk /\ NoChunk.state = "none"
  <2>1. 0 \in 0..NumPages /\ 0 \in 0..(EpochLimit - 1)
    BY SizeAssumption, CounterAssumption
  <2> QED BY <2>1 DEF NoChunk, Chunk
<1>8. chunk' \in [Page -> Chunk] BY <1>3, <1>5, <1>6, <1>7
<1>9. \A d \in Page : d \in {c, next} => d \in J
  BY SizeAssumption DEF Joined, Page, NoPage
<1>10. OthersKept(J) BY <1>1, <1>6, <1>9 DEF OthersKept
<1>11. chunk'[lo] = new BY <1>1, <1>6
<1>12. \A d \in J : d # lo => ~Exists(d)'
  <2>1. \A d \in J : d # lo => d \in {c, next} BY DEF Joined, Head
  <2> QED BY <1>1, <1>6, <1>7, <2>1 DEF Exists
<1> QED BY <1>1, <1>5, <1>8, <1>10, <1>11, <1>12

\* What is in use is not joined, nor what a call has to itself; what is kept is
\* kept apart from what is joined.
LEMMA JoinedLayout ==
  ASSUME IInv, NEW a \in Arena, NEW c, NEW prev, NEW next, Neighbours(a, c, prev, next),
         PushCleanChunk(a, c, prev, next), UNCHANGED mapped
  PROVE  Layout' /\ MappedIsCovered'
<1>0. PICK lo, t : lo = Head(c, prev) /\ t = Total(c, prev, next) OBVIOUS
<1>j. PICK J : J = Joined(c, prev, next) OBVIOUS
<1>1. /\ lo \in J /\ lo \in Page /\ lo \in Int /\ t \in Nat \ {0} /\ lo + t - 1 \in Page
      /\ \A d \in J : d \in Page /\ chunk[d].arena = a
      /\ \A p \in Int : lo <= p /\ p < lo + t <=> \E d \in J : Covers(d, p)
      /\ \A d \in Page : d \notin J /\ Exists(d) => d + chunk[d].size <= lo \/ lo + t <= d
  BY <1>0, <1>j, JoinedExtent
<1>2. /\ chunk' \in [Page -> Chunk] /\ OthersKept(J)
      /\ chunk'[lo].state = "clean" /\ chunk'[lo].size = t /\ chunk'[lo].arena = a
      /\ \A d \in J : d # lo => ~Exists(d)'
  BY <1>0, <1>j, JoinedChunks
<1>3. Exists(lo)' BY <1>2 DEF Exists
<1>4. \A d \in Page \ J : chunk'[d] = chunk[d] /\ (Exists(d)' <=> Exists(d))
  BY <1>2 DEF OthersKept, Exists
<1>5. \A d \in Page : d \in Int /\ (Exists(d) => chunk[d].size \in Nat \ {0})
  BY ChunkFacts, SizeAssumption DEF Page, IInv
<1>6. \A d \in Page : Exists(d)' => d = lo \/ (d \notin J /\ Exists(d) /\ chunk'[d] = chunk[d])
  BY <1>2, <1>4
<1>7. ChunksInRange' BY <1>1, <1>2, <1>6 DEF ChunksInRange, Layout, IInv
<1>8. ChunksInOrder'
  <2> SUFFICES ASSUME NEW d \in Page, NEW e \in Page, Exists(d)', Exists(e)', d < e
               PROVE  d + chunk'[d].size <= e
    BY DEF ChunksInOrder
  <2>1. CASE d = lo
    <3>1. e # lo BY <1>1, <2>1
    <3>2. e \notin J /\ Exists(e) BY <1>6, <3>1
    <3>3. ~(e + chunk[e].size <= lo) BY <1>1, <1>5, <2>1, <3>2
    <3> QED BY <1>1, <1>2, <2>1, <3>2, <3>3
  <2>2. CASE d # lo /\ e = lo
    <3>1. d \notin J /\ Exists(d) /\ chunk'[d] = chunk[d] BY <1>6, <2>2
    <3>2. ~(lo + t <= d) BY <1>1, <1>5, <2>2
    <3> QED BY <1>1, <2>2, <3>1, <3>2
  <2>3. CASE d # lo /\ e # lo BY <1>6, <2>3 DEF ChunksInOrder, Layout, IInv
  <2> QED BY <2>1, <2>2, <2>3
<1>9. ActiveFits' BY <1>2, <1>4, <1>6 DEF ActiveFits, Layout, IInv, Exists
<1>10. MappedIsCovered'
  <2> SUFFICES ASSUME NEW p \in Page
               PROVE  p \in mapped <=> \E d \in Page : Covers(d, p)'
    BY DEF MappedIsCovered
  <2>1. p \in Int BY <1>5
  <2>2. Covers(lo, p)' <=> lo <= p /\ p < lo + t BY <1>2, <1>3 DEF Covers
  <2>3. \A d \in Page \ J : Covers(d, p)' <=> Covers(d, p) BY <1>4 DEF Covers
  <2>4. \A d \in J : d # lo => ~Covers(d, p)' BY <1>2 DEF Covers
  <2>5. (\E d \in Page : Covers(d, p)') <=> \E d \in Page : Covers(d, p)
    BY <1>1, <2>1, <2>2, <2>3, <2>4
  <2> QED BY <2>5 DEF MappedIsCovered, IInv
<1> QED BY <1>7, <1>8, <1>9, <1>10 DEF Layout

LEMMA MergeRtreeEffect ==
  ASSUME NEW rt \in [Probe -> 0..NumPages], NEW h \in Page, NEW hn, NEW d, NEW dn
  PROVE  /\ MergeRtree(rt, h, hn, d, dn) \in [Probe -> 0..NumPages]
         /\ \A p \in Probe : MergeRtree(rt, h, hn, d, dn)[p] =
              IF p \in Ends(h, hn + dn) THEN h
              ELSE IF p \in Ends(h, hn) \cup Ends(d, dn) THEN NoPage ELSE rt[p]
<1>1. NoPage \in 0..NumPages /\ h \in 0..NumPages BY SizeAssumption DEF NoPage, Page
<1> QED BY <1>1 DEF MergeRtree, Delete, Insert

\* The entries of the joined chunks are taken off, those of the whole put in.
LEMMA JoinedMap ==
  ASSUME IInv, NEW a \in Arena, NEW c, NEW prev, NEW next, Neighbours(a, c, prev, next),
         PushCleanChunk(a, c, prev, next),
         NEW lo, lo = Head(c, prev), NEW t, t = Total(c, prev, next)
  PROVE  /\ rtree' \in [Probe -> 0..NumPages]
         /\ \A p \in Probe : rtree'[p] =
              IF p \in Ends(lo, t) THEN lo
              ELSE IF \E d \in Joined(c, prev, next) : p \in Ends(d, chunk[d].size)
              THEN NoPage ELSE rtree[p]
<1> DEFINE J == Joined(c, prev, next)
           n == chunk[c].size
<1>1. /\ c \in Page /\ c # NoPage /\ Exists(c) /\ ~Detached(c)
      /\ prev # NoPage => prev \in Page /\ prev + chunk[prev].size = c
      /\ next # NoPage => next \in Page /\ next = c + n
  BY SizeAssumption DEF Neighbours, Free, NoPage, Page, Exists
<1>2. rtree \in [Probe -> 0..NumPages] BY DEF IInv, TypeOK
<1>3. \A d \in Page : d \in Int /\ (Exists(d) => chunk[d].size \in Nat \ {0})
  BY ChunkFacts, SizeAssumption DEF Page, IInv
<1>4. \A d \in J : chunk[d].size \in Nat \ {0} /\ d \in Int BY JoinedExtent
<1>5. \A p \in Probe : p \in Int BY SizeAssumption DEF Probe
<1>6. \A d : d \in J <=> d \in {c, prev, next} /\ d # NoPage BY DEF Joined
<1>n. n \in Nat \ {0} /\ 0 + n = n /\ n + 0 = n BY <1>1, <1>3
<1>7. CASE prev = NoPage /\ next = NoPage
  <2>1. lo = c /\ t = n /\ rtree' = rtree
    BY <1>n, <1>7 DEF PushCleanChunk, Head, Total, SizeOf
  <2>2. \A d \in J : d = c BY <1>6, <1>7
  <2>3. \A p \in Probe : p \in Ends(c, n) => rtree[p] = c
    BY <1>1 DEF IInv, PageMapExact, FoundBy
  <2> QED BY <1>2, <2>1, <2>2, <2>3
<1>8. CASE prev # NoPage /\ next = NoPage
  <2> DEFINE pn == chunk[prev].size
  <2>0. pn \in Nat /\ (pn + n) + 0 = pn + n BY <1>4, <1>6, <1>8, <1>n
  <2>1. lo = prev /\ t = pn + n /\ rtree' = MergeRtree(rtree, prev, pn, c, n)
    BY <2>0, <1>8 DEF PushCleanChunk, Head, Total, SizeOf
  <2>2. J = {prev, c} BY <1>1, <1>6, <1>8
  <2> QED BY <1>1, <1>2, <1>8, <2>1, <2>2, MergeRtreeEffect
<1>9. CASE prev = NoPage /\ next # NoPage
  <2> DEFINE nn == chunk[next].size
  <2>0. 0 + n + nn = n + nn BY <1>n
  <2>1. lo = c /\ t = n + nn /\ rtree' = MergeRtree(rtree, c, n, next, nn)
    BY <2>0, <1>n, <1>9 DEF PushCleanChunk, Head, Total, SizeOf
  <2>2. J = {c, next} BY <1>1, <1>6, <1>9
  <2> QED BY <1>1, <1>2, <1>9, <2>1, <2>2, MergeRtreeEffect
<1>10. CASE prev # NoPage /\ next # NoPage
  <2> DEFINE pn == chunk[prev].size
             nn == chunk[next].size
             back == MergeRtree(rtree, prev, pn, c, n)
  <2>1. lo = prev /\ t = pn + n + nn /\ rtree' = MergeRtree(back, prev, pn + n, next, nn)
    BY <1>4, <1>6, <1>1, <1>10 DEF PushCleanChunk, Head, Total, SizeOf
  <2>2. J = {prev, c, next} BY <1>1, <1>6, <1>10
  <2>3. /\ back \in [Probe -> 0..NumPages]
        /\ \A p \in Probe : back[p] =
             IF p \in Ends(prev, pn + n) THEN prev
             ELSE IF p \in Ends(prev, pn) \cup Ends(c, n) THEN NoPage ELSE rtree[p]
    BY <1>1, <1>2, <1>10, MergeRtreeEffect
  <2> HIDE DEF back
  <2>4. /\ rtree' \in [Probe -> 0..NumPages]
        /\ \A p \in Probe : rtree'[p] =
             IF p \in Ends(prev, pn + n + nn) THEN prev
             ELSE IF p \in Ends(prev, pn + n) \cup Ends(next, nn) THEN NoPage ELSE back[p]
    BY <1>1, <1>10, <2>1, <2>3, MergeRtreeEffect
  <2>5. pn \in Nat \ {0} /\ n \in Nat \ {0} /\ nn \in Nat \ {0} /\ prev \in Int /\ c \in Int
    BY <1>4, <2>2
  <2>6. \A p \in Probe : p \in Ends(prev, pn + n) => p \in Ends(prev, pn) \cup Ends(c, n)
    BY <1>1, <1>10, <2>5 DEF Ends
  <2> QED BY <2>1, <2>2, <2>3, <2>4, <2>6
<1> QED BY <1>7, <1>8, <1>9, <1>10

\* Erasing a chunk from the one bin it is in rids all bins of it.
LEMMA EraseEffect ==
  ASSUME NEW bins \in [Pind -> SUBSET Page], NEW k \in Pind, NEW c,
         \A i \in Pind : c \in bins[i] => i = k
  PROVE  /\ Erase(bins, k, c) \in [Pind -> SUBSET Page]
         /\ \A i \in Pind, d \in Page : d \in Erase(bins, k, c)[i] <=> d \in bins[i] /\ d # c
BY DEF Erase

\* The clean chunks that are joined leave their bins, and the whole goes to the
\* bin of its size.
LEMMA JoinedClean ==
  ASSUME IInv, NEW a \in Arena, NEW c, NEW prev, NEW next, Neighbours(a, c, prev, next),
         PushCleanChunk(a, c, prev, next),
         NEW lo, lo = Head(c, prev), NEW t, t = Total(c, prev, next)
  PROVE  /\ clean' \in BinsAreSets
         /\ \A b \in Arena, i \in Pind, d \in Page :
              d \in clean'[b][i] <=> \/ d \in clean[b][i] /\ ~(b = a /\ d \in {prev, next})
                                     \/ b = a /\ i = get_fit_pind(t) /\ d = lo
<1> DEFINE left == IF prev = NoPage THEN clean[a]
                   ELSE Erase(clean[a], get_fit_pind(SizeOf(prev)), prev)
           right == IF next = NoPage THEN left
                    ELSE Erase(left, get_fit_pind(SizeOf(next)), next)
<1>1. clean \in BinsAreSets /\ clean[a] \in [Pind -> SUBSET Page]
  BY DEF IInv, TypeOK, BinsAreSets
<1>2. lo \in Page /\ t \in Nat \ {0} BY JoinedExtent
<1>3. get_fit_pind(t) \in Pind BY <1>2, FitPind
<1>4. \A d \in Page : d # NoPage BY SizeAssumption DEF Page, NoPage
<1>5. ASSUME NEW d \in {prev, next}, d # NoPage
      PROVE  /\ get_fit_pind(SizeOf(d)) \in Pind
             /\ \A i \in Pind : d \in clean[a][i] => i = get_fit_pind(SizeOf(d))
  <2>1. d \in Page /\ Exists(d) BY <1>5 DEF Neighbours, Free, Exists
  <2>2. SizeOf(d) = chunk[d].size /\ chunk[d].size \in Nat \ {0}
    BY <1>5, <2>1, ChunkFacts DEF SizeOf, IInv
  <2>3. get_fit_pind(SizeOf(d)) \in Pind BY <2>2, FitPind
  <2> QED BY <2>1, <2>2, <2>3 DEF IInv, BinsMatch, BelongsFit
<1>6. /\ left \in [Pind -> SUBSET Page]
      /\ \A i \in Pind, d \in Page : d \in left[i] <=> d \in clean[a][i] /\ d # prev
  <2>1. CASE prev = NoPage BY <1>1, <1>4, <2>1
  <2>2. CASE prev # NoPage BY <1>1, <1>5, <2>2, EraseEffect
  <2> QED BY <2>1, <2>2
<1> HIDE DEF left
<1>7. /\ right \in [Pind -> SUBSET Page]
      /\ \A i \in Pind, d \in Page :
           d \in right[i] <=> d \in clean[a][i] /\ d \notin {prev, next}
  <2>1. CASE next = NoPage BY <1>4, <1>6, <2>1
  <2>2. CASE next # NoPage
    <3>1. next \in Page BY <2>2 DEF Neighbours, Free
    <3>2. \A i \in Pind : next \in left[i] => i = get_fit_pind(SizeOf(next))
      BY <1>5, <1>6, <2>2, <3>1
    <3> QED BY <1>5, <1>6, <2>2, <3>2, EraseEffect
  <2> QED BY <2>1, <2>2
<1> USE DEF left
<1>8. clean' = [clean EXCEPT ![a] = Push(right, get_fit_pind(t), lo)]
  BY DEF PushCleanChunk, SizeOf, Head, Total
<1> HIDE DEF right, left
<1>9. /\ Push(right, get_fit_pind(t), lo) \in [Pind -> SUBSET Page]
      /\ \A i \in Pind, d \in Page :
           d \in Push(right, get_fit_pind(t), lo)[i] <=>
             \/ d \in clean[a][i] /\ d \notin {prev, next}
             \/ i = get_fit_pind(t) /\ d = lo
  BY <1>2, <1>3, <1>7 DEF Push
<1> QED BY <1>1, <1>8, <1>9 DEF BinsAreSets

LEMMA JoinedBins ==
  ASSUME IInv, NEW a \in Arena, NEW c, NEW prev, NEW next, Neighbours(a, c, prev, next),
         PushCleanChunk(a, c, prev, next), \A d \in Page : Detached(d)' <=> Detached(d)
  PROVE  BinsMatch' /\ dirty' \in BinsAreSets /\ clean' \in BinsAreSets
<1>0. PICK lo, t : lo = Head(c, prev) /\ t = Total(c, prev, next) OBVIOUS
<1>j. PICK J : J = Joined(c, prev, next) OBVIOUS
<1>1. /\ lo \in J /\ lo \in Page
      /\ \A d \in J : d \in Page /\ chunk[d].arena = a /\ ~Detached(d) /\ Exists(d)
  BY <1>0, <1>j, JoinedExtent
<1>2. /\ OthersKept(J) /\ chunk'[lo].state = "clean" /\ chunk'[lo].size = t
      /\ chunk'[lo].arena = a /\ \A d \in J : d # lo => ~Exists(d)'
  BY <1>0, <1>j, JoinedChunks
<1>3. /\ clean' \in BinsAreSets
      /\ \A b \in Arena, i \in Pind, d \in Page :
           d \in clean'[b][i] <=> \/ d \in clean[b][i] /\ ~(b = a /\ d \in {prev, next})
                                  \/ b = a /\ i = get_fit_pind(t) /\ d = lo
  BY <1>0, JoinedClean
<1>4. /\ dirty' \in BinsAreSets
      /\ \A b \in Arena, i \in Pind, d \in Page :
           d \in dirty'[b][i] <=> d \in dirty[b][i] /\ ~(b = a /\ d = c)
  <2>1. dirty \in BinsAreSets BY DEF IInv, TypeOK, BinsAreSets
  <2>2. dirty' = [dirty EXCEPT ![a] = Pop(dirty[a], c)] BY DEF PushCleanChunk
  <2> QED BY <2>1, <2>2 DEF BinsAreSets, Pop
<1>5. ASSUME NEW d \in J
      PROVE  /\ d \in {c, prev, next} /\ (d = c => chunk[d].state = "dirty")
             /\ d # c => chunk[d].state = "clean" /\ d \in {prev, next}
  BY <1>j, <1>1 DEF Joined, Neighbours, Free
<1>6. c \in J
  BY <1>j, SizeAssumption DEF Joined, Neighbours, Free, Page, NoPage
<1>7. \A d \in Page : d \in {prev, next} => d \in J
  BY <1>j, SizeAssumption DEF Joined, Page, NoPage
<1> SUFFICES ASSUME NEW b \in Arena, NEW i \in Pind, NEW d \in Page
             PROVE  /\ d \in dirty'[b][i] <=> chunk'[d].state = "dirty" /\ BelongsFit(d, b, i)'
                    /\ d \in clean'[b][i] <=> chunk'[d].state = "clean" /\ BelongsFit(d, b, i)'
  BY <1>3, <1>4 DEF BinsMatch
<1>8. /\ d \in dirty[b][i] <=> chunk[d].state = "dirty" /\ BelongsFit(d, b, i)
      /\ d \in clean[b][i] <=> chunk[d].state = "clean" /\ BelongsFit(d, b, i)
  BY DEF IInv, BinsMatch
<1>9. CASE d \in J
  <2>1. d \notin dirty'[b][i] BY <1>1, <1>4, <1>5, <1>8, <1>9 DEF BelongsFit
  <2>2. d \in clean'[b][i] <=> b = a /\ i = get_fit_pind(t) /\ d = lo
    BY <1>1, <1>3, <1>5, <1>8, <1>9 DEF BelongsFit
  <2>3. CASE d = lo
    <3>1. BelongsFit(d, b, i)' <=> b = a /\ i = get_fit_pind(t)
      BY <1>1, <1>2, <2>3 DEF BelongsFit
    <3> QED BY <1>2, <2>1, <2>2, <2>3, <3>1
  <2>4. CASE d # lo
    <3>1. chunk'[d].state = "none" BY <1>2, <1>9, <2>4 DEF Exists
    <3> QED BY <2>1, <2>2, <2>4, <3>1
  <2> QED BY <2>3, <2>4
<1>10. CASE d \notin J
  <2>1. chunk'[d] = chunk[d] /\ (BelongsFit(d, b, i)' <=> BelongsFit(d, b, i))
    BY <1>2, <1>10, KeptAlike
  <2> QED BY <1>1, <1>3, <1>4, <1>6, <1>7, <1>8, <1>10, <2>1
<1> QED BY <1>9, <1>10

LEMMA ReleaseStaleIInv ==
  ASSUME IInv, NEW a \in Arena, ReleaseStale(a)
  PROVE  IInv'
<1>1. UNCHANGED <<mapped, epoch, tick, op>> BY DEF ReleaseStale
<1>2. PICK c \in Stale(a) :
        PushCleanChunk(a, c, CleanAt(a, c - 1), CleanAt(a, c + chunk[c].size))
  BY DEF ReleaseStale
<1>3. PICK prev, next :
        prev = CleanAt(a, c - 1) /\ next = CleanAt(a, c + chunk[c].size)
  OBVIOUS
<1>4. Neighbours(a, c, prev, next)
  <2>1. PICK i \in Pind : c \in dirty[a][i] BY <1>2 DEF Stale
  <2>2. c \in Page BY <2>1 DEF IInv, TypeOK
  <2>3. Free(a, c, "dirty") BY <2>1, <2>2 DEF Free, IInv, BinsMatch, BelongsFit
  <2> QED BY <1>3, <2>3, CleanBefore, CleanAfter DEF Neighbours
<1>5. PushCleanChunk(a, c, prev, next) BY <1>2, <1>3
<1>6. PICK lo, t, J :
        lo = Head(c, prev) /\ t = Total(c, prev, next) /\ J = Joined(c, prev, next)
  OBVIOUS
<1>7. /\ lo \in J /\ lo \in Page /\ lo \in Int /\ t \in Nat \ {0}
      /\ \A d \in J : /\ d \in Page /\ Exists(d) /\ ~Detached(d)
                      /\ chunk[d].state \in {"dirty", "clean"}
  BY <1>4, <1>6, JoinedExtent
<1>8. /\ chunk' \in [Page -> Chunk] /\ OthersKept(J)
      /\ chunk'[lo].state = "clean" /\ chunk'[lo].size = t
      /\ \A d \in J : d # lo => ~Exists(d)'
  BY <1>4, <1>5, <1>6, JoinedChunks
<1>9. Layout' /\ MappedIsCovered' BY <1>1, <1>4, <1>5, JoinedLayout
<1>10. \A d \in Page : Detached(d)' <=> Detached(d) BY <1>1 DEF Detached, Holds
<1>11. BinsMatch' /\ dirty' \in BinsAreSets /\ clean' \in BinsAreSets
  BY <1>4, <1>5, <1>10, JoinedBins
<1>12. CallsOwnChunk'
  <2> SUFFICES ASSUME NEW b \in Arena, op[b].step \in HoldSteps PROVE CallOwns(b)'
    BY <1>1 DEF CallsOwnChunk, CallOwns
  <2>1. CallOwns(b) /\ op[b].base \in Page BY DEF IInv, CallsOwnChunk, CallOwns
  <2>2. Detached(op[b].base) BY DEF Detached, Holds, HoldSteps
  <2>3. op[b].base \notin J BY <1>7, <2>2
  <2>4. chunk'[op[b].base] = chunk[op[b].base] BY <1>8, <2>1, <2>3 DEF OthersKept
  <2> QED BY <1>1, <2>1, <2>4 DEF CallOwns, At
<1>13. /\ rtree' \in [Probe -> 0..NumPages]
       /\ \A p \in Probe : rtree'[p] =
            IF p \in Ends(lo, t) THEN lo
            ELSE IF \E d \in J : p \in Ends(d, chunk[d].size) THEN NoPage ELSE rtree[p]
  BY <1>4, <1>5, <1>6, JoinedMap
<1>14. PageMapExact'
  <2> SUFFICES ASSUME NEW p \in Probe, NEW d \in Page
               PROVE  rtree'[p] = d <=> Exists(d)' /\ ~Detached(d)' /\ FoundBy(d, p)'
    BY DEF PageMapExact
  <2>1. rtree[p] = d <=> Exists(d) /\ ~Detached(d) /\ FoundBy(d, p) BY DEF IInv, PageMapExact
  <2>2. d # NoPage BY SizeAssumption DEF Page, NoPage
  <2>3. \A e \in J : p \in Ends(e, chunk[e].size) <=> rtree[p] = e
    BY <1>7 DEF IInv, PageMapExact, FoundBy
  <2>4. CASE d = lo
    <3>1. Exists(lo)' /\ (FoundBy(lo, p)' <=> p \in Ends(lo, t))
      BY <1>8 DEF Exists, FoundBy
    <3>2. rtree'[p] = lo <=> p \in Ends(lo, t) BY <1>7, <1>13, <2>2, <2>3, <2>4
    <3> QED BY <1>7, <1>10, <2>4, <3>1, <3>2
  <2>5. CASE d \in J /\ d # lo
    <3>1. rtree'[p] # d BY <1>13, <2>2, <2>3, <2>5
    <3> QED BY <1>8, <2>5, <3>1
  <2>6. CASE d \notin J
    <3>1. rtree'[p] = d => rtree[p] = d BY <1>7, <1>13, <2>2, <2>6
    <3>2. rtree[p] = d => p \notin Ends(lo, t)
      <4> SUFFICES ASSUME rtree[p] = d, p \in Ends(lo, t) PROVE FALSE OBVIOUS
      <4>1. Covers(d, p) BY <2>1, FoundIsCovered DEF IInv
      <4>2. p \in Int /\ lo <= p /\ p < lo + t
        BY <1>7, SizeAssumption DEF Ends, Probe
      <4>3. PICK e \in J : Covers(e, p)
        BY <1>4, <1>6, <4>2, JoinedExtent
      <4>4. d = e BY <1>7, <4>1, <4>2, <4>3, CoveredOnce DEF IInv
      <4> QED BY <2>6, <4>4
    <3>3. rtree[p] = d => rtree'[p] = d BY <1>13, <2>3, <2>6, <3>2
    <3> QED BY <1>8, <1>10, <2>1, <2>6, <3>1, <3>3, KeptAlike
  <2> QED BY <2>4, <2>5, <2>6, <1>7
<1>15. TypeOK' BY <1>1, <1>8, <1>11, <1>13 DEF IInv, TypeOK, BinsAreSets
<1> QED BY <1>9, <1>11, <1>12, <1>14, <1>15 DEF IInv

-----------------------------------------------------------------------------
(* What a step leaves alone *)

\* All that a call of a does to chunks is done to free chunks of a, and makes
\* chunks of a.
WorksOn(a, c) ==
  /\ Exists(c) => chunk[c].arena = a
  /\ Exists(c)' => chunk'[c].arena = a

TouchesFreeOnly(a) ==
  \A c \in Page : \/ chunk'[c] = chunk[c]
                  \/ WorksOn(a, c) /\ chunk[c].state # "active"

\* c is the only chunk, if any, that the step makes a chunk in use.
HandsOutOnly(c) ==
  \A d \in Page : chunk'[d].state = "active" /\ chunk[d].state # "active" => d = c

\* ... and its slab() is what the call asked for.
HandsOutAs(slab) ==
  \A d \in Page : chunk'[d].state = "active" /\ chunk[d].state # "active" => chunk'[d].slab = slab

LEMMA HandOutTouches ==
  ASSUME IInv, NEW a \in Arena, NEW c \in Page, NEW rt, NEW n \in Sizes,
         NEW slab \in BOOLEAN,
         chunk[c].state \in {"dirty", "clean"}, chunk[c].arena = a, n <= chunk[c].size,
         HandOut(a, c, rt, n, slab)
  PROVE  TouchesFreeOnly(a) /\ HandsOutOnly(c) /\ HandsOutAs(slab)
<1>1. n \in Nat \ {0} /\ Exists(c) /\ TypeOK /\ Layout
  BY SizesArePositive DEF Exists, IInv
<1>2. CutTo(c, n, slab) BY <1>1, HandOutCuts
<1>3. n < chunk[c].size => c + n \in Page /\ ~Exists(c + n) BY <1>1, <1>2, CutLayout
<1>4. n = chunk[c].size \/ n < chunk[c].size BY <1>1, ChunkFacts
<1>5. chunk'[c].arena = a /\ chunk'[c].slab = slab /\ WorksOn(a, c)
  BY <1>2 DEF CutTo, Becomes, WorksOn
<1>6. n < chunk[c].size => /\ WorksOn(a, c + n) /\ chunk[c + n].state # "active"
                           /\ chunk'[c + n].state # "active"
  BY <1>2, <1>3 DEF CutTo, Becomes, WorksOn, Exists
<1>7. \A d \in Page : d = c \/ (n < chunk[c].size /\ d = c + n) \/ chunk'[d] = chunk[d]
  BY <1>2, <1>4 DEF CutTo, OthersKept
<1> QED BY <1>5, <1>6, <1>7 DEF TouchesFreeOnly, HandsOutOnly, HandsOutAs

LEMMA AllocTouches ==
  ASSUME IInv, NEW a \in Arena, NEW n \in Sizes, NEW slab \in BOOLEAN,
         AllocDirty(a, n, slab) \/ AllocClean(a, n, slab)
  PROVE  TouchesFreeOnly(a) /\ OthersWait(a) /\ (\E c : HandsOutOnly(c)) /\ HandsOutAs(slab)
<1>1. TypeOK /\ Layout /\ dirty \in BinsAreSets /\ clean \in BinsAreSets
      /\ Exact(dirty, "dirty") /\ Exact(clean, "clean")
  BY BinsExactly DEF IInv, TypeOK, BinsAreSets
<1>2. n <= StandardChunk /\ Event(a) BY DEF AllocDirty, AllocClean
<1>3. CASE AllocDirty(a, n, slab)
  <2>1. PICK c \in FindSuitableChunk(dirty[a], sz_to_pind(n)) : HandOut(a, c, rtree, n, slab)
    BY <1>3 DEF AllocDirty
  <2>2. /\ c \in Page /\ chunk[c].state = "dirty" /\ chunk[c].arena = a
        /\ n <= chunk[c].size
    BY <1>1, <1>2, FirstFit
  <2> QED BY <1>1, <1>2, <2>1, <2>2, HandOutTouches, EventEffect
<1>4. CASE AllocClean(a, n, slab)
  <2>1. PICK c \in FindSuitableChunk(clean[a], sz_to_pind(n)) : HandOut(a, c, rtree, n, slab)
    BY <1>4 DEF AllocClean
  <2>2. /\ c \in Page /\ chunk[c].state = "clean" /\ chunk[c].arena = a
        /\ n <= chunk[c].size
    BY <1>1, <1>2, FirstFit
  <2> QED BY <1>1, <1>2, <2>1, <2>2, HandOutTouches, EventEffect
<1> QED BY <1>3, <1>4

LEMMA RegisterNewTouches ==
  ASSUME IInv, NEW a \in Arena, RegisterNew(a)
  PROVE  /\ TouchesFreeOnly(a) /\ OthersWait(a) /\ \E c : HandsOutOnly(c)
         /\ HandsOutAs(op[a].slab)
<1> DEFINE c == op[a].base
           n == op[a].need
           rt == Insert(rtree, Ends(c, chunk[c].size), c)
<1>1. /\ c \in Page /\ chunk[c].state = "dirty" /\ chunk[c].arena = a
      /\ n \in Sizes /\ n <= chunk[c].size /\ op[a].slab \in BOOLEAN
  <2>1. CallOwns(a) /\ At(a, "register") BY DEF IInv, CallsOwnChunk, RegisterNew
  <2>2. op[a].step = "register" BY <2>1 DEF At
  <2>3. op[a] \in Call BY DEF IInv, TypeOK, Call
  <2> QED BY <2>1, <2>2, <2>3 DEF CallOwns, HoldSteps, Call
<1>2. HandOut(a, c, rt, n, op[a].slab) /\ Event(a) /\ TypeOK BY DEF RegisterNew, IInv
<1> HIDE DEF c, n, rt
<1> QED BY <1>1, <1>2, HandOutTouches, EventEffect

\* The place found for new memory is mapped by nobody, so no chunk is there.
LEMMA MapNewTouches ==
  ASSUME IInv, NEW a \in Arena, NEW n \in Sizes, NEW slab \in BOOLEAN, MapNew(a, n, slab)
  PROVE  TouchesFreeOnly(a) /\ OthersWait(a) /\ HandsOutOnly(NoPage)
<1> DEFINE whole == IF n > StandardChunk THEN n ELSE StandardChunk
           new == [state |-> "dirty", size |-> whole, arena |-> a,
                   epoch |-> epoch[a], slab |-> FALSE]
<1>1. whole \in Nat \ {0} BY SizesArePositive, SizeAssumption DEF StandardChunk, Pind
<1>2. PICK base \in Page :
        /\ base..(base + whole - 1) \subseteq Page \ mapped
        /\ chunk' = [chunk EXCEPT ![base] = new]
        /\ op' = [op EXCEPT ![a] =
                     [step |-> "register", base |-> base, need |-> n, slab |-> slab]]
  BY DEF MapNew
<1>3. new.arena = a /\ new.state = "dirty" OBVIOUS
<1> HIDE DEF whole, new
<1>4. base \in Int BY SizeAssumption DEF Page
<1>5. base \notin mapped
  <2>1. base \in base..(base + whole - 1) BY <1>1, <1>4
  <2> QED BY <1>2, <2>1
<1>6. ~Exists(base)
  <2>1. Exists(base) => Covers(base, base) BY <1>4, ChunkFacts DEF IInv, Covers
  <2> QED BY <1>5, <2>1 DEF IInv, MappedIsCovered
<1>7. chunk \in [Page -> Chunk] /\ op \in [Arena -> Call] BY DEF IInv, TypeOK, Call
<1>8. chunk'[base] = new /\ \A d \in Page : d # base => chunk'[d] = chunk[d]
  BY <1>2, <1>7
<1>9. WorksOn(a, base) /\ chunk[base].state # "active" BY <1>3, <1>6, <1>8 DEF WorksOn, Exists
<1>10. OthersWait(a) BY <1>2, <1>7 DEF OthersWait
<1> QED BY <1>3, <1>8, <1>9, <1>10 DEF TouchesFreeOnly, HandsOutOnly

LEMMA UnmapTouches ==
  ASSUME IInv, NEW a \in Arena, op[a].step \in HoldSteps, Unmap(a)
  PROVE  TouchesFreeOnly(a) /\ HandsOutOnly(NoPage)
<1>0. PICK c : c = op[a].base OBVIOUS
<1>1. c \in Page /\ chunk[c].state \in {"dirty", "clean"} /\ chunk[c].arena = a
  BY <1>0 DEF IInv, CallsOwnChunk, CallOwns
<1>2. chunk' = [chunk EXCEPT ![c] = NoChunk] /\ chunk \in [Page -> Chunk]
  BY <1>0 DEF Unmap, IInv, TypeOK
<1>3. chunk'[c].state = "none" BY <1>1, <1>2 DEF NoChunk
<1>4. WorksOn(a, c) /\ chunk[c].state # "active" BY <1>1, <1>3 DEF WorksOn, Exists
<1> QED BY <1>2, <1>3, <1>4 DEF TouchesFreeOnly, HandsOutOnly

LEMMA ReleaseStaleTouches ==
  ASSUME IInv, NEW a \in Arena, ReleaseStale(a)
  PROVE  TouchesFreeOnly(a) /\ OthersWait(a) /\ HandsOutOnly(NoPage)
<1>1. PICK c \in Stale(a) :
        PushCleanChunk(a, c, CleanAt(a, c - 1), CleanAt(a, c + chunk[c].size))
  BY DEF ReleaseStale
<1>2. PICK prev, next :
        prev = CleanAt(a, c - 1) /\ next = CleanAt(a, c + chunk[c].size)
  OBVIOUS
<1>3. Neighbours(a, c, prev, next)
  <2>1. PICK i \in Pind : c \in dirty[a][i] BY <1>1 DEF Stale
  <2>2. c \in Page BY <2>1 DEF IInv, TypeOK
  <2>3. Free(a, c, "dirty") BY <2>1, <2>2 DEF Free, IInv, BinsMatch, BelongsFit
  <2> QED BY <1>2, <2>3, CleanBefore, CleanAfter DEF Neighbours
<1>4. PushCleanChunk(a, c, prev, next) BY <1>1, <1>2
<1>5. PICK lo, t, J :
        lo = Head(c, prev) /\ t = Total(c, prev, next) /\ J = Joined(c, prev, next)
  OBVIOUS
<1>6. \A d \in J : d \in Page /\ chunk[d].arena = a /\ chunk[d].state \in {"dirty", "clean"}
  BY <1>3, <1>5, JoinedExtent
<1>7. /\ OthersKept(J) /\ chunk'[lo].arena = a /\ chunk'[lo].state = "clean"
      /\ \A d \in J : d # lo => ~Exists(d)'
  BY <1>3, <1>4, <1>5, JoinedChunks
<1>8. \A d \in J : WorksOn(a, d) /\ chunk[d].state # "active"
  BY <1>6, <1>7 DEF WorksOn
<1>9. OthersWait(a) BY DEF ReleaseStale, OthersWait
<1>10. HandsOutOnly(NoPage) BY <1>6, <1>7 DEF HandsOutOnly, OthersKept, Exists
<1> QED BY <1>7, <1>8, <1>9, <1>10 DEF OthersKept, TouchesFreeOnly

LEMMA ContinueTouches ==
  ASSUME IInv, NEW a \in Arena, Continue(a)
  PROVE  TouchesFreeOnly(a) /\ OthersWait(a) /\ \E c : HandsOutOnly(c)
<1>1. TypeOK /\ op \in [Arena -> Call] BY DEF IInv, TypeOK, Call
<1>2. CASE RegisterNew(a) BY <1>2, RegisterNewTouches
<1>3. CASE UnmapHuge(a)
  <2>1. op[a].step \in HoldSteps /\ Unmap(a) /\ Event(a) BY <1>3 DEF UnmapHuge, At, HoldSteps
  <2> QED BY <1>1, <2>1, UnmapTouches, EventEffect
<1>4. CASE ReleaseStale(a) BY <1>4, ReleaseStaleTouches
<1>5. CASE EndGC(a)
  <2>1. "idle" \in Steps BY DEF Steps
  <2> QED BY <1>1, <1>5, <2>1, GotoEffect DEF EndGC, TouchesFreeOnly, HandsOutOnly
<1>6. CASE DestroyNext(a)
  <2>1. chunk' = chunk BY <1>6 DEF DestroyNext
  <2>2. PICK c : op' = [op EXCEPT ![a] = [Idle EXCEPT !.step = "destroyUnmap", !.base = c]]
    BY <1>6 DEF DestroyNext
  <2> QED BY <1>1, <2>1, <2>2 DEF TouchesFreeOnly, OthersWait, HandsOutOnly
<1>7. CASE DestroyUnmap(a)
  <2>1. op[a].step \in HoldSteps /\ Unmap(a) /\ Goto(a, "destroy") /\ "destroy" \in Steps
    BY <1>7 DEF DestroyUnmap, At, HoldSteps, Steps
  <2> QED BY <1>1, <2>1, UnmapTouches, GotoEffect
<1>8. CASE EndDestroy(a)
  <2>1. "gone" \in Steps BY DEF Steps
  <2> QED BY <1>1, <1>8, <2>1, GotoEffect DEF EndDestroy, TouchesFreeOnly, HandsOutOnly
<1> QED BY <1>2, <1>3, <1>4, <1>5, <1>6, <1>7, <1>8 DEF Continue

\* Only DallocChunk touches a chunk in use.
LEMMA StepTouches ==
  ASSUME IInv, Next
  PROVE  \E a \in Arena :
           /\ OthersWait(a)
           /\ \/ TouchesFreeOnly(a) /\ \E c : HandsOutOnly(c)
              \/ \E c \in Page :
                   /\ DallocToBin(a, c) \/ DallocHuge(a, c)
                   /\ OthersKept({c}) /\ WorksOn(a, c) /\ chunk'[c].state = "dirty"
<1>1. PICK a \in Arena :
        AllocChunk(a) \/ DallocChunk(a) \/ BeginDestroy(a) \/ Continue(a)
  BY DEF Next
<1>2. TypeOK BY DEF IInv
<1>3. CASE AllocChunk(a)
  <2>1. { ClassSize[i] : i \in Pind } \subseteq Sizes /\ HugeSize \subseteq Sizes
    BY DEF Sizes
  <2>2. PICK n \in Sizes, slab \in BOOLEAN :
          AllocDirty(a, n, slab) \/ AllocClean(a, n, slab) \/ MapNew(a, n, slab)
    BY <1>3, <2>1 DEF AllocChunk
  <2> QED BY <2>2, AllocTouches, MapNewTouches
<1>4. CASE DallocChunk(a)
  <2>1. PICK c \in Page : DallocToBin(a, c) \/ DallocHuge(a, c) BY <1>4 DEF DallocChunk
  <2>2. /\ chunk[c].state = "active" /\ chunk[c].arena = a
        /\ chunk' = [chunk EXCEPT ![c].state = "dirty", ![c].epoch = epoch[a]]
        /\ mapped' = mapped
    BY <2>1 DEF DallocToBin, DallocHuge
  <2>3. OthersKept({c}) /\ chunk'[c].state = "dirty" /\ chunk'[c].arena = a
    BY <2>2, FreedChunk
  <2>4. WorksOn(a, c) BY <2>2, <2>3 DEF WorksOn
  <2>5. OthersWait(a)
    <3>1. CASE DallocToBin(a, c) BY <1>2, <3>1, EventEffect DEF DallocToBin
    <3>2. CASE DallocHuge(a, c)
      <4>1. op[a].step \notin HoldSteps BY <3>2 DEF DallocHuge, At, HoldSteps
      <4> QED BY <1>2, <3>2, <4>1, HoldEffect DEF DallocHuge
    <3> QED BY <2>1, <3>1, <3>2
  <2> QED BY <2>1, <2>3, <2>4, <2>5
<1>5. CASE BeginDestroy(a)
  <2>1. "destroy" \in Steps BY DEF Steps
  <2> QED BY <1>2, <1>5, <2>1, GotoEffect DEF BeginDestroy, TouchesFreeOnly, HandsOutOnly
<1>6. CASE Continue(a) BY <1>6, ContinueTouches
<1> QED BY <1>1, <1>3, <1>4, <1>5, <1>6

\* A chunk the step leaves as it is, and of which its arena's call neither takes
\* hold nor lets go, is found by the same pages: the map is exact before and after.
LEMMA FoundAlike ==
  ASSUME IInv, IInv', NEW a \in Arena, OthersWait(a), NEW c \in Page,
         chunk'[c] = chunk[c], ~WorksOn(a, c)
  PROVE  \A p \in Probe : rtree'[p] = c <=> rtree[p] = c
<1>1. Exists(c) /\ chunk[c].arena # a BY DEF WorksOn, Exists
<1>2. ~Holds(a, c) BY <1>1, HeldOnce DEF IInv
<1>3. ~Holds(a, c)'
  BY <1>1 DEF IInv, CallsOwnChunk, CallOwns, Holds, HoldSteps
<1>4. \A b \in Arena : b # a => (Holds(b, c)' <=> Holds(b, c)) BY DEF OthersWait, Holds
<1>5. Detached(c)' <=> Detached(c) BY <1>2, <1>3, <1>4 DEF Detached
<1>6. /\ Exists(c)' <=> Exists(c)
      /\ \A p \in Probe : FoundBy(c, p)' <=> FoundBy(c, p)
  BY DEF Exists, FoundBy
<1> QED BY <1>5, <1>6 DEF IInv, PageMapExact

\* The chunks a step leaves in use are the ones that were, but for the one that
\* AllocChunk hands out or the one that DallocChunk takes: a step of the heap.
LEMMA StepRefines ==
  ASSUME IInv, IInv', Next
  PROVE  PageHeap!Next \/ UNCHANGED Extents
<1> DEFINE E(c) == [base |-> c, size |-> chunk[c].size]
           Span == [e \in PageExtent |-> e.base..(e.base + e.size - 1)]
<1>1. /\ Extents = { E(c) : c \in { d \in Page : chunk[d].state = "active" } }
      /\ Extents' = { E(c)' : c \in { d \in Page : chunk'[d].state = "active" } }
  BY DEF Extents
<1>2. /\ \A c \in Page : Exists(c) => /\ chunk[c].size \in Nat \ {0}
                                      /\ c + chunk[c].size - 1 \in Page
      /\ \A c \in Page : Exists(c)' => /\ chunk'[c].size \in Nat \ {0}
                                       /\ c + chunk'[c].size - 1 \in Page
  BY DEF IInv, Layout, ChunksInRange
<1>3. /\ \A c \in Page : Exists(c) => E(c) \in PageExtent
      /\ \A c \in Page : Exists(c)' => E(c)' \in PageExtent
  BY <1>2, SizeAssumption DEF PageExtent, Page
<1>4. PICK a \in Arena :
        \/ TouchesFreeOnly(a) /\ \E c : HandsOutOnly(c)
        \/ \E c \in Page : /\ DallocToBin(a, c) \/ DallocHuge(a, c)
                           /\ OthersKept({c}) /\ chunk'[c].state = "dirty"
  BY StepTouches
<1>5. CASE TouchesFreeOnly(a) /\ \E c : HandsOutOnly(c)
  <2>1. PICK c : HandsOutOnly(c) BY <1>5
  <2>2. \A d \in Page : chunk[d].state = "active" => chunk'[d] = chunk[d]
    BY <1>5 DEF TouchesFreeOnly
  <2>3. CASE c \in Page /\ chunk'[c].state = "active" /\ chunk[c].state # "active"
    <3>1. Extents' = Extents \cup {E(c)'} BY <1>1, <2>1, <2>2, <2>3 DEF HandsOutOnly
    <3>2. E(c)' \in PageExtent BY <1>3, <2>3 DEF Exists
    <3>3. ASSUME NEW f \in Extents PROVE Span[E(c)'] \cap Span[f] = {}
      <4>1. PICK d \in Page : f = E(d) /\ chunk[d].state = "active" BY <1>1
      <4>2. d # c /\ chunk'[d] = chunk[d] /\ Exists(d)' /\ Exists(c)' /\ Exists(d)
        BY <2>2, <2>3, <4>1 DEF Exists
      <4>3. f \in PageExtent BY <1>3, <4>1, <4>2
      <4>4. Span[E(c)'] = c..(c + chunk'[c].size - 1) /\ Span[f] = d..(d + chunk'[d].size - 1)
        BY <3>2, <4>1, <4>2, <4>3
      <4>5. (c < d => c + chunk'[c].size <= d) /\ (d < c => d + chunk'[d].size <= c)
        BY <2>3, <4>2 DEF IInv, Layout, ChunksInOrder
      <4>6. c \in Int /\ d \in Int /\ chunk'[c].size \in Nat /\ chunk'[d].size \in Nat
        BY <1>2, <2>3, <4>2, SizeAssumption DEF Page
      <4>7. c < d \/ d < c BY <4>2, <4>6
      <4> HIDE DEF Span, E
      <4> QED BY <4>4, <4>5, <4>6, <4>7
    <3>4. PageHeap!Alloc(E(c)') BY <3>1, <3>3 DEF PageHeap!Alloc, PageHeap!Apart
    <3> QED BY <3>2, <3>4 DEF PageHeap!Next
  <2>4. CASE ~(c \in Page /\ chunk'[c].state = "active" /\ chunk[c].state # "active")
    <3>1. \A d \in Page : chunk'[d].state = "active" <=> chunk[d].state = "active"
      BY <2>1, <2>2, <2>4 DEF HandsOutOnly
    <3> QED BY <1>1, <2>2, <3>1
  <2> QED BY <2>3, <2>4
<1>6. ASSUME NEW c \in Page, DallocToBin(a, c) \/ DallocHuge(a, c),
             OthersKept({c}), chunk'[c].state = "dirty"
      PROVE  PageHeap!Next
  <2>1. chunk[c].state = "active" BY <1>6 DEF DallocToBin, DallocHuge
  <2>2. \A d \in Page : chunk'[d].state = "active" <=> chunk[d].state = "active" /\ d # c
    BY <1>6 DEF OthersKept
  <2>3. \A d \in Page : d # c => E(d)' = E(d) BY <1>6 DEF OthersKept
  <2>4. \A d \in Page : E(d) = E(c) => d = c OBVIOUS
  <2>5. Extents' = Extents \ {E(c)} BY <1>1, <2>2, <2>3, <2>4
  <2>6. E(c) \in Extents /\ E(c) \in PageExtent BY <1>1, <1>3, <2>1 DEF Exists
  <2> QED BY <2>5, <2>6 DEF PageHeap!Next, PageHeap!Free
<1> QED BY <1>4, <1>5, <1>6

-----------------------------------------------------------------------------
(* The theorems *)

LEMMA InitIInv == Init => IInv
<1> SUFFICES ASSUME Init PROVE IInv OBVIOUS
<1> USE DEF Init
<1>1. 0 \in 0..NumPages /\ 0 \in 0..(EpochLimit - 1) /\ 0 \in 0..MaxEventTick
  BY SizeAssumption, CounterAssumption
<1>2. NoChunk \in Chunk /\ NoChunk.state = "none" BY <1>1 DEF NoChunk, Chunk
<1>3. \A c \in Page : ~Exists(c) /\ chunk[c].state = "none" BY <1>2 DEF Exists
<1>4. \A a \in Arena : op[a] = Idle /\ op[a].step = "idle" BY DEF Idle
<1>5. Idle \in Call BY <1>1 DEF Idle, Call, NoPage, Steps
<1>6. TypeOK BY <1>1, <1>2, <1>5 DEF TypeOK, NoBins, NoPage, Call
<1>7. Layout BY <1>3 DEF Layout, ChunksInRange, ChunksInOrder, ActiveFits
<1>8. MappedIsCovered BY <1>3 DEF MappedIsCovered, Covers
<1>9. CallsOwnChunk BY <1>4 DEF CallsOwnChunk, CallOwns, HoldSteps
<1>10. PageMapExact
  <2>1. \A c \in Page : c # NoPage BY SizeAssumption DEF Page, NoPage
  <2> QED BY <1>3, <2>1 DEF PageMapExact
<1>11. BinsMatch BY <1>3 DEF BinsMatch, NoBins
<1> QED BY <1>6, <1>7, <1>8, <1>9, <1>10, <1>11 DEF IInv

LEMMA NextIInv ==
  ASSUME IInv, [Next]_vars
  PROVE  IInv'
<1>1. ASSUME NEW a \in Arena, AllocChunk(a) PROVE IInv'
  <2>1. { ClassSize[i] : i \in Pind } \subseteq Sizes /\ HugeSize \subseteq Sizes
    BY DEF Sizes
  <2>2. ASSUME NEW n \in { ClassSize[i] : i \in Pind }, NEW slab \in BOOLEAN,
               AllocDirty(a, n, slab) \/ AllocClean(a, n, slab) \/ MapNew(a, n, slab)
        PROVE  IInv'
    BY <2>1, <2>2, AllocDirtyIInv, AllocCleanIInv, MapNewIInv
  <2>3. ASSUME NEW n \in HugeSize, MapNew(a, n, FALSE) PROVE IInv'
    BY <2>1, <2>3, MapNewIInv
  <2> QED BY <1>1, <2>2, <2>3 DEF AllocChunk
<1>2. ASSUME NEW a \in Arena, DallocChunk(a) PROVE IInv'
  BY <1>2, DallocToBinIInv, DallocHugeIInv DEF DallocChunk
<1>3. ASSUME NEW a \in Arena, Continue(a) PROVE IInv'
  <2>1. CASE RegisterNew(a) BY <2>1, RegisterNewIInv
  <2>2. CASE UnmapHuge(a) BY <2>2, UnmapHugeIInv
  <2>3. CASE ReleaseStale(a) BY <2>3, ReleaseStaleIInv
  <2>4. CASE EndGC(a) BY <2>4, EndGCIInv
  <2>5. CASE DestroyNext(a) BY <2>5, DestroyNextIInv
  <2>6. CASE DestroyUnmap(a) BY <2>6, DestroyUnmapIInv
  <2>7. CASE EndDestroy(a) BY <2>7, EndDestroyIInv
  <2> QED BY <1>3, <2>1, <2>2, <2>3, <2>4, <2>5, <2>6, <2>7 DEF Continue
<1>4. ASSUME UNCHANGED vars PROVE IInv'
  BY <1>4 DEF vars, IInv, TypeOK, Layout, ChunksInRange, ChunksInOrder, ActiveFits,
     MappedIsCovered, Covers, CallsOwnChunk, CallOwns, At, PageMapExact, FoundBy,
     BinsMatch, BelongsFit, Detached, Holds, Exists
<1> QED BY <1>1, <1>2, <1>3, <1>4, BeginDestroyIInv DEF Next

\* The invariant the theorems rest on: whatever step of whatever arena's call
\* (AllocChunk, DallocChunk, TriggerGC, ~ChunkManager) comes next, it holds.
THEOREM Inductive == Spec => []IInv
<1>1. IInv /\ [Next]_vars => IInv' BY NextIInv
<1> QED BY <1>1, InitIInv, PTL DEF Spec

\* Every chunk, bin, page map entry and counter of the page heap keeps its
\* type, for every number of arenas, pages and size classes.
THEOREM TypeCorrect == Spec => []TypeOK
<1>1. IInv => TypeOK BY DEF IInv
<1> QED BY <1>1, Inductive, PTL

\* SplitChunk, MergeChunk and OSNewChunk never make two chunks share a page.
THEOREM ChunksAlwaysDisjoint == Spec => []ChunksDisjoint
<1>1. ASSUME IInv PROVE ChunksDisjoint
  <2> SUFFICES ASSUME NEW c \in Page, NEW d \in Page, Exists(c), Exists(d), c # d,
                      NEW p \in Pages(c), p \in Pages(d)
               PROVE  FALSE
    BY DEF ChunksDisjoint
  <2>1. \A e \in Page : Exists(e) => e \in Int /\ chunk[e].size \in Nat
    BY <1>1, ChunkFacts, SizeAssumption DEF IInv, Page
  <2>2. p \in Int /\ Covers(c, p) /\ Covers(d, p) BY <2>1 DEF Pages, Covers
  <2> QED BY <1>1, <2>2, CoveredOnce DEF IInv
<1> QED BY <1>1, Inductive, PTL

\* OSNewChunk, OSDeleteChunk and all that cuts and joins between them lose no
\* mapped page and keep no chunk of unmapped ones.
THEOREM MappedAlwaysTiled == Spec => []MappedIsTiled
<1>1. ASSUME IInv PROVE MappedIsTiled
  <2>1. \A c \in Page : Exists(c) =>
          c \in Int /\ chunk[c].size \in Nat \ {0} /\ c + chunk[c].size - 1 \in Page
    BY <1>1, ChunkFacts, SizeAssumption DEF IInv, Page
  <2>2. ASSUME NEW c \in Page, Exists(c), NEW p \in Pages(c) PROVE p \in mapped
    <3>1. p \in Page /\ Covers(c, p)
      BY <2>1, <2>2, SizeAssumption DEF Pages, Page, Covers
    <3> QED BY <1>1, <3>1 DEF IInv, MappedIsCovered
  <2>3. ASSUME NEW p \in mapped PROVE \E c \in Page : Exists(c) /\ p \in Pages(c)
    <3>1. p \in Page BY <1>1 DEF IInv, TypeOK
    <3>2. PICK c \in Page : Covers(c, p) BY <1>1, <3>1 DEF IInv, MappedIsCovered
    <3>3. p \in Int BY <3>1, SizeAssumption DEF Page
    <3> QED BY <2>1, <3>2, <3>3 DEF Covers, Pages
  <2> QED BY <2>2, <2>3 DEF MappedIsTiled
<1> QED BY <1>1, Inductive, PTL

\* RegisterRtree, SplitChunk, MergeChunk and DeregisterRtree together keep the
\* shared page map exact: a chunk is found by its ends, a slab in use by all of
\* its pages, and by no other page is anything found.
THEOREM PageMapAlwaysExact == Spec => []PageMapExact
<1>1. IInv => PageMapExact BY DEF IInv
<1> QED BY <1>1, Inductive, PTL

\* A free chunk is always in the bin that erase() and first fit look in.
THEOREM BinsAlwaysExact == Spec => []BinsExact
<1>1. ASSUME IInv PROVE BinsExact
  <2> SUFFICES ASSUME NEW a \in Arena, NEW i \in Pind, NEW c \in Page,
                      Exists(c)
               PROVE  Belongs(c, a, i) <=> BelongsFit(c, a, i)
    BY <1>1 DEF BinsExact, IInv, BinsMatch, Exists
  <2>1. chunk[c].size \in Nat \ {0} BY <1>1, ChunkFacts DEF IInv
  <2>2. /\ get_fit_pind(chunk[c].size) \in Pind
        /\ ClassSize[get_fit_pind(chunk[c].size)] <= chunk[c].size
        /\ \A j \in Pind : ClassSize[j] <= chunk[c].size => j <= get_fit_pind(chunk[c].size)
    BY <2>1, FitPind
  <2>3. i = get_fit_pind(chunk[c].size)
        <=> /\ ClassSize[i] <= chunk[c].size
            /\ \A j \in Pind : i < j => chunk[c].size < ClassSize[j]
    <3>1. Pind \subseteq Int /\ \A j \in Pind : ClassSize[j] \in Nat
      BY SizeAssumption DEF Pind
    <3>2. get_fit_pind(chunk[c].size) \in Int BY <2>2, <3>1
    <3> QED BY <2>1, <2>2, <3>1, <3>2
  <2> QED BY <2>3 DEF Belongs, BelongsFit
<1> QED BY <1>1, Inductive, PTL

\* What an arena does under its own mutex_, merging with what LookUp finds next
\* door included, changes no chunk of another arena and no entry that leads to
\* one.
THEOREM ArenasAlwaysApart == Spec => ArenasApart
<1> DEFINE Apart == \E a \in Arena : \A c \in Page :
             \/ /\ Exists(c) => chunk[c].arena = a
                /\ Exists(c)' => chunk'[c].arena = a
             \/ /\ chunk'[c] = chunk[c]
                /\ \A p \in Probe : rtree'[p] = c <=> rtree[p] = c
<1>1. ASSUME IInv, Next PROVE Apart
  <2>1. IInv' BY <1>1, NextIInv
  <2>2. PICK a \in Arena :
          OthersWait(a) /\ \A c \in Page : WorksOn(a, c) \/ chunk'[c] = chunk[c]
    BY <1>1, StepTouches DEF TouchesFreeOnly, OthersKept
  <2>3. ASSUME NEW c \in Page, ~WorksOn(a, c)
        PROVE  chunk'[c] = chunk[c] /\ \A p \in Probe : rtree'[p] = c <=> rtree[p] = c
    BY <1>1, <2>1, <2>2, <2>3, FoundAlike
  <2> QED BY <2>3 DEF WorksOn
<1>2. IInv /\ [Next]_vars => [Apart]_vars BY <1>1
<1>3. [][Apart]_vars <=> ArenasApart BY DEF ArenasApart
<1> QED BY <1>2, <1>3, Inductive, PTL DEF Spec

\* Whatever is cut, joined, collected or mapped around it, a chunk in use stays
\* as AllocChunk returned it until DallocChunk is called for it.
THEOREM LiveChunksAlwaysStable == Spec => LiveChunkStable
<1> DEFINE Stable == \A c \in Page : chunk[c].state = "active" =>
             \/ chunk'[c] = chunk[c]
             \/ chunk'[c].state = "dirty"
                /\ \E a \in Arena : DallocToBin(a, c) \/ DallocHuge(a, c)
<1>1. ASSUME IInv, Next PROVE Stable
  BY <1>1, StepTouches DEF TouchesFreeOnly, OthersKept
<1>2. IInv /\ [Next]_vars => [Stable]_vars BY <1>1
<1>3. [][Stable]_vars <=> LiveChunkStable BY DEF LiveChunkStable
<1> QED BY <1>2, <1>3, Inductive, PTL DEF Spec

\* AllocChunk and DallocChunk of all arenas implement a heap of pages: with the
\* splits, merges, collections and mappings behind them, what is handed out
\* overlaps nothing in use and is nobody else's until it is freed.
THEOREM PageHeapImplemented == Spec => ImplementsPageHeap
<1>1. Init => PageHeap!Init BY DEF Init, NoChunk, Extents, PageHeap!Init
<1>2. IInv /\ IInv' /\ [Next]_vars => [PageHeap!Next]_Extents
  <2>1. UNCHANGED vars => UNCHANGED Extents BY DEF vars, Extents
  <2> QED BY <2>1, StepRefines
<1> QED BY <1>1, <1>2, Inductive, PTL DEF Spec, ImplementsPageHeap, PageHeap!Spec

-----------------------------------------------------------------------------
(* What a step leaves free: clean chunks never touch, dirty ones are recent *)

\* d is what is left of the free chunk c, whose front was handed out.
Remains(c, d) ==
  /\ chunk'[c].state = "active"
  /\ d = c + chunk'[c].size
  /\ d + chunk'[d].size = c + chunk[c].size
  /\ chunk'[d].state = chunk[c].state
  /\ chunk'[d].arena = chunk[c].arena
  /\ chunk'[d].epoch = chunk[c].epoch

\* d is dirty since this step of a call of a.
NowDirty(a, d) ==
  chunk'[d].state = "dirty" /\ chunk'[d].arena = a /\ chunk'[d].epoch = epoch[a]

\* Every chunk that is free after a step was so before, has become dirty, or is
\* what is left of a chunk that was free and in a bin, or just mapped.
LeavesFree(a) ==
  \A d \in Page : chunk'[d].state \in {"dirty", "clean"} =>
    \/ chunk'[d] = chunk[d]
    \/ NowDirty(a, d)
    \/ \E c \in Page : Remains(c, d) /\ (chunk[c].state = "clean" => ~Detached(c))

LEMMA HandOutLeaves ==
  ASSUME IInv, NEW a \in Arena, NEW c \in Page, NEW rt, NEW n \in Sizes,
         NEW slab \in BOOLEAN,
         chunk[c].state \in {"dirty", "clean"}, chunk[c].state = "clean" => ~Detached(c),
         n <= chunk[c].size, HandOut(a, c, rt, n, slab)
  PROVE  LeavesFree(a)
<1> DEFINE old == chunk[c]
           tail == c + n
<1>1. n \in Nat \ {0} /\ Exists(c) /\ TypeOK /\ Layout
  BY SizesArePositive DEF Exists, IInv
<1>2. CutTo(c, n, slab) BY <1>1, HandOutCuts
<1>3. n < old.size => tail \in Page /\ tail # c
  <2>1. n < old.size => tail \in Page /\ ~Exists(tail) BY <1>1, <1>2, CutLayout
  <2> QED BY <1>1, <2>1
<1>4. n = old.size \/ n < old.size BY <1>1, ChunkFacts
<1>5. old.size \in Nat /\ c \in Int BY <1>1, ChunkFacts, SizeAssumption DEF Page
<1>6. n < old.size => chunk'[tail].epoch = old.epoch
  <2> SUFFICES ASSUME n < old.size PROVE chunk'[tail].epoch = old.epoch OBVIOUS
  <2>1. PICK rest : rest = [old EXCEPT !.size = old.size - n, !.slab = FALSE] OBVIOUS
  <2>2. chunk'[tail] = rest BY <1>3, <2>1 DEF HandOut
  <2>3. old \in Chunk BY <1>1, ChunkFacts
  <2> QED BY <2>1, <2>2, <2>3 DEF Chunk
<1>7. n < old.size => Remains(c, tail)
  BY <1>1, <1>2, <1>5, <1>6 DEF Remains, CutTo, Becomes
<1>8. \A d \in Page : d = c \/ (n < old.size /\ d = tail) \/ chunk'[d] = chunk[d]
  BY <1>2, <1>4 DEF CutTo, OthersKept
<1>9. chunk'[c].state = "active" BY <1>2 DEF CutTo, Becomes
<1> QED BY <1>7, <1>8, <1>9 DEF LeavesFree

LEMMA AllocLeaves ==
  ASSUME IInv, NEW a \in Arena, NEW n \in Sizes, NEW slab \in BOOLEAN,
         AllocDirty(a, n, slab) \/ AllocClean(a, n, slab)
  PROVE  LeavesFree(a)
<1>1. TypeOK /\ Layout /\ dirty \in BinsAreSets /\ clean \in BinsAreSets
      /\ Exact(dirty, "dirty") /\ Exact(clean, "clean")
  BY BinsExactly DEF IInv, TypeOK, BinsAreSets
<1>2. n <= StandardChunk BY DEF AllocDirty, AllocClean
<1>3. CASE AllocDirty(a, n, slab)
  <2>1. PICK c \in FindSuitableChunk(dirty[a], sz_to_pind(n)) : HandOut(a, c, rtree, n, slab)
    BY <1>3 DEF AllocDirty
  <2>2. c \in Page /\ chunk[c].state = "dirty" /\ n <= chunk[c].size
    BY <1>1, <1>2, FirstFit
  <2> QED BY <2>1, <2>2, HandOutLeaves
<1>4. CASE AllocClean(a, n, slab)
  <2>1. PICK c \in FindSuitableChunk(clean[a], sz_to_pind(n)) : HandOut(a, c, rtree, n, slab)
    BY <1>4 DEF AllocClean
  <2>2. c \in Page /\ chunk[c].state = "clean" /\ n <= chunk[c].size /\ ~Detached(c)
    BY <1>1, <1>2, FirstFit
  <2> QED BY <2>1, <2>2, HandOutLeaves
<1> QED BY <1>3, <1>4

LEMMA MapNewLeaves ==
  ASSUME IInv, NEW a \in Arena, NEW n \in Sizes, NEW slab \in BOOLEAN, MapNew(a, n, slab)
  PROVE  LeavesFree(a)
<1>1. PICK base \in Page : \E whole :
        chunk' = [chunk EXCEPT ![base] =
                    [state |-> "dirty", size |-> whole, arena |-> a,
                     epoch |-> epoch[a], slab |-> FALSE]]
  BY DEF MapNew
<1>2. chunk \in [Page -> Chunk] BY DEF IInv, TypeOK
<1>3. NowDirty(a, base) BY <1>1, <1>2 DEF NowDirty
<1>4. \A d \in Page : d # base => chunk'[d] = chunk[d] BY <1>1, <1>2
<1> QED BY <1>3, <1>4 DEF LeavesFree

LEMMA RegisterNewLeaves ==
  ASSUME IInv, NEW a \in Arena, RegisterNew(a)
  PROVE  LeavesFree(a) /\ chunk'[op[a].base].state = "active"
<1> DEFINE c == op[a].base
           n == op[a].need
           rt == Insert(rtree, Ends(c, chunk[c].size), c)
<1>1. /\ c \in Page /\ chunk[c].state = "dirty" /\ n \in Sizes /\ n <= chunk[c].size
      /\ op[a].slab \in BOOLEAN
  <2>1. CallOwns(a) /\ At(a, "register") BY DEF IInv, CallsOwnChunk, RegisterNew
  <2>2. op[a].step = "register" BY <2>1 DEF At
  <2>3. op[a] \in Call BY DEF IInv, TypeOK, Call
  <2> QED BY <2>1, <2>2, <2>3 DEF CallOwns, HoldSteps, Call
<1>2. HandOut(a, c, rt, n, op[a].slab) BY DEF RegisterNew
<1>3. Exists(c) /\ n \in Nat \ {0} /\ TypeOK /\ Layout
  BY <1>1, SizesArePositive DEF Exists, IInv
<1> HIDE DEF c, n, rt
<1>4. LeavesFree(a) BY <1>1, <1>2, HandOutLeaves
<1>5. CutTo(c, n, op[a].slab) BY <1>1, <1>2, <1>3, HandOutCuts
<1>6. chunk'[c].state = "active" BY <1>5 DEF CutTo, Becomes
<1> QED BY <1>4, <1>6 DEF c

LEMMA DallocLeaves ==
  ASSUME IInv, NEW a \in Arena, NEW c \in Page, DallocToBin(a, c) \/ DallocHuge(a, c)
  PROVE  LeavesFree(a)
<1>1. chunk' = [chunk EXCEPT ![c].state = "dirty", ![c].epoch = epoch[a]]
      /\ chunk[c].arena = a
  BY DEF DallocToBin, DallocHuge
<1>2. chunk \in [Page -> Chunk] BY DEF IInv, TypeOK
<1>3. PICK new : new = [chunk[c] EXCEPT !.state = "dirty", !.epoch = epoch[a]] OBVIOUS
<1>4. new.state = "dirty" /\ new.arena = a /\ new.epoch = epoch[a]
  BY <1>1, <1>2, <1>3 DEF Chunk
<1>5. chunk' = [chunk EXCEPT ![c] = new] BY <1>1, <1>3
<1>6. NowDirty(a, c) BY <1>2, <1>4, <1>5 DEF NowDirty
<1>7. \A d \in Page : d # c => chunk'[d] = chunk[d] BY <1>2, <1>5
<1> QED BY <1>6, <1>7 DEF LeavesFree

LEMMA UnmapLeaves ==
  ASSUME IInv, NEW a \in Arena, op[a].step \in HoldSteps, Unmap(a)
  PROVE  LeavesFree(a) /\ chunk'[op[a].base].state = "none"
<1>1. op[a].base \in Page BY DEF IInv, CallsOwnChunk, CallOwns
<1>2. chunk' = [chunk EXCEPT ![op[a].base] = NoChunk] /\ chunk \in [Page -> Chunk]
  BY DEF Unmap, IInv, TypeOK
<1>3. chunk'[op[a].base].state = "none" BY <1>1, <1>2 DEF NoChunk
<1> QED BY <1>2, <1>3 DEF LeavesFree

\* All steps but one of the collector and the last of it leave chunks free in
\* no other way, and no call lets go of a clean chunk that it then keeps.
LetsGoNoClean ==
  \A d \in Page : chunk'[d].state = "clean" /\ Detached(d) => Detached(d)'

StillHeld(a) == \A d \in Page : chunk'[d].state = "clean" /\ Holds(a, d) => Holds(a, d)'

LEMMA StillDetached ==
  ASSUME NEW a \in Arena, OthersWait(a), StillHeld(a)
  PROVE  LetsGoNoClean
<1> SUFFICES ASSUME NEW d \in Page, chunk'[d].state = "clean",
                    NEW b \in Arena, Holds(b, d)
             PROVE  Holds(b, d)'
  BY DEF LetsGoNoClean, Detached
<1>1. CASE b = a BY <1>1 DEF StillHeld
<1>2. CASE b # a BY <1>2 DEF OthersWait, Holds
<1> QED BY <1>1, <1>2

\* A step of AllocChunk, DallocChunk, the OS or the destructor.
LEMMA StepLeaves ==
  ASSUME IInv, NEW a \in Arena,
         \/ AllocChunk(a) \/ DallocChunk(a) \/ BeginDestroy(a)
         \/ RegisterNew(a) \/ UnmapHuge(a)
         \/ DestroyNext(a) \/ DestroyUnmap(a) \/ EndDestroy(a)
  PROVE  LeavesFree(a) /\ OthersWait(a) /\ StillHeld(a) /\ epoch' = epoch
<1>1. TypeOK /\ op \in [Arena -> Call] BY DEF IInv, TypeOK, Call
<1>2. op[a].step \notin HoldSteps => StillHeld(a) BY DEF StillHeld, Holds, HoldSteps
<1>3. chunk' = chunk => LeavesFree(a) BY DEF LeavesFree
<1>4. CASE AllocChunk(a)
  <2>1. { ClassSize[i] : i \in Pind } \subseteq Sizes /\ HugeSize \subseteq Sizes
    BY DEF Sizes
  <2>2. PICK n \in Sizes, slab \in BOOLEAN :
          AllocDirty(a, n, slab) \/ AllocClean(a, n, slab) \/ MapNew(a, n, slab)
    BY <1>4, <2>1 DEF AllocChunk
  <2>3. op[a].step = "idle" /\ epoch' = epoch
    BY <2>2 DEF AllocDirty, AllocClean, MapNew, At
  <2> QED BY <1>2, <2>2, <2>3, AllocLeaves, MapNewLeaves, AllocTouches, MapNewTouches DEF HoldSteps
<1>5. CASE DallocChunk(a)
  <2>1. PICK c \in Page : DallocToBin(a, c) \/ DallocHuge(a, c) BY <1>5 DEF DallocChunk
  <2>2. op[a].step = "idle" /\ epoch' = epoch BY <2>1 DEF DallocToBin, DallocHuge, At
  <2>3. OthersWait(a)
    <3>1. CASE DallocToBin(a, c) BY <1>1, <3>1, EventEffect DEF DallocToBin
    <3>2. CASE DallocHuge(a, c)
      <4>1. op[a].step \notin HoldSteps BY <3>2 DEF DallocHuge, At, HoldSteps
      <4> QED BY <1>1, <3>2, <4>1, HoldEffect DEF DallocHuge
    <3> QED BY <2>1, <3>1, <3>2
  <2> QED BY <1>2, <2>1, <2>2, <2>3, DallocLeaves DEF HoldSteps
<1>6. CASE BeginDestroy(a)
  <2>1. op[a].step = "idle" /\ epoch' = epoch /\ chunk' = chunk /\ "destroy" \in Steps
    BY <1>6 DEF BeginDestroy, At, Steps
  <2> QED BY <1>1, <1>2, <1>3, <1>6, <2>1, GotoEffect DEF BeginDestroy, HoldSteps
<1>7. CASE RegisterNew(a)
  <2>1. LeavesFree(a) /\ chunk'[op[a].base].state = "active" /\ OthersWait(a)
    BY <1>7, RegisterNewLeaves, RegisterNewTouches
  <2>2. StillHeld(a) BY <2>1 DEF StillHeld, Holds
  <2> QED BY <1>7, <2>1, <2>2 DEF RegisterNew
<1>8. CASE UnmapHuge(a)
  <2>1. op[a].step \in HoldSteps /\ Unmap(a) /\ Event(a) BY <1>8 DEF UnmapHuge, At, HoldSteps
  <2>2. LeavesFree(a) /\ chunk'[op[a].base].state = "none" BY <2>1, UnmapLeaves
  <2>3. StillHeld(a) BY <2>2 DEF StillHeld, Holds
  <2> QED BY <1>1, <2>1, <2>2, <2>3, EventEffect DEF Unmap
<1>9. CASE DestroyNext(a)
  <2>1. op[a].step = "destroy" /\ chunk' = chunk /\ epoch' = epoch
    BY <1>9 DEF DestroyNext, At
  <2>2. PICK c : op' = [op EXCEPT ![a] = [Idle EXCEPT !.step = "destroyUnmap", !.base = c]]
    BY <1>9 DEF DestroyNext
  <2>3. OthersWait(a) BY <1>1, <2>2 DEF OthersWait
  <2> QED BY <1>2, <1>3, <2>1, <2>3 DEF HoldSteps
<1>10. CASE DestroyUnmap(a)
  <2>1. op[a].step \in HoldSteps /\ Unmap(a) /\ Goto(a, "destroy") /\ "destroy" \in Steps
    BY <1>10 DEF DestroyUnmap, At, HoldSteps, Steps
  <2>2. LeavesFree(a) /\ chunk'[op[a].base].state = "none" BY <2>1, UnmapLeaves
  <2>3. StillHeld(a) BY <2>2 DEF StillHeld, Holds
  <2> QED BY <1>1, <2>1, <2>2, <2>3, GotoEffect DEF Unmap
<1>11. CASE EndDestroy(a)
  <2>1. op[a].step = "destroy" /\ epoch' = epoch /\ chunk' = chunk /\ "gone" \in Steps
    BY <1>11 DEF EndDestroy, At, Steps
  <2> QED BY <1>1, <1>2, <1>3, <1>11, <2>1, GotoEffect DEF EndDestroy, HoldSteps
<1> QED BY <1>4, <1>5, <1>6, <1>7, <1>8, <1>9, <1>10, <1>11

\* What is cut from a clean chunk is next to what was next to that, or to what
\* was handed out; nothing else becomes clean.
LEMMA LeavesCoalesced ==
  ASSUME IInv, IInv', CleanCoalesced, NEW a \in Arena, LeavesFree(a), LetsGoNoClean
  PROVE  CleanCoalesced'
<1> SUFFICES ASSUME NEW x \in Page, chunk'[x].state = "clean", ~Detached(x)',
                    NEW y \in Page, chunk'[y].state = "clean", ~Detached(y)',
                    chunk'[x].arena = chunk'[y].arena, y = x + chunk'[x].size
             PROVE  FALSE
  BY DEF CleanCoalesced
<1> DEFINE Kept(d) == chunk'[d] = chunk[d] /\ ~Detached(d)
           Cut(c, d) == /\ Remains(c, d) /\ chunk[c].state = "clean" /\ ~Detached(c)
                        /\ chunk'[d].arena = chunk[c].arena
<1>1. \A d \in {x, y} : Kept(d) \/ \E c \in Page : Cut(c, d)
  BY DEF LeavesFree, LetsGoNoClean, NowDirty, Remains
<1>2. \A d \in Page : /\ d \in Int
                      /\ Exists(d) => chunk[d].size \in Nat \ {0}
                      /\ Exists(d)' => chunk'[d].size \in Nat \ {0}
  BY SizeAssumption DEF IInv, Layout, ChunksInRange, Page
<1>3. Exists(x)' /\ Exists(y)' BY DEF Exists
<1>4. CASE Kept(x) /\ Kept(y) BY <1>4 DEF CleanCoalesced
<1>5. CASE Kept(x) /\ \E c \in Page : Cut(c, y)
  <2>1. PICK c \in Page : Cut(c, y) BY <1>5
  <2>2. Exists(c)' /\ c # x BY <2>1 DEF Remains, Exists
  <2>3. x < c => x + chunk'[x].size <= c BY <1>3, <2>2 DEF IInv, Layout, ChunksInOrder
  <2>4. c < x => c + chunk'[c].size <= x BY <1>3, <2>2 DEF IInv, Layout, ChunksInOrder
  <2>5. y = c + chunk'[c].size BY <2>1 DEF Remains
  <2> QED BY <1>2, <1>3, <2>2, <2>3, <2>4, <2>5
<1>6. CASE (\E c \in Page : Cut(c, x)) /\ Kept(y)
  <2>1. PICK c \in Page : Cut(c, x) BY <1>6
  <2>2. y = c + chunk[c].size BY <2>1 DEF Remains
  <2> QED BY <1>6, <2>1, <2>2 DEF CleanCoalesced
<1>7. CASE (\E c \in Page : Cut(c, x)) /\ \E c \in Page : Cut(c, y)
  <2>1. PICK c \in Page, d \in Page : Cut(c, x) /\ Cut(d, y) BY <1>7
  <2>2. /\ Exists(d)' /\ chunk'[d].state = "active" /\ d # x /\ y = d + chunk'[d].size
    BY <2>1 DEF Remains, Exists
  <2>3. x < d => x + chunk'[x].size <= d BY <1>3, <2>2 DEF IInv, Layout, ChunksInOrder
  <2>4. d < x => d + chunk'[d].size <= x BY <1>3, <2>2 DEF IInv, Layout, ChunksInOrder
  <2> QED BY <1>2, <1>3, <2>2, <2>3, <2>4
<1> QED BY <1>1, <1>4, <1>5, <1>6, <1>7

\* PushCleanChunk joins the chunk with what is clean before and after it: the
\* map is exact, so what LookUp does not find there is not there.
LEMMA ReleaseCoalesced ==
  ASSUME IInv, CleanCoalesced, NEW a \in Arena, ReleaseStale(a)
  PROVE  CleanCoalesced'
<1>1. PICK c \in Stale(a) :
        PushCleanChunk(a, c, CleanAt(a, c - 1), CleanAt(a, c + chunk[c].size))
  BY DEF ReleaseStale
<1>2. PICK prev, next :
        prev = CleanAt(a, c - 1) /\ next = CleanAt(a, c + chunk[c].size)
  OBVIOUS
<1>3. Free(a, c, "dirty")
  <2>1. PICK i \in Pind : c \in dirty[a][i] BY <1>1 DEF Stale
  <2>2. c \in Page BY <2>1 DEF IInv, TypeOK
  <2> QED BY <2>1, <2>2 DEF Free, IInv, BinsMatch, BelongsFit
<1>4. Neighbours(a, c, prev, next) BY <1>2, <1>3, CleanBefore, CleanAfter DEF Neighbours
<1>5. PushCleanChunk(a, c, prev, next) BY <1>1, <1>2
<1>6. PICK lo, t, J :
        lo = Head(c, prev) /\ t = Total(c, prev, next) /\ J = Joined(c, prev, next)
  OBVIOUS
<1>7. /\ lo \in J /\ lo \in Page /\ lo \in Int /\ t \in Nat \ {0}
      /\ \A d \in J : d \in Page /\ d \in Int /\ chunk[d].size \in Nat \ {0}
  BY <1>4, <1>6, JoinedExtent
<1>8. /\ OthersKept(J)
      /\ chunk'[lo].state = "clean" /\ chunk'[lo].size = t /\ chunk'[lo].arena = a
      /\ \A d \in J : d # lo => ~Exists(d)'
  BY <1>4, <1>5, <1>6, JoinedChunks
<1>9. \A d \in Page : Detached(d)' <=> Detached(d) BY DEF ReleaseStale, Detached, Holds
<1>10. \A d \in Page : chunk'[d].state = "clean" /\ d # lo => chunk'[d] = chunk[d]
  BY <1>8 DEF OthersKept, Exists
<1>11. c \in Page /\ c \in Int /\ chunk[c].size \in Nat \ {0} /\ Exists(c)
       /\ c + chunk[c].size - 1 \in Page
  BY <1>3, ChunkFacts, SizeAssumption DEF IInv, Free, Exists, Page
<1>12. \A d \in Page : chunk[d].state = "clean" /\ ~Detached(d) =>
         \A p \in Probe : p \in Ends(d, chunk[d].size) => rtree[p] = d
  BY DEF IInv, PageMapExact, FoundBy, Exists
<1>13. \A d \in Page : d # NoPage BY SizeAssumption DEF Page, NoPage
<1> SUFFICES ASSUME NEW x \in Page, chunk'[x].state = "clean", ~Detached(x)',
                    NEW y \in Page, chunk'[y].state = "clean", ~Detached(y)',
                    chunk'[x].arena = chunk'[y].arena, y = x + chunk'[x].size
             PROVE  FALSE
  BY DEF CleanCoalesced
<1>14. CASE x # lo /\ y # lo BY <1>9, <1>10, <1>14 DEF CleanCoalesced
<1>15. CASE x = lo /\ y # lo
  <2>1. chunk[y].state = "clean" /\ chunk[y].arena = a /\ ~Detached(y) /\ y = lo + t
    BY <1>8, <1>9, <1>10, <1>15
  <2>2. CASE next # NoPage
    <3>1. Free(a, next, "clean") /\ next = c + chunk[c].size BY <2>2, <1>4 DEF Neighbours
    <3>2. y = next + chunk[next].size
      <4>1. next \in J BY <1>6, <2>2 DEF Joined
      <4>2. CASE prev = NoPage
        BY <1>6, <1>7, <1>11, <2>1, <2>2, <3>1, <4>1, <4>2 DEF Head, Total, SizeOf
      <4>3. CASE prev # NoPage
        <5>1. prev \in J /\ prev + chunk[prev].size = c
          BY <1>4, <1>6, <4>3 DEF Joined, Neighbours
        <5> QED BY <1>6, <1>7, <1>11, <2>1, <2>2, <3>1, <4>1, <4>3, <5>1 DEF Head, Total, SizeOf
      <4> QED BY <4>2, <4>3
    <3> QED BY <2>1, <3>1, <3>2 DEF Free, CleanCoalesced
  <2>3. CASE next = NoPage
    <3>1. y = c + chunk[c].size
      <4>1. CASE prev = NoPage
        BY <1>6, <1>7, <1>11, <2>1, <2>3, <4>1 DEF Head, Total, SizeOf
      <4>2. CASE prev # NoPage
        <5>1. prev \in J /\ prev + chunk[prev].size = c
          BY <1>4, <1>6, <4>2 DEF Joined, Neighbours
        <5> QED BY <1>6, <1>7, <1>11, <2>1, <2>3, <4>2, <5>1 DEF Head, Total, SizeOf
      <4> QED BY <4>1, <4>2
    <3>2. y \in Probe /\ y \in Ends(y, chunk[y].size) BY SizeAssumption DEF Page, Probe, Ends
    <3>3. rtree[y] = y BY <1>12, <2>1, <3>2
    <3>4. CleanAt(a, y) = y BY <1>13, <2>1, <3>3 DEF CleanAt
    <3> QED BY <1>2, <1>13, <2>3, <3>1, <3>4
  <2> QED BY <2>2, <2>3
<1>16. CASE x # lo /\ y = lo
  <2>1. /\ chunk[x].state = "clean" /\ chunk[x].arena = a /\ ~Detached(x)
        /\ lo = x + chunk[x].size
    BY <1>8, <1>9, <1>10, <1>16
  <2>2. CASE prev # NoPage
    <3>1. Free(a, prev, "clean") /\ lo = prev BY <2>2, <1>4, <1>6 DEF Neighbours, Head
    <3> QED BY <2>1, <3>1 DEF Free, CleanCoalesced
  <2>3. CASE prev = NoPage
    <3>1. lo = c BY <1>6, <2>3 DEF Head
    <3>2. Exists(x) /\ x \in Int /\ chunk[x].size \in Nat \ {0}
      BY <2>1, ChunkFacts, SizeAssumption DEF IInv, Exists, Page
    <3>3. c - 1 \in Probe /\ c - 1 \in Ends(x, chunk[x].size)
      BY <1>11, <2>1, <3>1, <3>2, SizeAssumption DEF Page, Probe, Ends
    <3>4. rtree[c - 1] = x BY <1>12, <2>1, <3>3
    <3>5. CleanAt(a, c - 1) = x BY <1>13, <2>1, <3>4 DEF CleanAt
    <3> QED BY <1>2, <1>13, <2>3, <3>5
  <2> QED BY <2>2, <2>3
<1>17. CASE x = lo /\ y = lo BY <1>7, <1>8, <1>17
<1> QED BY <1>14, <1>15, <1>16, <1>17

-----------------------------------------------------------------------------
(* The ages of dirty chunks *)

\* The epochs a dirty chunk of arena a may have while e is the arena's epoch_.
Recent(e) == {e, e - 1, EpochLimit - 1}

\* DirtyIsRecent, also of the chunks that a call has to itself: what is cut from
\* new memory goes to a bin with the epoch it was mapped in.
EveryDirtyIsRecent ==
  \A c \in Page : chunk[c].state = "dirty" => chunk[c].epoch \in Recent(epoch[chunk[c].arena])

LEMMA LeavesRecent ==
  ASSUME EveryDirtyIsRecent, NEW a \in Arena, LeavesFree(a), epoch' = epoch
  PROVE  EveryDirtyIsRecent'
<1> SUFFICES ASSUME NEW d \in Page, chunk'[d].state = "dirty"
             PROVE  chunk'[d].epoch \in Recent(epoch[chunk'[d].arena])
  BY DEF EveryDirtyIsRecent, Recent
<1>1. CASE chunk'[d] = chunk[d] BY <1>1 DEF EveryDirtyIsRecent
<1>2. CASE NowDirty(a, d) BY <1>2 DEF NowDirty, Recent
<1>3. CASE \E c \in Page : Remains(c, d) BY <1>3 DEF Remains, EveryDirtyIsRecent
<1> QED BY <1>1, <1>2, <1>3 DEF LeavesFree

LEMMA ReleaseRecent ==
  ASSUME IInv, EveryDirtyIsRecent, NEW a \in Arena, ReleaseStale(a)
  PROVE  EveryDirtyIsRecent'
<1>1. PICK c \in Stale(a) :
        PushCleanChunk(a, c, CleanAt(a, c - 1), CleanAt(a, c + chunk[c].size))
  BY DEF ReleaseStale
<1>2. PICK prev, next :
        prev = CleanAt(a, c - 1) /\ next = CleanAt(a, c + chunk[c].size)
  OBVIOUS
<1>3. Free(a, c, "dirty")
  <2>1. PICK i \in Pind : c \in dirty[a][i] BY <1>1 DEF Stale
  <2>2. c \in Page BY <2>1 DEF IInv, TypeOK
  <2> QED BY <2>1, <2>2 DEF Free, IInv, BinsMatch, BelongsFit
<1>4. Neighbours(a, c, prev, next) BY <1>2, <1>3, CleanBefore, CleanAfter DEF Neighbours
<1>5. PICK lo, t, J :
        lo = Head(c, prev) /\ t = Total(c, prev, next) /\ J = Joined(c, prev, next)
  OBVIOUS
<1>6. /\ OthersKept(J) /\ chunk'[lo].state = "clean"
      /\ \A d \in J : d # lo => ~Exists(d)'
  BY <1>1, <1>2, <1>4, <1>5, JoinedChunks
<1>7. \A d \in Page : chunk'[d].state = "dirty" => chunk'[d] = chunk[d]
  BY <1>6 DEF OthersKept, Exists
<1>8. epoch' = epoch BY DEF ReleaseStale
<1> QED BY <1>7, <1>8 DEF EveryDirtyIsRecent, Recent

\* The loop ends when no chunk is older than the epoch, so none is two epochs
\* old in the next.
LEMMA EndRecent ==
  ASSUME IInv, EveryDirtyIsRecent, NEW a \in Arena, EndGC(a)
  PROVE  EveryDirtyIsRecent'
<1> DEFINE next == IF epoch[a] + 1 = EpochLimit THEN 0 ELSE epoch[a] + 1
<1>1. /\ op[a].step = "gc" /\ Stale(a) = {} /\ chunk' = chunk
      /\ epoch' = [epoch EXCEPT ![a] = next]
  BY DEF EndGC, At
<1>2. epoch \in [Arena -> 0..(EpochLimit - 1)] /\ chunk \in [Page -> Chunk] BY DEF IInv, TypeOK
<1>3. epoch'[a] = next /\ \A b \in Arena : b # a => epoch'[b] = epoch[b] BY <1>1, <1>2
<1> SUFFICES ASSUME NEW d \in Page, chunk[d].state = "dirty"
             PROVE  chunk[d].epoch \in Recent(epoch'[chunk[d].arena])
  BY <1>1 DEF EveryDirtyIsRecent, Recent
<1>4. chunk[d].epoch \in Recent(epoch[chunk[d].arena]) BY DEF EveryDirtyIsRecent
<1>5. chunk[d].arena \in Arena /\ Exists(d) /\ chunk[d].size \in Nat \ {0}
  BY ChunkFacts DEF IInv, Exists
<1>6. CASE chunk[d].arena # a BY <1>3, <1>4, <1>5, <1>6
<1>7. CASE chunk[d].arena = a
  <2>1. ~Detached(d)
    <3>1. \A b \in Arena : Holds(b, d) => b = a BY <1>7, HeldOnce DEF IInv
    <3>2. ~Holds(a, d) BY <1>1 DEF Holds
    <3> QED BY <3>1, <3>2 DEF Detached
  <2>2. get_fit_pind(chunk[d].size) \in Pind BY <1>5, FitPind
  <2>3. d \in dirty[a][get_fit_pind(chunk[d].size)]
    BY <1>7, <2>1, <2>2 DEF IInv, BinsMatch, BelongsFit
  <2>4. ~(chunk[d].epoch < epoch[a]) BY <1>1, <2>2, <2>3 DEF Stale
  <2>5. chunk[d].epoch \in 0..(EpochLimit - 1) BY <1>2 DEF Chunk
  <2>6. chunk[d].epoch \in {epoch[a], EpochLimit - 1}
    BY <1>2, <1>4, <1>7, <2>4, <2>5, CounterAssumption DEF Recent
  <2>7. epoch[a] + 1 = EpochLimit => epoch[a] = EpochLimit - 1
    BY <1>2, CounterAssumption
  <2> QED BY <1>2, <1>3, <1>7, <2>6, <2>7, CounterAssumption DEF Recent
<1> QED BY <1>6, <1>7

\* What the collector is for, with the invariant it needs.
CollectedIInv == IInv /\ CleanCoalesced /\ EveryDirtyIsRecent

LEMMA InitCollected == Init => CollectedIInv
<1> SUFFICES ASSUME Init PROVE CollectedIInv OBVIOUS
<1>1. \A c \in Page : chunk[c].state = "none" BY DEF Init, NoChunk
<1> QED BY <1>1, InitIInv DEF CollectedIInv, CleanCoalesced, EveryDirtyIsRecent

LEMMA NextCollected ==
  ASSUME CollectedIInv, [Next]_vars
  PROVE  CollectedIInv'
<1>1. IInv /\ IInv' /\ CleanCoalesced /\ EveryDirtyIsRecent BY NextIInv DEF CollectedIInv
<1>2. ASSUME NEW a \in Arena,
             \/ AllocChunk(a) \/ DallocChunk(a) \/ BeginDestroy(a)
             \/ RegisterNew(a) \/ UnmapHuge(a)
             \/ DestroyNext(a) \/ DestroyUnmap(a) \/ EndDestroy(a)
      PROVE  CleanCoalesced' /\ EveryDirtyIsRecent'
  <2>1. LeavesFree(a) /\ OthersWait(a) /\ StillHeld(a) /\ epoch' = epoch
    BY <1>1, <1>2, StepLeaves
  <2> QED BY <1>1, <2>1, StillDetached, LeavesCoalesced, LeavesRecent
<1>3. ASSUME NEW a \in Arena, ReleaseStale(a) PROVE CleanCoalesced' /\ EveryDirtyIsRecent'
  BY <1>1, <1>3, ReleaseCoalesced, ReleaseRecent
<1>4. ASSUME NEW a \in Arena, EndGC(a) PROVE CleanCoalesced' /\ EveryDirtyIsRecent'
  <2>1. CleanCoalesced'
    <3>1. chunk' = chunk /\ LeavesFree(a) BY <1>4 DEF EndGC, LeavesFree
    <3>2. TypeOK /\ Goto(a, "idle") /\ "idle" \in Steps BY <1>1, <1>4 DEF IInv, EndGC, Steps
    <3>3. OthersWait(a) BY <3>2, GotoEffect
    <3>4. StillHeld(a) BY <1>4 DEF StillHeld, Holds, EndGC, At
    <3> QED BY <1>1, <3>1, <3>3, <3>4, StillDetached, LeavesCoalesced
  <2> QED BY <1>1, <1>4, <2>1, EndRecent
<1>5. CASE UNCHANGED vars
  <2>1. CleanCoalesced' BY <1>1, <1>5 DEF vars, CleanCoalesced, Detached, Holds
  <2>2. EveryDirtyIsRecent' BY <1>1, <1>5 DEF vars, EveryDirtyIsRecent, Recent
  <2> QED BY <1>1, <2>1, <2>2 DEF CollectedIInv
<1> QED BY <1>1, <1>2, <1>3, <1>4, <1>5 DEF Next, Continue, CollectedIInv

LEMMA Collected == Spec => []CollectedIInv
<1>1. CollectedIInv /\ [Next]_vars => CollectedIInv' BY NextCollected
<1> QED BY <1>1, InitCollected, PTL DEF Spec

\* In whatever order neighbours are freed and collected, PushCleanChunk has
\* joined every clean chunk with the clean ones of its arena next to it.
THEOREM CleanAlwaysCoalesced == Spec => []CleanCoalesced
<1>1. CollectedIInv => CleanCoalesced BY DEF CollectedIInv
<1> QED BY <1>1, Collected, PTL

\* TriggerGC leaves no chunk dirty for more than one epoch, but for those of the
\* last epoch before epoch_ wraps.
THEOREM DirtyAlwaysRecent == Spec => []DirtyIsRecent
<1>1. CollectedIInv => DirtyIsRecent
  BY DEF CollectedIInv, EveryDirtyIsRecent, Recent, DirtyIsRecent
<1> QED BY <1>1, Collected, PTL

=============================================================================
