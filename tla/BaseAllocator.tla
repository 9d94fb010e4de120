--------------------------- MODULE BaseAllocator ---------------------------
(***************************************************************************)
(* The allocator of ffmalloc's own objects (base_alloc.h): Chunks, arenas, *)
(* cache bins.  A small object is a node of a slab that is mapped and cut  *)
(* up when the free list of its class is empty, and that stays mapped; a   *)
(* large one has a mapping to itself.  The word before an object, its      *)
(* Header, tells Dalloc the size class.                                    *)
(*                                                                         *)
(* Memory is counted in words of 8 bytes, the size of a Header.  A free    *)
(* node holds the two links of its list, so that links, headers and        *)
(* objects all lie in the same memory: what is here a sequence stands for  *)
(* the list only as long as they do not overlap (MemoryApart).             *)
(*                                                                         *)
(* Each critical section of mutex_ is one step, and a call has at most     *)
(* one; what it does outside of it touches memory of its own.              *)
(***************************************************************************)
EXTENDS Integers, Sequences, FiniteSets

CONSTANTS
  ClassSize,     \* g_size_classes: the sizes of the classes, in words
  SlabSize,      \* g_slab_sizes: the slab of each small class, in words
  ObjectSize,    \* the sizes of objects asked for, in words
  CacheLine,     \* kCacheLine, in words
  PageSize,      \* kPage, in words
  NumPages,      \* bound: pages of address space
  MaxHeld        \* bound: objects in use

Ind == DOMAIN ClassSize
SmallInd == DOMAIN SlabSize
Header == 1
Links == 2

\* The smallest objects get a class with room for the links beside what aligning
\* may take: no class is above a cache line by less.
ASSUME BaseAssumption ==
  /\ CacheLine \in Nat \ {0} /\ PageSize \in Nat /\ NumPages \in Nat /\ MaxHeld \in Nat
  /\ PageSize % CacheLine = 0 /\ CacheLine < PageSize
  /\ ClassSize \in Seq(Nat \ {0})
  /\ \A i, j \in Ind : i < j => ClassSize[i] < ClassSize[j]
  /\ \A i \in Ind : CacheLine < ClassSize[i] => CacheLine + Links <= ClassSize[i]
  /\ SmallInd \subseteq Ind
  /\ \A i \in SmallInd : /\ SlabSize[i] \in Nat \ {0}
                         /\ SlabSize[i] % PageSize = 0 /\ SlabSize[i] % ClassSize[i] = 0
  /\ \A i \in Ind \ SmallInd : ClassSize[i] % PageSize = 0
  /\ \A n \in ObjectSize : n \in Nat \ {0} /\ \E i \in Ind : n + CacheLine <= ClassSize[i]

VARIABLES
  mapped,       \* the words mapped from the OS
  header,       \* the Header of an object at each address
  free_lists,   \* free_lists_: a list of nodes for each small class
  held          \* the objects in use

vars == <<mapped, header, free_lists, held>>

-----------------------------------------------------------------------------
(* Layout *)

Word == 0..(NumPages * PageSize - 1)
Words(base, size) == base..(base + size - 1)

\* The least class that holds n words (SizeClasses!LeastClass).
sz_to_ind(n) == CHOOSE i \in Ind : n <= ClassSize[i]
                                   /\ \A j \in Ind : n <= ClassSize[j] => i <= j

cacheline_ceil(n) == ((n + CacheLine - 1) \div CacheLine) * CacheLine

\* Slip: room for the header only, not for aligning.
WithHeader(n) == n + Header

\* Alloc: an object, its header and what aligning it may skip.
WithMeta(n) == n + CacheLine

\* Slip: rounded up.
PageAfter(p) == ((p + PageSize - 1) \div PageSize) * PageSize

\* Dalloc: the page an address lies in.
PageOf(p) == (p \div PageSize) * PageSize

\* OSAllocMap returns whole pages that were not mapped.
Unmapped(size) == { p \in Word : p % PageSize = 0 /\ Words(p, size) \subseteq Word \ mapped }

\* AllocSmallNodes cuts a slab into nodes; the last is in front of the list.
Nodes(base, i) ==
  LET count == SlabSize[i] \div ClassSize[i]
  IN  [k \in 1..count |-> cacheline_ceil(base + (count - k) * ClassSize[i] + Header)]

Elements(list) == { list[k] : k \in DOMAIN list }

-----------------------------------------------------------------------------
(* Alloc and Dalloc *)

Hold(p, n) == held' = held \cup {[base |-> p, size |-> n]}

\* Slip: the node stays on the list.
AllocNodeKeeps(i, n) ==
  /\ free_lists[i] # <<>>
  /\ Hold(Head(free_lists[i]), n)
  /\ UNCHANGED <<mapped, header, free_lists>>

\* A small object is the first node of its list.
AllocNode(i, n) ==
  /\ free_lists[i] # <<>>
  /\ Hold(Head(free_lists[i]), n)
  /\ free_lists' = [free_lists EXCEPT ![i] = Tail(@)]
  /\ UNCHANGED <<mapped, header>>

\* When the list is empty, it is filled with the nodes of a new slab.
AllocSlab(i, n) ==
  /\ free_lists[i] = <<>>
  /\ \E base \in Unmapped(SlabSize[i]) :
       LET nodes == Nodes(base, i)
       IN  /\ mapped' = mapped \cup Words(base, SlabSize[i])
           /\ header' = [p \in Word |-> IF p \in Elements(nodes) THEN ClassSize[i] ELSE header[p]]
           /\ free_lists' = [free_lists EXCEPT ![i] = Tail(nodes)]
           /\ Hold(Head(nodes), n)

\* A large object gets a mapping, of which the first cache line is its header's.
AllocLarge(i, n) ==
  /\ \E base \in Unmapped(ClassSize[i]) :
       LET p == cacheline_ceil(base + Header)
       IN  /\ mapped' = mapped \cup Words(base, ClassSize[i])
           /\ header' = [header EXCEPT ![p] = ClassSize[i]]
           /\ Hold(p, n)
  /\ UNCHANGED free_lists

Alloc(n) ==
  LET i == sz_to_ind(WithMeta(n))
  IN  /\ Cardinality(held) < MaxHeld
      /\ IF i \in SmallInd THEN AllocNode(i, n) \/ AllocSlab(i, n) ELSE AllocLarge(i, n)

\* Slip: the class of the header is looked up as that of a size to allocate.
ClassOfPlusMeta(p) == sz_to_ind(WithMeta(header[p]))

ClassOf(p) == sz_to_ind(header[p])

\* Dalloc knows nothing of the object but its header.  What is unmapped and
\* mapped again is zero.
Dalloc(o) ==
  /\ o \in held
  /\ held' = held \ {o}
  /\ IF ClassOf(o.base) \in SmallInd
     THEN /\ free_lists' = [free_lists EXCEPT ![ClassOf(o.base)] = <<o.base>> \o @]
          /\ UNCHANGED <<mapped, header>>
     ELSE LET gone == Words(PageOf(o.base), header[o.base])
          IN  /\ mapped' = mapped \ gone
              /\ header' = [p \in Word |-> IF p \in gone THEN 0 ELSE header[p]]
              /\ UNCHANGED free_lists

Init ==
  /\ mapped = {}
  /\ header = [p \in Word |-> 0]
  /\ free_lists = [i \in SmallInd |-> <<>>]
  /\ held = {}

Next == (\E n \in ObjectSize : Alloc(n)) \/ (\E o \in held : Dalloc(o))

Spec == Init /\ [][Next]_vars

-----------------------------------------------------------------------------
(* Properties *)

FreeNodes == UNION { Elements(free_lists[i]) : i \in SmallInd }
AllNodes == FreeNodes \cup { o.base : o \in held }

\* What is in memory: headers, the links of free nodes, objects in use.
Pieces ==
  { Words(p - Header, Header) : p \in AllNodes }
    \cup { Words(p, Links) : p \in FreeNodes }
    \cup { Words(o.base, o.size) : o \in held }

\* No header, link or object overlaps another, and all lie in mapped memory:
\* so neither the program's writes to an object nor those of push and pop to
\* the links spoil a header, a list or another object, whatever the classes,
\* which are not multiples of the cache line nodes are aligned to.
MemoryApart ==
  /\ \A x \in Pieces : x \subseteq mapped
  /\ \A x, y \in Pieces : x # y => x \cap y = {}

\* A free node is on one list, once, that of the class in its header; a node
\* in use is on none.
ListsExact ==
  /\ \A i \in SmallInd :
       /\ \A p \in Elements(free_lists[i]) : header[p] = ClassSize[i]
       /\ Cardinality(Elements(free_lists[i])) = Len(free_lists[i])
  /\ \A o \in held : o.base \notin FreeNodes

\* The words that the headers account for: those of the nodes of one class, and
\* of all classes up to one.
ClassWords(i) == ClassSize[i] * Cardinality({ p \in AllNodes : header[p] = ClassSize[i] })
WordsUpTo[i \in 0..Len(ClassSize)] == IF i = 0 THEN 0 ELSE WordsUpTo[i - 1] + ClassWords(i)

\* What is mapped is what the headers account for, page for page: what is
\* unmapped is all of a large object's mapping and nothing else.
MappedExact == Cardinality(mapped) = WordsUpTo[Len(ClassSize)]

\* The objects in use are a heap of words.
ObjectHeap == INSTANCE ExtentHeap
  WITH Extent <- [base : Word, size : ObjectSize],
       Span <- [e \in [base : Word, size : ObjectSize] |-> Words(e.base, e.size)],
       live <- held

ImplementsObjectHeap == ObjectHeap!Spec
=============================================================================
