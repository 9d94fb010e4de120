---------------------------- MODULE SizeClasses ----------------------------
(***************************************************************************)
(* The arithmetic that maps requested sizes to size classes: the tables of *)
(* size_classes.cc and the functions of size.h, with their bit tricks.     *)
(* What the other modules take size classes to be (ChunkManager's          *)
(* SizeAssumption, Arena's ArenaAssumption) is checked of them here.       *)
(*                                                                         *)
(* The functions keep no state; the one variable is the size they are      *)
(* asked for, which runs through all sizes and edges of interest.          *)
(***************************************************************************)
EXTENDS Integers, Sequences, SequencesExt

CONSTANTS
  Dense,   \* bound: sizes up to this are all visited ...
  Largest  \* bound: ... and up to this, those next to the edge of a class

kPage == 4096
kMinAllocMmap == 2097152
kNumSizeClasses == 65
kNumGePageClasses == 37
kNumSmallClasses == 36
kMaxSlabRegions == 512
kMaxSmallClass == 14336
kMinLargeClass == 16384
kMaxLookupSize == 4096

g_size_classes == <<
  8, 16, 32, 48, 64, 80, 96, 112, 128, 160, 192, 224, 256, 320, 384, 448, 512,
  640, 768, 896, 1024, 1280, 1536, 1792, 2048, 2560, 3072, 3584, 4096, 5120,
  6144, 7168, 8192, 10240, 12288, 14336, 16384, 20480, 24576, 28672, 32768,
  40960, 49152, 57344, 65536, 81920, 98304, 114688, 131072, 163840, 196608,
  229376, 262144, 327680, 393216, 458752, 524288, 655360, 786432, 917504,
  1048576, 1310720, 1572864, 1835008, 2097152 >>

g_slab_sizes == <<
  4096, 4096, 4096, 12288, 4096, 20480, 12288, 28672, 4096, 20480, 12288,
  28672, 4096, 20480, 12288, 28672, 4096, 20480, 12288, 28672, 4096, 20480,
  12288, 28672, 4096, 20480, 12288, 28672, 4096, 20480, 12288, 28672, 8192,
  20480, 12288, 28672 >>

\* g_index_lookup, which holds each index as many times in a row as this.
LookupRuns == << 1, 1, 2, 2, 2, 2, 2, 2, 2, 4, 4, 4, 4, 8, 8, 8, 8,
                 16, 16, 16, 16, 32, 32, 32, 32, 64, 64, 64, 64 >>
g_index_lookup ==
  FlattenSeq([i \in 1..Len(LookupRuns) |-> [k \in 1..LookupRuns[i] |-> i - 1]])

-----------------------------------------------------------------------------
(* size.h.  TLA+ counts the elements of a sequence from 1, C from 0.       *)

ind_to_cs(index) == g_size_classes[index + 1]

\* Slip: a size that is a multiple of 8 is taken for the next one.
sz_to_ind_look_up_next(size) == g_index_lookup[size \div 8 + 1]

sz_to_ind_look_up(size) == g_index_lookup[(size - 1) \div 8 + 1]

\* 63 - clzl(2 * size - 1) - 1
msb(size) == (CHOOSE b \in 0..62 : 2^b <= 2 * size - 1 /\ 2 * size - 1 < 2^(b + 1)) - 1

\* Slip: the size of a class is rounded up, too.
sz_to_cs_compute_up(size) ==
  LET space == 2^(msb(size) - 2) IN (size \div space + 1) * space

sz_to_cs_compute(size) ==
  LET space == 2^(msb(size) - 2) IN ((size - 1) \div space + 1) * space

sz_to_ind_compute(size) ==
  msb(size) * 4 - 19 + ((size - 1) \div 2^(msb(size) - 2) - 4)

sz_to_cs(size) ==
  IF size <= kMaxLookupSize THEN ind_to_cs(sz_to_ind_look_up(size))
  ELSE sz_to_cs_compute(size)

sz_to_ind(size) ==
  IF size <= kMaxLookupSize THEN sz_to_ind_look_up(size) ELSE sz_to_ind_compute(size)

\* Slip: the index among all classes.
sz_to_pind_all(size) ==
  IF size > kMinAllocMmap THEN kNumGePageClasses ELSE sz_to_ind_compute(size)

sz_to_pind(size) ==
  IF size > kMinAllocMmap
  THEN kNumGePageClasses
  ELSE sz_to_ind_compute(size) - (kNumSizeClasses - kNumGePageClasses)

pind_to_cs(pind) == ind_to_cs(pind + (kNumSizeClasses - kNumGePageClasses))

lookup_slab_size(sind) == g_slab_sizes[sind + 1]

\* chunk.cc
get_fit_pind(size) == sz_to_pind(size + 1) - 1

\* Slip: a request just above the last small class counts as small.
IsSmallLoose(size) == size <= kMaxSmallClass + 8

\* ThreadAlloc: whether a request is served from slabs.
IsSmall(size) == size <= kMaxSmallClass

-----------------------------------------------------------------------------
VARIABLE size

\* The edges of the classes, and of sizes above them that are kept apart.
Edges == { g_size_classes[i] + d : i \in DOMAIN g_size_classes, d \in -1..1 }
           \cup { kMinAllocMmap * m + kPage * k + d : m \in 1..3, k \in 0..1, d \in -1..1 }

Init == size = 1

Grow ==
  \/ size < Dense /\ size' = size + 1
  \/ /\ size >= Dense
     /\ \E e \in Edges :
          /\ size < e /\ e <= Largest
          /\ \A f \in Edges : size < f => e <= f
          /\ size' = e

Spec == Init /\ [][Grow]_size

-----------------------------------------------------------------------------
(* Properties *)

Ind == 0..(kNumSizeClasses - 1)
Pind == 0..(kNumGePageClasses - 1)

\* Up to kMinAllocMmap, the class of a size, by the table and by the bit
\* tricks, by size and by index, is the least class that holds it.  From a page
\* on, sz_to_pind is the index of the same class among those of at least a page;
\* sizes above kMinAllocMmap have none.
LeastClass ==
  /\ size <= kMinAllocMmap =>
       /\ sz_to_ind(size) \in Ind
       /\ ind_to_cs(sz_to_ind(size)) = sz_to_cs(size)
       /\ size <= sz_to_cs(size)
       /\ \A i \in Ind : size <= ind_to_cs(i) => sz_to_cs(size) <= ind_to_cs(i)
  /\ size >= kPage =>
       IF size <= kMinAllocMmap
       THEN sz_to_pind(size) \in Pind /\ pind_to_cs(sz_to_pind(size)) = sz_to_cs(size)
       ELSE sz_to_pind(size) = kNumGePageClasses

\* get_fit_pind, which tells the bin of a free chunk, is the greatest class the
\* chunk can serve, be it larger than every class or between two.
FitIsGreatest ==
  size >= kPage =>
    /\ get_fit_pind(size) \in Pind
    /\ pind_to_cs(get_fit_pind(size)) <= size
    /\ \A i \in Pind : pind_to_cs(i) <= size => i <= get_fit_pind(size)

\* A request goes one of two ways.  A small one has a class with slabs that are
\* whole pages, of the size of a class (the assertions of AllocChunk), cut into
\* regions without a rest, not more than a bitmap has bits.  Any other is given
\* whole pages and at least kMinLargeClass, as LargeAlloc asserts.
PathsAgree ==
  LET cs   == sz_to_cs(size)
      slab == lookup_slab_size(sz_to_ind(size))
  IN  IF IsSmall(size)
      THEN /\ sz_to_ind(size) < kNumSmallClasses
           /\ slab % kPage = 0 /\ sz_to_cs(slab) = slab
           /\ slab % cs = 0 /\ slab \div cs \in 1..kMaxSlabRegions
      ELSE cs >= kMinLargeClass /\ cs % kPage = 0

\* Rounding is stable (cs == sz_to_cs(cs), asserted in AllocChunk) and wastes
\* less than a quarter of a size above 64 bytes, huge ones included.
RoundingIsTight ==
  /\ sz_to_cs(sz_to_cs(size)) = sz_to_cs(size)
  /\ size > 64 => (sz_to_cs(size) - size) * 4 < size
=============================================================================
