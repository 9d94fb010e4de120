----------------------------- MODULE MCSlabBins -----------------------------
EXTENDS SlabBins, TLC

\* With words of two bits: part of a word; a whole word; a word and a part.
NumDef == 1 :> 1 @@ 2 :> 2 @@ 3 :> 3

\* Without what is written before it is read: the links of a chunk on no list, the
\* epoch of one that is not dirty, the class and bitmap of one that is no slab.
View ==
  <<state, epoch_, curr, links.size,
    [n \in L!Node |-> IF n \in Chunk /\ state[n] = "out" THEN <<Null, Null>>
                      ELSE <<links.prev[n], links.next[n]>>],
    [c \in Chunk |-> CASE state[c] = "active" -> <<sind[c], bitmap[c]>>
                        [] state[c] = "dirty" -> epoch[c]
                        [] state[c] = "out" -> Null]>>

ChunkSymmetry == Permutations(Chunk)
=============================================================================
