--------------------------- MODULE MCChunkManager ---------------------------
EXTENDS ChunkManager, TLC

\* Classes of 1, 3 and 4 pages: splitting leaves free chunks of 2 pages, between
\* the classes.
SpacedClasses == 0 :> 1 @@ 1 :> 3 @@ 2 :> 4

\* Classes of 1 and 2 pages: the least with which chunks are split and merged.
SmallClasses == 0 :> 1 @@ 1 :> 2

\* What later steps read.  The epoch of a chunk counts only while it is dirty
\* and its slab flag only while it is in use: both are set anew before they are
\* read again, so states that differ only there behave alike.
View ==
  LET live(k) == [k EXCEPT !.epoch = IF k.state = "dirty" THEN @ ELSE 0,
                           !.slab = @ /\ k.state = "active"]
  IN  <<[p \in Page |-> live(chunk[p])], rtree, mapped, dirty, clean, epoch, tick, op>>

ArenaSymmetry == Permutations(Arena)
=============================================================================
