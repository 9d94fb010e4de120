------------------------------ MODULE MCArena ------------------------------
EXTENDS Arena, TLC

\* Class 1: two regions to a slab of one page.  Class 2: one region to a slab
\* of one page, as the classes of 4096 and 8192 bytes have.
RegionCellsDef == 1 :> 2 @@ 2 :> 4
SlabPagesDef == 1 :> 1 @@ 2 :> 1

ThreadSymmetry == Permutations(Thread)
=============================================================================
