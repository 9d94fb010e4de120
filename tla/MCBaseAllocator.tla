-------------------------- MODULE MCBaseAllocator --------------------------
EXTENDS BaseAllocator

\* The classes of 80 and 96 bytes, the smallest that objects get, and one and
\* two pages for large ones.  A page is three cache lines, so that one slab of
\* the second class has two nodes and three objects need another slab.
ClassSizeDef == <<10, 12, 24, 48>>
SlabSizeDef == <<120, 24>>
=============================================================================
