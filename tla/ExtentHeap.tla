----------------------------- MODULE ExtentHeap -----------------------------
(***************************************************************************)
(* What every layer of ffmalloc promises to the layer above it: an extent  *)
(* of memory that is handed out shares no cell with any extent in use, and *)
(* stays its owner's, unchanged, until its owner frees it.  How extents    *)
(* are cut, merged, cached and mapped is not visible.                      *)
(***************************************************************************)

CONSTANTS
  Extent,   \* the extents that may be handed out
  Span      \* Span[e]: the cells of memory extent e is made of

VARIABLE live   \* the extents in use

Apart(e, extents) == \A f \in extents : Span[e] \cap Span[f] = {}

Init == live = {}

Alloc(e) ==
  /\ Apart(e, live)
  /\ live' = live \cup {e}

Free(e) ==
  /\ e \in live
  /\ live' = live \ {e}

Next == \E e \in Extent : Alloc(e) \/ Free(e)

Spec == Init /\ [][Next]_live
=============================================================================
