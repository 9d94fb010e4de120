--------------------------- MODULE MCArenaOnPages ---------------------------
EXTENDS ArenaOnPages, TLC

\* Class 1: slabs of three pages with two regions of a page and a half, the
\* second of which begins on an inner page.  Class 2: one region of a page.
Regions == 1 :> 3 @@ 2 :> 2
Slabs == 1 :> 3 @@ 2 :> 1

\* Chunks of 1 and 3 pages; those of 2 pages, which arise, are between them.
Classes == 0 :> 1 @@ 1 :> 3
=============================================================================
