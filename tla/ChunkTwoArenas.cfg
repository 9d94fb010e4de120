CONSTANTS
  Arena = {a1, a2}
  NoArena = none
  NumPages = 4
  NumClasses = 2
  ClassSize <- SmallClasses
  HugeSize = {3}
  MaxEventTick = 1
  EpochLimit = 3
SPECIFICATION Spec
VIEW View
SYMMETRY ArenaSymmetry
CHECK_DEADLOCK FALSE
INVARIANTS
  ChunksDisjoint
  MappedIsTiled
  PageMapExact
  BinsExact
PROPERTIES
  LiveChunkStable
  ArenasApart
  ImplementsPageHeap
