CONSTANTS
  Thread = {t1, t2, t3}
  Nobody = nobody
  Sind = {1, 2}
  NonSlab = nonslab
  RegionCells <- RegionCellsDef
  SlabPages <- SlabPagesDef
  LargePages = {1}
  PageCells = 4
  NumPages = 3
  MaxHeld = 3
  MemoryFails = TRUE
SPECIFICATION Spec
SYMMETRY ThreadSymmetry
CHECK_DEADLOCK FALSE
INVARIANTS
  RegionsPartition
  ListsExact
  StatsExact
PROPERTY ImplementsRegionHeap
