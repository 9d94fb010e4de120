CONSTANTS
  Thread = {t1, t2}
  Nobody = nobody
  Sind = {1, 2}
  NonSlab = nonslab
  RegionCells <- RegionCellsDef
  SlabPages <- SlabPagesDef
  LargePages = {1}
  PageCells = 4
  NumPages = 3
  MaxHeld = 3
  MemoryFails = TRUE
SPECIFICATION FairSpec
PROPERTY CallsEnd
CHECK_DEADLOCK FALSE
