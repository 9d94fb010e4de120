CONSTANTS
  Thread = {t1, t2}
  Nobody = nobody
  Sind = {1, 2}
  NonSlab = nonslab
  RegionCells <- Regions
  SlabPages <- Slabs
  LargePages = {4}
  PageCells = 2
  NoArena = none
  NumClasses = 2
  ClassSize <- Classes
  MaxEventTick = 1
  EpochLimit = 2
  NumPages = 5
  MaxHeld = 3
  This = a1
SPECIFICATION FairSpec
CHECK_DEADLOCK FALSE
INVARIANT LookUpFinds
PROPERTIES
  ImplementsArena
  CallsEnd
