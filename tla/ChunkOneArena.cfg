CONSTANTS
  Arena = {a1}
  NoArena = none
  NumPages = 6
  NumClasses = 3
  ClassSize <- SpacedClasses
  HugeSize = {5}
  MaxEventTick = 1
  EpochLimit = 3
SPECIFICATION FairSpec
CHECK_DEADLOCK FALSE
INVARIANTS
  CleanCoalesced
  DirtyIsRecent
PROPERTY CallsEnd
