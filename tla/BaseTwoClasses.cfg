CONSTANTS
  ClassSize <- ClassSizeDef
  SlabSize <- SlabSizeDef
  ObjectSize = {1, 2, 4, 9, 40}
  CacheLine = 8
  PageSize = 24
  NumPages = 7
  MaxHeld = 3
SPECIFICATION Spec
INVARIANTS
  MemoryApart
  ListsExact
  MappedExact
PROPERTY ImplementsObjectHeap
