CONSTANTS
  Chunk = {c1, c2, c3}
  Null = null
  Sind = {1, 2, 3}
  Num <- NumDef
  kLongBits = 2
  kArraySize = 3
  EpochLimit = 3
SPECIFICATION Spec
SYMMETRY ChunkSymmetry
VIEW View
INVARIANTS
  RingsExact
  AnyAndAllExact
PROPERTIES
  StepsExact
  WalkMeetsAll
