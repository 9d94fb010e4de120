CONSTANTS
  Thread = {t1, t2}
  NumClasses = 1
  r1 = r1
  r2 = r2
  r3 = r3
  r4 = r4
  r5 = r5
  q1 = q1
  q2 = q2
  Region <- OneClass
  Large = {l1}
  NoBlock = null
  Capacity = 4
  InitFillCount = 1
  MaxEventTick = 1
SPECIFICATION Spec
SYMMETRY OneClassSymmetry
INVARIANTS
  TypeOK
  BlocksAccounted
  BatchesFit
PROPERTIES
  LowMarkIsIdle
  ImplementsMallocHeap
