CONSTANTS
  Thread = {t1, t2, t3, t4}
  NumArenas = 3
  Arena = {a1, a2, a3, a4}
  Null = null
  IndexLimit = 16
SPECIFICATION Spec
CHECK_DEADLOCK FALSE
INVARIANTS
  ArenasAccounted
