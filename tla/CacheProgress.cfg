CONSTANTS
  Thread = {t1}
  NumClasses = 2
  r1 = r1
  r2 = r2
  r3 = r3
  r4 = r4
  r5 = r5
  q1 = q1
  q2 = q2
  Region <- TwoClasses
  Large = {l1}
  NoBlock = null
  Capacity = 3
  InitFillCount = 1
  MaxEventTick = 1
SPECIFICATION FairSpec
PROPERTIES
  CallsEnd
  UnusedBinDrains
