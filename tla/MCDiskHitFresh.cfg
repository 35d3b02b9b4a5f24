CONSTANTS
  t1 = t1
  t2 = t2
  n1 = n1
  n2 = n2
  Threads = {t1, t2}
  TempNames = {n1, n2}
  Blocks = {10, 20}
  LongNames = {20}
  Accessible = {10, 20}
  Configs <- OnlyValidating
  NoPath = NoPath
  MaxVersion = 2
  MaxClock = 1
  Staleness = 1
  DeadTemp = 1
SPECIFICATION Spec
SYMMETRY Symmetric
INVARIANT HitFresh
