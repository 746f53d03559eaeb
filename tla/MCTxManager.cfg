\* Three hashes, room for two: eviction, re-adds and every status change happen.
CONSTANTS
  t1 = t1
  t2 = t2
  t3 = t3
  Hashes = {t1, t2, t3}
  MaxSize = 2
  MaxTime = 2
SPECIFICATION Spec
INVARIANTS SizeBounded
