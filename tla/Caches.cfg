SPECIFICATION Spec
CONSTANTS
  c1 = c1
  c2 = c2
  t1 = t1
  t2 = t2
  w1 = w1
  w2 = w2
  Caches = {c1, c2}
  Tags = {t1, t2}
  Protocols = {"MESI", "MOESI", "FUTUREBUS"}
  NoTag = NoTag
  Ways <- Sizes
  Lats = {2}
  Skew = 1
  MaxTime = 3
  MaxRaced = 0
INVARIANT FetchedOnce
INVARIANT NoneLeaked
 
INVARIANT Coherent
INVARIANT DirtyKept
SYMMETRY Symmetric
CHECK_DEADLOCK FALSE
