SPECIFICATION Spec
CONSTANTS
  c1 = c1
  c2 = c2
  c3 = c3
  t1 = t1
  t2 = t2
  t3 = t3
  Caches = {c1, c2, c3}
  Tags = {t1, t2, t3}
  L1Ways = 1
  L2Ways = 2
  Protocols = {"MESI", "MOESI", "FUTUREBUS"}
INVARIANT TypeOK
INVARIANT SingleWriter
INVARIANT Inclusion
INVARIANT DirtyKept
SYMMETRY Symmetric
