SPECIFICATION Spec
CONSTANTS
  Clients = {c1, c2}
  Tables = {t1, t2}
  Slugs = {s1, s2}
  Docs = {d1, d2}
  Keys = {k1}
  NoTable = NoTable
  NoSlug = NoSlug
  NoDoc = NoDoc
  MaxOps = 7
  MaxCrashes = 1
SYMMETRY Symmetry
INVARIANTS
  Findable
  NodeIndexSound
  QuietStoreIsExact
CHECK_DEADLOCK FALSE
