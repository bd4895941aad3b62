SPECIFICATION Spec
CONSTANTS
  Mutations = {m1, m2}
  Readers = {r1, r2}
  Watchers = {}
  Keys = {k1}
  InitialRows = 0
  NoStats = NoStats
SYMMETRY Interchangeable
INVARIANTS
  TypeOK
  ListReflectsInvalidations
  InductiveInvariant
CHECK_DEADLOCK FALSE
