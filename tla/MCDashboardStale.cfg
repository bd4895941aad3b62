SPECIFICATION Spec
CONSTANTS
  Mutations = {m1}
  Readers = {}
  Watchers = {w1, w2}
  Keys = {k1}
  InitialRows = 1
  NoStats = NoStats
INVARIANT StatsReflectInvalidations
CHECK_DEADLOCK FALSE
