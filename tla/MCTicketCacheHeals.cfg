SPECIFICATION FairSpec
CONSTANTS
  Mutations = {m1}
  Readers = {r1}
  Watchers = {w1}
  Keys = {k1, k2}
  InitialRows = 0
  NoStats = NoStats
PROPERTY StaleEntriesHeal
CHECK_DEADLOCK FALSE
