SPECIFICATION Spec
CONSTANTS
  Writers = {w1, w2}
  Types = {t1, t2}
  MaxEvents = 2
  MaxAge = 2
  DefaultLimit = 1
  LargestLimit = 2
  MaxInserts = 3
  MaxClock = 3
SYMMETRY Symmetry
INVARIANTS
  Bounded
  RecentKept
  IdsNeverReused
  ListedNewestFirst
