\* Three codes for two places, two goroutines inside Set, TTLs of none to one
\* moment, and three moments of time.
CONSTANTS
  Codes = {c1, c2, c3}
  Values = {v1, v2}
  Callers = {s1, s2}
  MaxEntries = 2
  MaxTTL = 1
  MaxTime = 3
  Miss = Miss
  NoSet = NoSet
SYMMETRY CacheSymmetry
SPECIFICATION Spec
INVARIANTS ListMatchesMap
PROPERTIES EvictsLeastRecent ImplementsBoundedCache
