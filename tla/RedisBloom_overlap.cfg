\* Two overlapping rebuilds, two links, one loss of Redis.
CONSTANTS
  Codes = {1, 2}
  Runs = {r1, r2}
  Main = Main
  NoKey = NoKey
  ShardCount = 1
  BatchSize = 1
  MaxTime = 0
  MaxLosses = 1
SYMMETRY RunSymmetry
SPECIFICATION Spec
INVARIANTS OnlyStraddledLost DoubleWrite
PROPERTIES InstallHeals
\* Creators and rebuilds are finitely many: once they have returned all is still.
CHECK_DEADLOCK FALSE
