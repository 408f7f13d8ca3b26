\* One link and one rebuild, Redis intact: a link is filtered out.
CONSTANTS
  Codes = {1}
  Runs = {r1}
  Main = Main
  NoKey = NoKey
  ShardCount = 1
  BatchSize = 1
  MaxTime = 0
  MaxLosses = 0
SPECIFICATION Spec
INVARIANTS AckedStaysFound
\* Creators and rebuilds are finitely many: once they have returned all is still.
CHECK_DEADLOCK FALSE
