\* One rebuild through two tables, links that are created, expire and are purged
\* meanwhile, one loss of Redis.
CONSTANTS
  Codes = {1, 2}
  Runs = {r1}
  Main = Main
  NoKey = NoKey
  ShardCount = 2
  BatchSize = 1
  MaxTime = 1
  MaxLosses = 1
SPECIFICATION FairSpec
INVARIANTS ListingComplete
PROPERTIES RebuildReturns ImplementsFilter
\* Creators and rebuilds are finitely many: once they have returned all is still.
CHECK_DEADLOCK FALSE
