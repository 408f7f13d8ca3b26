\* Two levels, of one and of two workers, with two requests of each worker.
CONSTANTS
  Levels <- TwoLevels
  SeedCodes = 1
  MinSuccess = 50
  MaxRequests = 2
  MaxElapsed = 2
SPECIFICATION LoadFairSpec
INVARIANTS ReportExplained BestIsBest
PROPERTIES LevelEnds
\* The load test ends.
CHECK_DEADLOCK FALSE
