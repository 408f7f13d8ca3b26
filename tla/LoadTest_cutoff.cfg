\* One level of one worker with one request.
CONSTANTS
  Levels <- OneLevel
  SeedCodes = 0
  MinSuccess = 50
  MaxRequests = 1
  MaxElapsed = 1
SPECIFICATION LoadSpec
INVARIANT CutOffIsNoFailure
\* The load test ends.
CHECK_DEADLOCK FALSE
