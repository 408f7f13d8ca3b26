\* Two links of one of two tables, two visits and a statistic; pages and
\* deletions of one row, and one failed round.
CONSTANTS
  Codes = {1, 3}
  ShardCount = 2
  Visits = {v1, v2}
  Stats = {s1}
  BatchSize = 1
  Retention = 1
  Day = 2
  MaxTime = 1
  MaxFails = 1
SPECIFICATION FairSpec
INVARIANTS NoneSkipped
PROPERTIES ExpiredRowsGo RetentionKept
\* Links and visits are finitely many, the clock is bounded.
CHECK_DEADLOCK FALSE
