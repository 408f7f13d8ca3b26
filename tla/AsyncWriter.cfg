\* Three links of two tables, two workers, a channel of one and batches of two.
CONSTANTS
  Items = {1, 2, 3}
  Workers = {w1, w2}
  QueueSize = 1
  BatchSize = 2
  ShardCount = 2
SPECIFICATION FairSpec
INVARIANTS HandedOnce DrainedOnWait
PROPERTIES EarlyItemsWritten
\* Links are finitely many, and the workers return.
CHECK_DEADLOCK FALSE
