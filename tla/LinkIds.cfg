\* Two processes with node ids of their own, sequence numbers of one bit; clocks
\* start before the epoch, are stepped back, and processes restart.  The alphabet
\* and the tables are the code's; the ids are AAAA, AAAa, aAAA, aAAa and the next
\* one of each.
CONSTANTS
  p1 = p1
  p2 = p2
  Procs = {p1, p2}
  NodeOf <- OwnNodes
  MaxNode <- Width
  MaxSequence = 1
  Early = 1
  MaxTime = 1
  MaxBack = 1
  MaxRestarts = 1
  Numerals = 10
  Letters = 26
  WordSize = 1073741824
  BufLen = 6
  ShardCount = 16
  TellingDigits = 3
SPECIFICATION FairSpec
INVARIANTS IdsUnique ParseRoundTrip CodesRoundTrip RefusedForUpperDigits
PROPERTIES IdsIncrease WaitEnds
\* The clocks are bounded: a generator at the last millisecond waits.
CHECK_DEADLOCK FALSE
