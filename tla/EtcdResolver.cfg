\* Two instances, two starts, a watch and one ResolveNow at a time.
CONSTANTS
  Keys = {k1, k2}
  Resolves = {r1}
  Watcher = Watcher
  MaxStarts = 2
SPECIFICATION FairSpec
INVARIANTS OnlyOvertakenStale
PROPERTIES DeadAddressLeaves JoinedIsPushed
\* The resolver may be closed with every instance stopped.
CHECK_DEADLOCK FALSE
