\* One link, resolved by its code and by a code that differs by case only, while it is
\* created, cached, expires and is deleted by the worker and by a lazy cleaner that may
\* be stopped, and the filter is rebuilt and lost.
CONSTANTS
  Codes = {c1, d1}
  Links = {c1}
  Key <- MCKey
  c1 = c1
  d1 = d1
  q1 = q1
  q2 = q2
  Wants <- MCWants
  Expiries = {1}
  Calls = {q1, q2}
  NoCall = NoCall
  CacheTTL = 1
  QueueSize = 1
  Rounding = 1
  MaxTime = 1
SPECIFICATION FairSpec
INVARIANTS NoStaleRedirect AckedResolves CopiesHaveRows
PROPERTIES ImplementsDirectory ResolveReturns
\* Calls are finitely many and the clock is bounded.
CHECK_DEADLOCK FALSE
