\* Three requests in the order of their arrival, a channel of one visit and
\* batches of two.
CONSTANTS
  Visits = {1, 2, 3}
  QueueSize = 1
  BatchSize = 2
SPECIFICATION GatewayFairSpec
INVARIANTS CountedOnce DrainedOnReturn ErrorsSurviveGrpc VisitsAreRedirects
PROPERTIES EarlyVisitsSettle RequestsEnd ShutdownsEnd
\* Requests are finitely many, and both processes may end.
CHECK_DEADLOCK FALSE
