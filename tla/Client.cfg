SPECIFICATION Spec
CONSTANTS
  MaxRetries = 6
  InitialBackoff = 5
  MaxBackoff = 300
  RequestTimeout = 300
  Second = 10
  Bits = 12
  Deadlines = {0, 1200, 4000}
  Latencies = {0}
  Statuses = {404, 429, 500}
  RetryAfters <- MCRetryAfters
INVARIANTS
  TypeOK
  DelayBounded
  BackoffDoubles
  GivesUpOnlyWhenSpent
  BackInTime
  RetryAfterOrCap
CHECK_DEADLOCK FALSE
