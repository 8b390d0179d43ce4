CONSTANTS
  s1 = s1
  s2 = s2
  ticker = ticker
  t1 = t1
  t2 = t2
  Threads = {t1, t2}
  Sleepers = {s1, s2, ticker}
  Signers = {s1, s2}
  Ticker = ticker
  Casts <- MCCasts
  Deltas = {1}
  Times = {1, 4}
  MaxNanos = 3
  MaxTime = 4
  Period = 1
  MaxTicks = 2
  Requests <- MCRequests
  base_backoff = 1
  max_backoff = 2
SPECIFICATION Spec
CHECK_DEADLOCK FALSE
INVARIANTS ClockInv AttemptsAccountedFor KeyNeverLost
PROPERTIES BackoffPasses WaitsEnd
