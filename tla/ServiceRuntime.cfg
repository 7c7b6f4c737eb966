SPECIFICATION FairSpec
CONSTANTS
  NoEntry = NoEntry
  a = a
  b = b
  c = c
  Issues = {a, b}
  MaxRuns = 1
  LockRetries = 2
  MaxAttempts = 3
  MaxDeeds = 3
INVARIANTS
  KeysMatchItems
  RunLimit
PROPERTIES
  BackoffIsKept
  ReadyIsServed
CHECK_DEADLOCK FALSE
