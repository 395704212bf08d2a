SPECIFICATION LimiterFairSpec
CONSTANTS
  Calls = {1, 2, 3, 4}
  Signals = {"single", "bulk"}
  SignalOf <- OneBulk
  Capacity = 2
  Timeout = 2
  Lag = 1
INVARIANTS
  DeadlineKept
PROPERTIES
  QueueServed
