CONSTANTS
  LOOKBACK_COUNT = 3
  ONE_TWENTY_SECONDS = 2
  TWENTY_SECONDS = 2000
  DEFAULT_CONTINUOUS_FLUSH_INTERVAL = 1000
  FlushTimeout = 2
  Intervals = {0, 1500}
  MaxTime = 6
  U64 = 16384
  MaxInvocations = 4
SPECIFICATION Spec
INVARIANTS DefaultAdaptsToHistory SkippedOnlyWhileFresh
CHECK_DEADLOCK FALSE
