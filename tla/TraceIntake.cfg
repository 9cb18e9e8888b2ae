SPECIFICATION Spec
CONSTANTS
  Configs <- MCConfigs
  Calls <- MCCalls
  Body <- MCBody
  DedupCapacity = 3
  ChannelSize = 1
  MaxFaults = 2
INVARIANTS
  SentAtMostOnce
  SentOrExcused
  StatsComputedOnce
  BarrierCoversAccepted
PROPERTY EveryCallAnswered
CHECK_DEADLOCK FALSE
