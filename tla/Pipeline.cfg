CONSTANTS
  p1 = p1
  p2 = p2
  Posts = {p1, p2}
  EventCount <- MCEventCount
  Forwarded <- MCForwarded
  LogsCap = 1
  BusCap = 1
  Answered <- MCAnswered
  CommandCap = 1
  DurableCap = 1
  MaxUpdates = 2
SPECIFICATION FairSpec
INVARIANTS TombstoneComesLast NoEventDropped
PROPERTIES EveryPostAnswered ShutdownCompletes
CHECK_DEADLOCK FALSE
