SPECIFICATION Spec
CONSTANTS
  Setups <- MCSetups
  Requests = {1, 2}
  Traces <- MCTraces
  RidOf <- MCRidOf
  ContextCapacity = 1
  ChannelSize = 1
  MaxFaults = 1
  NoTrace = NoTrace
INVARIANTS
  NoTraceVanishes
  SentFullyTagged
PROPERTY ProxySettles
CHECK_DEADLOCK FALSE
