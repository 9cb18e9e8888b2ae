CONSTANTS
  r1 = r1
  r2 = r2
  RequestIds = {r1, r2}
  ManagedModes = {FALSE}
  BufferSize = 1
  DURABLE_CONTEXT_MAP_CAPACITY = 1
  ExcludedKinds = {}
  MaxEvents = 5
  MaxInits = 1
  MaxUpdates = 1
SPECIFICATION Spec
SYMMETRY Symmetry
INVARIANT EvictionMakesRoom
CHECK_DEADLOCK FALSE
