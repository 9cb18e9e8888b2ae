CONSTANTS
  r1 = r1
  r2 = r2
  RequestIds = {r1, r2}
  ManagedModes = {TRUE, FALSE}
  BufferSize = 1
  DURABLE_CONTEXT_MAP_CAPACITY = 1
  ExcludedKinds = {"INIT"}
  MaxEvents = 5
  MaxInits = 2
  MaxUpdates = 2
SPECIFICATION Spec
SYMMETRY Symmetry
INVARIANTS EveryLineOnce OrderWithinRequest
CHECK_DEADLOCK FALSE
