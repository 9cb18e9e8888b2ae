CONSTANTS
  Kinds = {"logs", "traces", "stats"}
  MaxContent = 4
  MaxEntries = 2
  Sizes = {0, 1, 2, 3, 4, 5}
  ShallowSize = 2
  MaxPayloads = 4
SPECIFICATION Spec
INVARIANTS EachPayloadOnceInOrder
CHECK_DEADLOCK FALSE
