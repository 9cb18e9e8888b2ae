CONSTANTS
  l1 = l1
  x1 = x1
  main = main
  dual = dual
  Kinds = {"logs", "proxy"}
  Payload = {l1, x1}
  KindOf <- MCKindOf
  DsmPayload = {x1}
  Endpoints <- DualLogs
  MaxRounds = 2
  AnswersLost = FALSE
  KeyMayFail = TRUE
SPECIFICATION Spec
INVARIANTS NothingVanishes NoDuplicates
PROPERTY RetriesSurviveBlockingFlush
