CONSTANTS
  p1 = p1
  intake = intake
  Kinds = {"stats"}
  Payload = {p1}
  KindOf <- MCKindOf
  DsmPayload = {}
  Endpoints <- MCEndpoints
  MaxRounds = 2
  AnswersLost = FALSE
  KeyMayFail = FALSE
  Strategies = {"Default", "End", "Periodically", "Continuously", "EndPeriodically"}
  MaxInvocations = 3
SPECIFICATION FairSpec
INVARIANTS ExitSettled EndFlushAfterInvocation
PROPERTIES ShutdownTerminates EndGetsBackToNext
CHECK_DEADLOCK FALSE
