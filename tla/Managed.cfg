CONSTANTS
  t1 = t1
  x1 = x1
  Kinds = {"traces", "proxy"}
  Payload = {t1, x1}
  KindOf <- MCKindOf
  DsmPayload = {x1}
  Endpoints <- MCEndpoints
  MaxRounds = 2
  AnswersLost = FALSE
  KeyMayFail = TRUE
  MaxErrors = 1
SPECIFICATION ManagedFairSpec
INVARIANTS ManagedExitSettled
PROPERTIES ManagedTerminates
CHECK_DEADLOCK FALSE
