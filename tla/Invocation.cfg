SPECIFICATION Spec
CONSTANTS
  Capacity = 2
  Requests = {1, 2}
  Distributed = {1}
  Inferred = {2}
  Failing = {2}
  PROC_METRICS = TRUE
  Setups <- MCSetups
  MaxExtra = 2
INVARIANTS
  PairedWithOwnRequest
  CompleteInvocationIsSent
  UsageCoversItsPeriod
PROPERTY KeepsLedger
CHECK_DEADLOCK FALSE
