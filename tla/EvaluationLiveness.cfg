CONSTANTS
  Job = {j1}
  Item = {1}
  Cases = 1
  Worker = {w1, w2}
  Dispatcher = {d1}
  Ref = {r1}
  Request = {q1}
  Key = {}
  Total = {1}
  None = None
  IngestionStages = 6
  EvaluationStages = 4
  MaxAttempts = 2
  MaxClaims = 2
  MaxAutoDeliveries = 2
  LeaseTicks = 1
  MaxSends = 2
  MaxRetries = 0
  MaxFaults = 1
SPECIFICATION EvaluationSpec
PROPERTY JobsSettle
CHECK_DEADLOCK FALSE
