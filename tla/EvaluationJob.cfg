CONSTANTS
  Job = {j1}
  Item = {1, 2}
  Cases = 2
  Worker = {w1, w2}
  Dispatcher = {d1}
  Ref = {r1}
  Request = {q1}
  Key = {}
  Total = {2}
  None = None
  IngestionStages = 6
  EvaluationStages = 4
  MaxAttempts = 2
  MaxClaims = 2
  MaxAutoDeliveries = 2
  LeaseTicks = 1
  MaxSends = 2
  MaxRetries = 1
  MaxFaults = 1
SYMMETRY Symmetry
SPECIFICATION EvaluationSafety
INVARIANTS
  LedgerMatchesDisk
  AggregationIsComplete
PROPERTY KeepsToTheStore
CHECK_DEADLOCK FALSE
