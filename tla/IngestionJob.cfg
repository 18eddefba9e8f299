CONSTANTS
  Job = {j1}
  Item = {1, 2, 3, 4}
  Worker = {w1, w2}
  Dispatcher = {d1}
  Operator = {o1}
  Snapshot = {s1, s2}
  Profile = {p1}
  Target = s1
  Wanted = p1
  MaxMoves = 3
  Ref = {r1}
  Request = {q1}
  Key = {}
  Total = {4}
  None = None
  IngestionStages = 4
  Parsed = 1
  Indexed = 2
  Validated = 3
  EvaluationStages = 4
  MaxAttempts = 2
  MaxClaims = 2
  MaxAutoDeliveries = 2
  LeaseTicks = 1
  MaxSends = 1
  MaxRetries = 0
  MaxFaults = 1
SYMMETRY Symmetry
ACTION_CONSTRAINT Bound
SPECIFICATION IngestionSafety
INVARIANTS
  ActivatedTogether
PROPERTY NoBlindMove
CHECK_DEADLOCK FALSE
