CONSTANTS
  Job = {j1, j2}
  Item = {i1, i2}
  Worker = {w1, w2}
  Dispatcher = {d1}
  Ref = {r1, r2}
  Request = {q1, q2}
  Key = {k1}
  Total = {0, 2}
  None = None
  IngestionStages = 2
  EvaluationStages = 2
  MaxAttempts = 2
  MaxClaims = 2
  MaxAutoDeliveries = 2
  LeaseTicks = 2
  MaxSends = 1
SYMMETRY Symmetry
ACTION_CONSTRAINT Bound
SPECIFICATION Spec
INVARIANTS
  TablesAreSound
  ProgressMatchesItems
  SuccessIsComplete
  OneJobPerKey
PROPERTY ImplementsContract
CHECK_DEADLOCK FALSE
