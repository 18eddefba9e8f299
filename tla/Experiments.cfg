SPECIFICATION AggSpec
CONSTANTS
  q1 = q1
  q2 = q2
  None = None
  Cases = {"turn1", "turn2", "single", "other"}
  Questions = {q1, q2}
  x = x
  y = y
  Answers = {x, y}
  Codes = {"c1", "c2"}
  MaxRetries = 1
  Experiments = {1, 2}
  Providers = {"generation", "judge"}
  Permits = 1
  Scenarios <- MCScenarios
INVARIANTS
  ExactReuse
  SessionChain
  AcceptsItsOwnHistory
  ReportsAreTrue
PROPERTIES
  RunsEnd
CHECK_DEADLOCK FALSE
