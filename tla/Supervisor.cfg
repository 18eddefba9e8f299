SPECIFICATION SupervisorSpec
CONSTANTS
  r1 = r1
  s1 = s1
  k1 = k1
  b1 = b1
  w1 = w1
  w2 = w2
  None = None
  Run = {r1}
  Session = {s1}
  Key = {k1}
  Body = {b1}
  Worker = {w1, w2}
  Operation = {}
  KindOf <- MCKindOf
  CheckpointId = {}
  GraphState = {}
  Artifact = {}
  MaxUsed <- MCMaxUsed
  MaxRetry = 0
  MaxRounds = 1
  MaxQueries = 1
  LeaseTicks = 1
  MaxEpoch = 2
  MaxStageEvents = 1
  MaxQuarantined = 1
  MaxFaults = 2
  MaxStops = 1
INVARIANTS
  KnownExecutionsBounded
PROPERTIES
  RunsSettle
  ClaimableIsServed
  FailuresHaveACause
CHECK_DEADLOCK FALSE
