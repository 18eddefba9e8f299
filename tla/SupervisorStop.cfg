SPECIFICATION SupervisorSafety
CONSTANTS
  r1 = r1
  r2 = r2
  s1 = s1
  s2 = s2
  k1 = k1
  b1 = b1
  w1 = w1
  w2 = w2
  None = None
  Run = {r1, r2}
  Session = {s1, s2}
  Key = {k1}
  Body = {b1}
  Worker = {w1, w2}
  Operation = {}
  KindOf <- MCKindOf
  CheckpointId = {}
  GraphState = {}
  Artifact = {}
  MaxUsed <- MCMaxUsed
  MaxRetry = 0
  MaxRounds = 1
  MaxQueries = 1
  LeaseTicks = 1
  MaxEpoch = 1
  MaxStageEvents = 0
  MaxQuarantined = 1
  MaxFaults = 0
  MaxStops = 1
INVARIANT StopMeansStopped
CHECK_DEADLOCK FALSE
