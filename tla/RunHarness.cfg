SPECIFICATION HarnessSpec
CONSTANTS
  r1 = r1
  s1 = s1
  k1 = k1
  w1 = w1
  lawful = lawful
  risky = risky
  c1 = c1
  c2 = c2
  None = None
  Nothing = Nothing
  Run = {r1}
  Session = {s1}
  Key = {k1}
  Body = {lawful, risky}
  Risky = {risky}
  Worker = {w1}
  Operation <- GraphOperation
  KindOf <- MCKindOf
  CheckpointId = {1, 2, 3, 4, 5, 6, 7, 8, 9, 10, 11, 12, 13, 14, 15}
  GraphState <- HarnessState
  Artifact <- HarnessArtifact
  MaxUsed <- MCMaxUsed
  MaxRetry = 1
  MaxRounds = 2
  MaxQueries = 2
  LeaseTicks = 1
  MaxEpoch = 2
  MaxStageEvents = 9
  Chunk = {c1, c2}
  Covering = {c1}
  Strong = {c2}
  InScope = {c1, c2}
  TopK = 2
  Raw <- MCRaw
  Settings <- MCSettings
ACTION_CONSTRAINT Bound
INVARIANT AnswersAreEarned
PROPERTIES
  ImplementsProgress
  NoSilentRepeat
CHECK_DEADLOCK FALSE
