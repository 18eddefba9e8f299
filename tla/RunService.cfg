SPECIFICATION RunSpec
CONSTANTS
  r1 = r1
  r2 = r2
  s1 = s1
  s2 = s2
  k1 = k1
  b1 = b1
  w1 = w1
  w2 = w2
  c1 = c1
  g1 = g1
  a1 = a1
  generate = generate
  search = search
  None = None
  Run = {r1, r2}
  Session = {s1, s2}
  Key = {k1}
  Body = {b1}
  Worker = {w1, w2}
  Operation = {generate, search}
  KindOf <- MCKindOf
  CheckpointId = {c1}
  GraphState = {g1}
  Artifact = {a1}
  MaxUsed <- MCMaxUsed
  MaxRetry = 1
  MaxRounds = 1
  MaxQueries = 1
  LeaseTicks = 1
  MaxEpoch = 2
  MaxStageEvents = 1
  PageSize = 2
SYMMETRY Symmetry
ACTION_CONSTRAINT Bound
INVARIANTS
  OneConversation
  ReplayIsTheSameRequest
  EventsAreDelivered
  JournalIsComplete
  TrustedIsNewest
PROPERTIES
  NothingIsUndone
  NeverRefused
CHECK_DEADLOCK FALSE
