CONSTANTS
  s1 = s1
  s2 = s2
  c1 = c1
  c2 = c2
  b1 = b1
  b2 = b2
  h1 = h1
  h2 = h2
  Snapshot = {s1, s2}
  Profile = {p1, p2}
  Chunk = {c1, c2}
  ChunksOf <- Members
  HnswSpec = {h1, h2}
  Builder = {b1, b2}
  SpecOf <- Specs
  Searcher = {q1}
  None = None
  TopK = 2
  MaxInstances = 2
  MaxChanges = 1
SPECIFICATION AnnSpec
INVARIANTS
  GraphsAreAccounted
  AnswersAreComplete
PROPERTIES
  ServesTheGeneration
CHECK_DEADLOCK FALSE
