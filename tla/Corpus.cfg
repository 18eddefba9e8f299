CONSTANTS
  Snapshot = {"s1", "s2", "s3"}
  Profile = {"p1", "p2"}
  Reader = {o1, o2}
  Actor = {o1, o2}
  Importer = {i1, i2}
  None = None
  MaxMoves = 4
  Bundle <- MCBundle
  Content <- MCContent
  Request <- MCRequest
  Filter <- MCFilter
  ChunkIds <- MCChunkIds
  Ranking <- MCRanking
  RRFK = 2
SYMMETRY Symmetry
CONSTRAINT ImportsComeFirst
SPECIFICATION CorpusSpec
INVARIANTS
  CatalogInv
  ImportsStayValid
PROPERTIES
  NoStaleMove
  PlannedIsImported
  ReadsAreSound
  ReadsAreReproducible
  GuardsNeverRefuse
CHECK_DEADLOCK FALSE
