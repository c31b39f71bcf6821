SPECIFICATION Spec
CONSTANTS
  Workspace = {"w1"}
  Name = {"n1"}
  Content = {"b"}
  Sha <- MCSha
  FileName = {"f"}
  Description = {}
  NoDescription = NoDescription
  Pieces <- MCPieces
  Ingests = {r1, r2}
  ShortReplies = FALSE
  Queries = {}
  Question = {"q"}
  AskedCollection = {1}
  Score <- MCScore
  Overlaps <- MCOverlaps
  NaN = NaN
  Threshold = 20
  TopK = 1
  IndexFrom = 4
  EmbeddingStub = FALSE
  MaxSeq = 0
CHECK_DEADLOCK FALSE
INVARIANT ReingestIsIdempotent
