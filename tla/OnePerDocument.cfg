SPECIFICATION SeqSpec
CONSTANTS
  Workspace = {w1, w2}
  Name = {n1, n2}
  Content = {"b"}
  Sha <- MCSha
  FileName = {"f"}
  Description = {}
  NoDescription = NoDescription
  Pieces <- MCPieces
  Ingests = {r1, r2, r3}
  ShortReplies = FALSE
  Queries = {}
  Question = {"q"}
  AskedCollection = {1}
  Score <- MCScore
  Overlaps <- MCOverlaps
  NaN = NaN
  Threshold = 20
  TopK = 1
  IndexFrom = 4
  EmbeddingStub = FALSE
  Nowhere = Nowhere
  MaxSeq = 1
CHECK_DEADLOCK FALSE
SYMMETRY NamesAreAlike
INVARIANTS ChunksArePrefix
PROPERTIES SuccessMeansComplete ImplementsIndex
