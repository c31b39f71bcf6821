SPECIFICATION Spec
CONSTANTS
  Workspace = {w1, w2}
  Name = {n1, n2}
  Content = {"a", "b", "b.txt"}
  Sha <- MCSha
  FileName = {f, g}
  Description = {}
  NoDescription = NoDescription
  Pieces <- MCPieces
  Ingests = {r1, r2}
  ShortReplies = TRUE
  Queries = {q1}
  Question = {"q", "void"}
  AskedCollection = {1, 2}
  Score <- MCScore
  Overlaps <- MCOverlaps
  NaN = NaN
  Threshold = 20
  TopK = 2
  IndexFrom = 4
  EmbeddingStub = TRUE
  MaxSeq = 0
CHECK_DEADLOCK FALSE
SYMMETRY NamesAreAlike
INVARIANTS TypeOK WorkspaceConsistent NoLostChunk CitationFidelity AnswersComeFromUploads AnswersAreGrounded CitationsResolve
PROPERTIES DocumentsKeepTheirIdentity CollectionsShareOnlyFiles DeletesStayInTheirDocument RefusedForLackOfEvidence
