SPECIFICATION Spec
CONSTANTS
  Corpus <- MCCorpus
  Versions = 2
  Questions <- MCQuestions
  Polls = 1
  MaxRuns = 2
CHECK_DEADLOCK FALSE
INVARIANTS ProofFailsForACause DocumentsAreStable SourceMapTraces EvidenceIsWhole
PROPERTY EveryScriptEnds
