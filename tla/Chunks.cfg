SPECIFICATION FairSpec
CONSTANTS
  Document <- MCDocument
  ChunkSize = 4
  Overlaps = {2, 3, 4}
  MaxLen = 9
  MaxPairLen = 6
CHECK_DEADLOCK FALSE
INVARIANTS AllTextIsChunked OrdinalsAreContiguous WindowsAreBounded ChunksAdvance
PROPERTY Terminates
