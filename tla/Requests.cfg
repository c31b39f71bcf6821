SPECIFICATION FairSpec
CONSTANTS
  r1 = r1
  r2 = r2
  r3 = r3
  Good = good
  Sample = sample
  Accent = accent
  NoToken = NoToken
  PoolSize = 2
  Requests <- MCRequests
  Path <- MCPath
  Scenarios <- MCScenarios
  Token <- MCToken
  Placeholder = {sample}
  NonAscii = {accent}
CHECK_DEADLOCK FALSE
INVARIANTS PoolConserved OnlyEntitledAreServed OneEventPerRequest CodecUnlessContended
PROPERTY EveryRequestEnds
