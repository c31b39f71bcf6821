SPECIFICATION FairSpec
CONSTANTS
  Handlers = {p1, p2}
  Statements = 3
  MaxRestarts = 1
INVARIANTS ReadyMeansMigrated PoolsAreBounded
PROPERTIES BecomesReady
