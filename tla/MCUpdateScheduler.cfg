CONSTANTS
  Calls = {k1, k2}
  Numbers = 3
SPECIFICATION FairSpec
CHECK_DEADLOCK FALSE
INVARIANTS
  SnapshotIsWhole
  CrashOnlyAtStart
PROPERTIES
  EveryCollectReturns
