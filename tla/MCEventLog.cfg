CONSTANTS
  Calls = {k1, k2}
  Handles <- MCHandles
  NoHandle = 0
  Before = 1
  MaxRecords = 2
  MaxClears = 1
  MaxFaults = 1
  LogMax = 2
  BatchMax = 2
SPECIFICATION FairSpec
CHECK_DEADLOCK FALSE
INVARIANTS
  NoneSkipped
  CountedOnce
  
  TotalIsExact
PROPERTY EveryRecordIsCounted
