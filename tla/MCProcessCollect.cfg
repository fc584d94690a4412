\* Two calls that may overlap, one worker, a query with up to two instances.
SPECIFICATION CFairSpec
CONSTANTS
  k1 = k1
  k2 = k2
  Calls = {k1, k2}
  Workers = {w1}
  ChanCap = 1
  MaxRequests <- MCMaxRequests
  MaxPanics = 1
  Fields = {1, 2}
  MaxInstances <- MCMaxInstances
CHECK_DEADLOCK FALSE
INVARIANTS
  NoStraySend
  NoErrorIsLost
  StaleOnlyIfMissing
  RowsAreSettled
PROPERTIES
  EveryCallEnds
