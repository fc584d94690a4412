\* One run whose collector fills the buffer and blocks.
SPECIFICATION HangSpec
CONSTANTS
  Requests = {r1}
  Collectors = {c1}
  NoRequest = none
  BufCap = 2
  MaxMetrics = 4
INVARIANTS
  NoLossWithoutExpiry
  AtMostOneLate
  ExposedIsTrue
PROPERTIES
  NoGoroutineLeak
  ProducerUnblocked
