\* Two scrapes of one collector whose Collect calls may hang.
SPECIFICATION HangSpec
CONSTANTS
  Requests = {r1, r2}
  Collectors = {c1}
  NoRequest = none
  BufCap = 1
  MaxMetrics = 0
INVARIANTS
  OverlapOnlyAfterTimeout
PROPERTIES
  EveryScrapeReturns
  ImplementsService
