CONSTANTS
  Programs <- MCPrograms
  Selections <- MCSelections
  Scrapes <- MCScrapes
  MaxLoad = 2
  KeptOpen <- MCKeptOpen
SPECIFICATION Spec
CHECK_DEADLOCK FALSE
INVARIANTS
  PanicHasCause
  MissingIsExplained
  SuccessMeansComplete
  CloseReleases
