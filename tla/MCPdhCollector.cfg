\* Three overlapping Collect calls and two Close calls.
SPECIFICATION FairSpec
CONSTANTS
  Calls = {a1, a2, a3}
  Closes = {x1, x2}
  None = None
INVARIANTS
  
  NoUseAfterClose
PROPERTIES
  SliceIsCallersAgain
  EveryCallReturns
  WorkerEnds
  ImplementsAtomic
