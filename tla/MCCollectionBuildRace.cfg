\* Three collectors built in parallel, with every outcome of each.
SPECIFICATION FairSpec
CONSTANTS
  Names = {c1, c2, c3}
  Unknown = Unknown
INVARIANTS
  ErrorsAreReal
  UniformOutcomeIsExact
PROPERTY BuildReturns
