\* Two collectors whose errors meet in the shared variable.
SPECIFICATION Spec
CONSTANTS
  Names = {c1, c2}
  Unknown = Unknown
INVARIANT AllErrorsReturned
