\* Two scrapes that may queue; half-second ticks, a margin of half a second.
SPECIFICATION Spec
CONSTANTS
  Requests = {r1, r2}
  NoRequest = NoRequest
  UnitsPerSecond = 2
  DefaultTimeout = 6
  Margin = 1
  Headers = {0, 1, 3, 4}
  Absent = Absent
  Invalid = Invalid
  MaxClock = 12
SYMMETRY Symmetry
INVARIANTS
  LatenessIsBounded
  InTimeIfAlone
