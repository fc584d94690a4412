\* Start, stop and failure of the process, in any interleaving.
SPECIFICATION ControlFairSpec
CONSTANT MaxInterrogate = 1
CHECK_DEADLOCK FALSE
INVARIANTS
  ReportedIsExitCode
  NoEarlyExit
PROPERTIES
  EndsWithoutStop
  StopIsAnswered
